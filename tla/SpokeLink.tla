----------------------------- MODULE SpokeLink -----------------------------
(***************************************************************************)
(* The sockets of one spoke (ws.py; spokes.py, spoke_websocket).  A spoke  *)
(* that lost its connection opens another one, often before the hub knows  *)
(* that the first is dead; the newest is the one in spoke_connections.     *)
(* Requests, and the handlers of the sockets, send to whichever socket is  *)
(* registered, one at a time under the spoke's lock.                       *)
(***************************************************************************)
EXTENDS Naturals, FiniteSets

CONSTANTS
  Socket, \* the connections the spoke opens, one after the other
  Asker,  \* requests that send to the spoke
  Lock,   \* the locks that can be created
  NoSocket, NoLock, Unheld

ASSUME LinkAssumption ==
  /\ NoSocket \notin Socket /\ NoLock \notin Lock
  /\ Unheld \notin Asker \cup Socket /\ Asker \cap Socket = {}

\* A handler sends as well, when it pushes the queued commands.
Sender == Asker \cup Socket

VARIABLES
  handler,     \* spoke_websocket of a socket
  alive,       \* sockets that are not closed
  stuck,       \* those whose buffer is full: a send does not end
  newest,      \* history: the socket accepted last
  spokeSocket, \* spoke_connections
  lockOf,      \* _spoke_send_locks
  holder,      \* who holds a lock
  send         \* the send under way: its stage, its socket and its lock

linkVars == <<handler, alive, stuck, newest, spokeSocket, lockOf, holder, send>>
socketVars == <<handler, alive, stuck, newest>>

NoSend == [at |-> "idle", socket |-> NoSocket, lock |-> NoLock]

LinkTypeOK ==
  /\ handler \in [Socket -> {"none", "runs", "over"}]
  /\ alive \subseteq Socket /\ stuck \subseteq alive
  /\ newest \in Socket \cup {NoSocket} /\ spokeSocket \in Socket \cup {NoSocket}
  /\ lockOf \in Lock \cup {NoLock}
  /\ holder \in [Lock -> Sender \cup {Unheld}]
  /\ send \in [Sender -> [at : {"idle", "waits", "sends"},
                         socket : Socket \cup {NoSocket}, lock : Lock \cup {NoLock}]]

LinkInit ==
  /\ handler = [w \in Socket |-> "none"]
  /\ alive = {} /\ stuck = {} /\ newest = NoSocket
  /\ spokeSocket = NoSocket /\ lockOf = NoLock
  /\ holder = [l \in Lock |-> Unheld]
  /\ send = [s \in Sender |-> NoSend]

\* setdefault(key, asyncio.Lock()): the lock there is, or a new one.
UsedLock(l) == lockOf = l \/ \E s \in Sender : send[s].lock = l
SetDefault(l) ==
  /\ IF lockOf # NoLock THEN l = lockOf ELSE ~UsedLock(l)
  /\ lockOf' = l

\* (mutant) the lock goes with every socket that is given up
UnregisterLock(w) ==
  /\ spokeSocket' = IF spokeSocket = w THEN NoSocket ELSE spokeSocket
  /\ lockOf' = NoLock

\* unregister_spoke: only a socket that is still the registered one.
UnregisterSocket(w) ==
  IF spokeSocket = w THEN spokeSocket' = NoSocket /\ lockOf' = NoLock
                    ELSE UNCHANGED <<spokeSocket, lockOf>>

-----------------------------------------------------------------------------
(* The sockets.                                                            *)

\* register_spoke: the new socket replaces the old one; the lock remains.
Accept(w, l) ==
  /\ handler[w] = "none"
  /\ handler' = [handler EXCEPT ![w] = "runs"]
  /\ alive' = alive \cup {w} /\ newest' = w /\ spokeSocket' = w
  /\ SetDefault(l)
  /\ UNCHANGED <<stuck, holder, send>>

\* The commands queued could not be read: the handler fails before its try,
\* and the socket stays registered.
FailAccepted(w) ==
  /\ handler[w] = "runs" /\ w = newest /\ send[w] = NoSend
  /\ handler' = [handler EXCEPT ![w] = "over"]
  /\ alive' = alive \ {w} /\ stuck' = stuck \ {w}
  /\ UNCHANGED <<newest, spokeSocket, lockOf, holder, send>>

Stick(w) ==
  /\ w \in alive \ stuck
  /\ stuck' = stuck \cup {w}
  /\ UNCHANGED <<handler, alive, newest, spokeSocket, lockOf, holder, send>>

Break(w) ==
  /\ w \in alive
  /\ alive' = alive \ {w} /\ stuck' = stuck \ {w}
  /\ UNCHANGED <<handler, newest, spokeSocket, lockOf, holder, send>>

\* The handler finds its socket closed, unless it waits for a send to end.
EndHandler(w) ==
  /\ handler[w] = "runs" /\ w \notin alive /\ send[w] = NoSend
  /\ handler' = [handler EXCEPT ![w] = "over"]
  /\ UnregisterSocket(w)
  /\ UNCHANGED <<alive, stuck, newest, holder, send>>

-----------------------------------------------------------------------------
(* send_to_spoke.                                                          *)

BeginSend(s, l) ==
  /\ send[s] = NoSend /\ spokeSocket # NoSocket
  /\ s \in Socket => handler[s] = "runs"
  /\ SetDefault(l)
  /\ send' = [send EXCEPT ![s] = [at |-> "waits", socket |-> spokeSocket, lock |-> l]]
  /\ UNCHANGED <<socketVars, spokeSocket, holder>>

TakeLock(s) ==
  /\ send[s].at = "waits" /\ holder[send[s].lock] = Unheld
  /\ holder' = [holder EXCEPT ![send[s].lock] = s]
  /\ send' = [send EXCEPT ![s].at = "sends"]
  /\ UNCHANGED <<socketVars, spokeSocket, lockOf>>

EndSend(s) ==
  /\ send[s].at = "sends"
  /\ holder' = [holder EXCEPT ![send[s].lock] = Unheld]
  /\ send' = [send EXCEPT ![s] = NoSend]
  /\ UNCHANGED socketVars

Sent(s) ==
  /\ send[s].socket \in alive \ stuck
  /\ EndSend(s)
  /\ UNCHANGED <<spokeSocket, lockOf>>

\* (mutant) a send that fails keeps the lock
NotSentHolding(s) ==
  /\ send[s].at = "sends" /\ send[s].socket \notin alive
  /\ send' = [send EXCEPT ![s] = NoSend]
  /\ UnregisterSocket(send[s].socket)
  /\ UNCHANGED <<socketVars, holder>>

NotSent(s) ==
  /\ send[s].at = "sends" /\ send[s].socket \notin alive
  /\ EndSend(s)
  /\ UnregisterSocket(send[s].socket)

LinkNext ==
  \/ \E w \in Socket :
       \/ \E l \in Lock : Accept(w, l)
       \/ FailAccepted(w) \/ Stick(w) \/ Break(w) \/ EndHandler(w)
  \/ \E s \in Sender :
       \/ \E l \in Lock : BeginSend(s, l)
       \/ TakeLock(s) \/ Sent(s) \/ NotSent(s)

LinkSpec == LinkInit /\ [][LinkNext]_linkVars

\* A send ends unless its socket is stuck; the server's pings find out that a
\* socket is, and close it; a lock is given to those that wait in turn.
LinkFairness ==
  /\ \A w \in Socket : WF_linkVars(w \in stuck /\ Break(w))
  /\ \A s \in Sender : /\ SF_linkVars(TakeLock(s))
                       /\ WF_linkVars(Sent(s) \/ NotSent(s))

LinkFairSpec == LinkSpec /\ LinkFairness

-----------------------------------------------------------------------------
(* Properties.                                                             *)

\* Two sends under a spoke's lock never write to one socket at a time, though
\* locks are dropped and created anew while older ones are still held.
OneAtATime ==
  \A s, t \in Sender :
    (send[s].at = "sends" /\ send[t].at = "sends" /\ send[s].socket = send[t].socket)
      => s = t

\* The spoke's newest socket, while it is open and served, is the registered
\* one: neither the end of an older socket's handler nor a send that fails on
\* an older socket takes it out.
NewestRegistered ==
  (newest \in alive /\ handler[newest] = "runs") => spokeSocket = newest

LinkSound == OneAtATime /\ NewestRegistered

\* Every send ends, also on a newer socket that shares its lock with a send
\* that an older, stuck socket holds up.
SendsEnd == \A s \in Sender : (send[s].at # "idle") ~> (send[s].at = "idle")

=============================================================================
