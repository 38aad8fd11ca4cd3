--------------------------- MODULE RelaySessions ---------------------------
(***************************************************************************)
(* Conversations of a browser with one spoke through the hub: shells and   *)
(* VM consoles (console.py), and single questions, the logs, a trace of    *)
(* the commands, a new token (spokes.py).  The hub asks over the spoke's   *)
(* socket, waits on a queue registered under a fresh id, and drops what    *)
(* comes for an id that is not registered (ws.py, route_*_message).        *)
(***************************************************************************)
EXTENDS Naturals, Sequences, SequencesExt

CONSTANTS
  Session, \* the conversations
  kind,    \* of a session: "shell", "console" or "question"
  MaxDrop  \* bound: losses of the spoke's connection

ASSUME SessionAssumption ==
  /\ kind \in [Session -> {"shell", "console", "question"}]
  /\ MaxDrop \in Nat

VARIABLES
  side,     \* what the hub does for a session
  queue,    \* what has come for it since its queue was registered
  remote,   \* (external) the shell or console at the spoke
  toSpoke,  \* messages under way to the spoke, in order
  toHub,    \* and from it
  linked,   \* the spoke is connected
  broken,   \* history: sessions the connection was lost in
  attached, \* history: consoles a browser was attached to
  drops

sessionVars == <<side, queue, remote, toSpoke, toHub, linked, broken, attached,
                 drops>>
historyOfSessions == <<broken, attached>>

\* "ready": a console the spoke has opened, which no browser is attached to.
Side == {"none", "asks", "ready", "relays", "over"}
Mail == [of : Session, what : {"start", "end", "started", "failed", "ended"}]
Msg(s, m) == [of |-> s, what |-> m]

\* A queue is registered while the hub asks, and while it relays.
Registered(s) == side[s] \in {"asks", "relays"}

SessionTypeOK ==
  /\ side \in [Session -> Side]
  /\ queue \in [Session -> Seq(Mail)]
  /\ remote \in [Session -> {"none", "open", "closed"}]
  /\ toSpoke \in Seq(Mail) /\ toHub \in Seq(Mail)
  /\ linked \in BOOLEAN
  /\ broken \subseteq Session /\ attached \subseteq Session
  /\ drops \in 0 .. MaxDrop

SessionInit ==
  /\ side = [s \in Session |-> "none"]
  /\ queue = [s \in Session |-> <<>>]
  /\ remote = [s \in Session |-> "none"]
  /\ toSpoke = <<>> /\ toHub = <<>>
  /\ linked = TRUE
  /\ broken = {} /\ attached = {} /\ drops = 0

\* send_to_spoke: nothing is sent to a spoke that is not connected.
Send(s, m) == toSpoke' = IF linked THEN Append(toSpoke, Msg(s, m)) ELSE toSpoke

Turns(s, to) == /\ side' = [side EXCEPT ![s] = to]
                /\ queue' = [queue EXCEPT ![s] = <<>>]

-----------------------------------------------------------------------------
(* The hub asks.                                                           *)

\* spoke_shell_ws, create_console_session and the questions begin alike.
Ask(s) ==
  /\ side[s] = "none"
  /\ IF linked THEN Turns(s, "asks") /\ Send(s, "start")
               ELSE Turns(s, "over") /\ UNCHANGED toSpoke
  /\ UNCHANGED <<remote, toHub, linked, historyOfSessions, drops>>

\* (mutant) a shell's relay begins with a queue of its own
AnsweredAnew(s) ==
  /\ side[s] = "asks" /\ queue[s] # <<>>
  /\ Turns(s, IF Head(queue[s]).what # "started" \/ kind[s] = "question" THEN "over"
              ELSE IF kind[s] = "shell" THEN "relays" ELSE "ready")
  /\ UNCHANGED <<remote, toSpoke, toHub, linked, historyOfSessions, drops>>

\* A console's queue is given up until a browser attaches to it.
Answered(s) ==
  /\ side[s] = "asks" /\ queue[s] # <<>>
  /\ IF Head(queue[s]).what = "started"
       THEN CASE kind[s] = "shell" -> /\ side' = [side EXCEPT ![s] = "relays"]
                                      /\ queue' = [queue EXCEPT ![s] = Tail(@)]
              [] kind[s] = "console" -> Turns(s, "ready")
              [] kind[s] = "question" -> Turns(s, "over")
       ELSE Turns(s, "over")
  /\ UNCHANGED <<remote, toSpoke, toHub, linked, historyOfSessions, drops>>

\* The answer did not come in time, and the spoke is not told: spoke_shell_ws
\* means to, but console.py names contextlib without importing it, and the
\* handler ends with a NameError.
GiveUpWaiting(s) ==
  /\ side[s] = "asks" /\ queue[s] = <<>>
  /\ Turns(s, "over")
  /\ UNCHANGED <<remote, toSpoke, toHub, linked, historyOfSessions, drops>>

-----------------------------------------------------------------------------
(* The hub relays.                                                         *)

\* console_websocket, within the minute that the session is kept.
Attach(s) ==
  /\ side[s] = "ready"
  /\ Turns(s, "relays")
  /\ attached' = attached \cup {s}
  /\ UNCHANGED <<remote, toSpoke, toHub, linked, broken, drops>>

\* The minute is over, or the browser is gone before it is accepted.
ExpireConsole(s) ==
  /\ side[s] = "ready"
  /\ Turns(s, "over")
  /\ UNCHANGED <<remote, toSpoke, toHub, linked, historyOfSessions, drops>>

\* (mutant) nothing is told to the spoke
BrowserLeavesSilently(s) ==
  /\ side[s] = "relays"
  /\ Turns(s, "over")
  /\ UNCHANGED <<remote, toSpoke, toHub, linked, historyOfSessions, drops>>

\* The browser leaves, or a frame cannot be passed on.  Of a console the spoke
\* is told in either case; of a shell in neither, because of that NameError.
BrowserLeaves(s) ==
  /\ side[s] = "relays"
  /\ Turns(s, "over")
  /\ IF kind[s] = "console" THEN Send(s, "end") ELSE UNCHANGED toSpoke
  /\ UNCHANGED <<remote, toHub, linked, historyOfSessions, drops>>

\* The spoke has ended it; a console is ended at the spoke all the same.
SpokeEnded(s) ==
  /\ side[s] = "relays" /\ queue[s] # <<>>
  /\ Turns(s, "over")
  /\ IF kind[s] = "console" THEN Send(s, "end") ELSE UNCHANGED toSpoke
  /\ UNCHANGED <<remote, toHub, linked, historyOfSessions, drops>>

-----------------------------------------------------------------------------
(* The socket, and the spoke (external).                                   *)

Route ==
  /\ toHub # <<>>
  /\ toHub' = Tail(toHub)
  /\ LET m == Head(toHub)
     IN queue' = IF Registered(m.of) THEN [queue EXCEPT ![m.of] = Append(@, m)] ELSE queue
  /\ UNCHANGED <<side, remote, toSpoke, linked, historyOfSessions, drops>>

SpokeStarts(s, ok) ==
  /\ toSpoke # <<>> /\ Head(toSpoke) = Msg(s, "start")
  /\ toSpoke' = Tail(toSpoke)
  /\ remote' = [remote EXCEPT ![s] = IF ok THEN "open" ELSE "closed"]
  /\ toHub' = Append(toHub, Msg(s, IF ok THEN "started" ELSE "failed"))
  /\ UNCHANGED <<side, queue, linked, historyOfSessions, drops>>

SpokeIsTold(s) ==
  /\ toSpoke # <<>> /\ Head(toSpoke) = Msg(s, "end")
  /\ toSpoke' = Tail(toSpoke)
  /\ remote' = [remote EXCEPT ![s] = "closed"]
  /\ UNCHANGED <<side, queue, toHub, linked, historyOfSessions, drops>>

SpokeEnds(s) ==
  /\ linked /\ remote[s] = "open"
  /\ remote' = [remote EXCEPT ![s] = "closed"]
  /\ toHub' = Append(toHub, Msg(s, "ended"))
  /\ UNCHANGED <<side, queue, toSpoke, linked, historyOfSessions, drops>>

LoseLink ==
  /\ linked /\ drops < MaxDrop
  /\ linked' = FALSE /\ drops' = drops + 1
  /\ toSpoke' = <<>> /\ toHub' = <<>>
  /\ broken' = broken \cup {s \in Session : side[s] # "none"}
  /\ UNCHANGED <<side, queue, remote, attached>>

RestoreLink ==
  /\ ~linked /\ linked' = TRUE
  /\ UNCHANGED <<side, queue, remote, toSpoke, toHub, historyOfSessions, drops>>

SessionNext ==
  \/ \E s \in Session :
       \/ Ask(s) \/ Answered(s) \/ GiveUpWaiting(s)
       \/ Attach(s) \/ ExpireConsole(s)
       \/ BrowserLeaves(s) \/ SpokeEnded(s)
       \/ \E ok \in BOOLEAN : SpokeStarts(s, ok)
       \/ SpokeIsTold(s) \/ SpokeEnds(s)
  \/ Route \/ LoseLink \/ RestoreLink

SessionSpec == SessionInit /\ [][SessionNext]_sessionVars

-----------------------------------------------------------------------------
(* Properties.                                                             *)

Pending(s) == \E m \in ToSet(toSpoke) : m.of = s

\* Nothing stays open at a spoke for a console that a browser was attached to,
\* once the hub is done with it and the spoke has read what was sent, whether
\* the browser left or the spoke ended it itself, as long as the connection
\* held.  Of shells this is meant (shell_exit) and not so.
NoOrphan ==
  \A s \in attached \ broken :
    side[s] = "over" /\ ~Pending(s) => remote[s] # "open"

\* No browser is left with a shell that has ended at the spoke: as long as it is
\* relayed, what the spoke wrote of its end is on its way, even if it ended
\* before the hub had begun to relay; if the connection held.
EndIsHeard ==
  \A s \in Session \ broken :
    kind[s] = "shell" /\ side[s] = "relays" /\ remote[s] # "open" =>
      \/ \E m \in ToSet(toHub) : m.of = s /\ m.what # "started"
      \/ \E m \in ToSet(queue[s]) : m.what # "started"

=============================================================================
