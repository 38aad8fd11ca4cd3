-------------------------- MODULE CommandLifecycle --------------------------
(***************************************************************************)
(* What the hub promises about the commands it relays to one spoke,        *)
(* whatever the transport, the timing and the failures in between.  A      *)
(* command row is created once, its status only moves forward              *)
(* (queued, delivered, executed), a row that has left the queue file never *)
(* comes back, and a row is executed only if the spoke received the        *)
(* command.  CommandQueue is shown to implement this specification, and so *)
(* is QueueWorkers, the file accesses below it, with one worker.           *)
(***************************************************************************)
EXTENDS Naturals

CONSTANT Commands       \* the commands ever created for the spoke

VARIABLES stage,        \* where each command stands on the hub
          received      \* commands the spoke has received

vars == <<stage, received>>

\* A command that has a row in the queue file.
InFile == {"queued", "delivered", "executed"}
Stage == {"new", "gone"} \cup InFile

Held == {c \in Commands : stage[c] \in InFile}

Init ==
  /\ stage = [c \in Commands |-> "new"]
  /\ received = {}

\* One rewrite of the queue file: the rows in delivered are handed over, the
\* rows in dropped leave the file for good.
Rewrite(delivered, dropped) ==
  [c \in Commands |-> IF c \in dropped THEN "gone"
                      ELSE IF c \in delivered THEN "delivered"
                      ELSE stage[c]]

Create(c) ==
  /\ stage[c] = "new"
  /\ \E dropped \in SUBSET Held :
       stage' = [Rewrite({}, dropped) EXCEPT ![c] = "queued"]
  /\ UNCHANGED received

Settle ==
  /\ \E delivered \in SUBSET {c \in Commands : stage[c] = "queued"},
        dropped \in SUBSET Held :
       stage' = Rewrite(delivered, dropped)
  /\ UNCHANGED received

Execute(c) ==
  /\ c \in received
  /\ stage[c] \in InFile
  /\ stage' = [stage EXCEPT ![c] = "executed"]
  /\ UNCHANGED received

Receive ==
  /\ \E cmds \in SUBSET {c \in Commands : stage[c] # "new"} :
       received' = received \cup cmds
  /\ UNCHANGED stage

Next ==
  \/ \E c \in Commands : Create(c) \/ Execute(c)
  \/ Settle
  \/ Receive

Spec == Init /\ [][Next]_vars

=============================================================================
