----------------------------- MODULE MCHubParts -----------------------------
(***************************************************************************)
(* Ten parts of the hub for TLC, in one run: each behaviour is one of a    *)
(* single part, named by component, and the other parts stay as they were  *)
(* at the start.                                                           *)
(***************************************************************************)
EXTENDS QueueWorkers, HubStart, FleetTimers, CentralMonitor, AcmeOrder,
        ConfOverrides, CentralBrowse, FleetUpdate, UsbLists, RelaySessions,
        TLC

CONSTANTS c1, c2, t1, t2, t3, w1, s1, s2, a1, k1, k2, k3

VARIABLE component

SameWorker == [t \in Thread |-> w1]
KeptFor == [f \in Feed |-> 2]
KeptEmpty == [f \in Feed |-> 1]
Kinds == k1 :> "shell" @@ k2 :> "console" @@ k3 :> "question"

Component == {"queue", "start", "timers", "monitor", "acme", "overrides",
              "browse", "update", "usb", "sessions"}

(* One initial state of those parts that have several, for when the        *)
(* behaviour is one of another part.                                       *)
Still ==
  /\ component = "timers" \/ onSchedule = {}
  /\ component = "acme" \/ provider = "cloudflare"
  /\ component = "overrides" \/ (~token /\ ~managed)
  /\ component = "browse" \/ (account = "none" /\ pageFile = NoPage)

PartsInit ==
  /\ component \in Component
  /\ Init /\ StartInit /\ TimersInit /\ CentralInit /\ AcmeInit /\ ConfInit
  /\ BrowseInit /\ UpdateInit /\ UsbInit /\ SessionInit
  /\ Still

(* The variables of all parts but c.                                       *)
Others(c) ==
  /\ c = "queue" \/ UNCHANGED vars
  /\ c = "start" \/ UNCHANGED startVars
  /\ c = "timers" \/ UNCHANGED timersVars
  /\ c = "monitor" \/ UNCHANGED centralVars
  /\ c = "acme" \/ UNCHANGED acmeVars
  /\ c = "overrides" \/ UNCHANGED confVars
  /\ c = "browse" \/ UNCHANGED browseVars
  /\ c = "update" \/ UNCHANGED updateVars
  /\ c = "usb" \/ UNCHANGED usbVars
  /\ c = "sessions" \/ UNCHANGED sessionVars

PartsNext ==
  /\ UNCHANGED component /\ Others(component)
  /\ \/ component = "queue" /\ Next
     \/ component = "start" /\ StartNext
     \/ component = "timers" /\ TimersNext
     \/ component = "monitor" /\ CentralNext
     \/ component = "acme" /\ AcmeNext
     \/ component = "overrides" /\ ConfNext
     \/ component = "browse" /\ BrowseNext
     \/ component = "update" /\ UpdateNext
     \/ component = "usb" /\ UsbNext
     \/ component = "sessions" /\ SessionNext

partVars == <<component, vars, startVars, timersVars, centralVars, acmeVars,
              confVars, browseVars, updateVars, usbVars, sessionVars>>

PartsSpec == PartsInit /\ [][PartsNext]_partVars

(* Every part keeps to its types.                                          *)
PartsTypeOK ==
  /\ component = "queue" => TypeOK
  /\ component = "start" => StartTypeOK
  /\ component = "timers" => TimersTypeOK
  /\ component = "monitor" => CentralTypeOK
  /\ component = "acme" => AcmeTypeOK
  /\ component = "overrides" => ConfTypeOK
  /\ component = "browse" => BrowseTypeOK
  /\ component = "update" => UpdateTypeOK
  /\ component = "usb" => UsbTypeOK
  /\ component = "sessions" => SessionTypeOK
=============================================================================
