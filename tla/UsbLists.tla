------------------------------ MODULE UsbLists ------------------------------
(* The lists of USB devices that spokes may use (store.py, superadmin.py,   *)
(* aggregate.py, spokes.py): one of the platform, one of the tenant, and    *)
(* the spokes are sent their union.  The endpoints run in threads; each     *)
(* changes a list and then goes through the spokes with copies of their     *)
(* rows, of which there is one here.  ConfigSync has the rest of the        *)
(* configuration, heartbeats that change the row, and lost commands.        *)
EXTENDS Naturals, Sequences, SequencesExt

CONSTANTS
    Device,     \* vendor and product ids
    Omitted,    \* a payload without a list: the spoke keeps what it has
    UsbThread,  \* requests that may be under way at once
    MaxUsbEdit, \* bound: requests
    MaxPushAll, \* bound: those of the endpoint usb-config/push-all
    MaxDrift    \* bound: corrections of drift

ASSUME UsbAssumption == MaxUsbEdit \in Nat /\ MaxPushAll \in Nat /\ MaxDrift \in Nat

VARIABLES
    globalUsb,  \* global_config.json
    tenantUsb,  \* Tenant.usb_vidpids
    keyed,      \* hub_config has the key usb_vidpids
    usbEdit,    \* usbEdit[t]: the request the thread t handles
    usbRow,     \* the spoke's row: versions and the hash of the pushed list
    usbQueue,   \* its config_update commands, in order
    handled,    \* how many of them the spoke has applied and acknowledged
    installed,  \* the list the spoke works with
    usbEdits, pushAlls, drifts  \* requests and corrections so far

usbLists == <<globalUsb, tenantUsb, keyed>>
usbCounters == <<usbEdits, pushAlls, drifts>>
usbVars == <<usbLists, usbEdit, usbRow, usbQueue, handled, installed, usbCounters>>

List == SUBSET Device
UsbVersion == 0..(MaxUsbEdit + MaxDrift)
UsbRow == [cv: UsbVersion, av: UsbVersion, hash: {Omitted} \cup List]
NewRow == [cv |-> 0, av |-> 0, hash |-> Omitted]
NoUsbEdit == [step |-> "idle", list |-> {}, copy |-> NewRow]

UsbTypeOK ==
    /\ globalUsb \in List /\ tenantUsb \in List /\ keyed \in BOOLEAN
    /\ usbEdit \in [UsbThread -> [step: {"idle", "set", "list", "save", "ensure", "listAll", "pushAll"},
                                  list: List, copy: UsbRow]]
    /\ usbRow \in UsbRow
    /\ usbQueue \in Seq([ver: UsbVersion, list: {Omitted} \cup List])
    /\ handled \in 0..Len(usbQueue)
    /\ installed \in List
    /\ usbEdits \in 0..MaxUsbEdit /\ pushAlls \in 0..MaxPushAll /\ drifts \in 0..MaxDrift

UsbInit ==
    /\ globalUsb = {} /\ tenantUsb = {} /\ keyed = FALSE
    /\ usbEdit = [t \in UsbThread |-> NoUsbEdit]
    /\ usbRow = NewRow
    /\ usbQueue = <<>> /\ handled = 0
    /\ installed = {}
    /\ usbEdits = 0 /\ pushAlls = 0 /\ drifts = 0

-----------------------------------------------------------------------------
(* _effective_usb_vidpids_from: without their annotations the lists are     *)
(* sets.                                                                    *)
Effective == globalUsb \cup tenantUsb

(* _hub_core_config: an empty list is sent to a tenant that has had one.    *)
Payload == IF Effective # {} \/ keyed THEN Effective ELSE Omitted

Step(t, step) == usbEdit' = [usbEdit EXCEPT ![t].step = step]

Request(t) ==
    /\ usbEdit[t].step = "idle" /\ usbEdits < MaxUsbEdit
    /\ usbEdits' = usbEdits + 1
    /\ UNCHANGED <<usbRow, usbQueue, handled, installed, drifts>>

-----------------------------------------------------------------------------
(* update_global_usb_vidpids                                                *)
SetGlobal(t, list) ==
    /\ Request(t)
    /\ globalUsb' = list
    /\ Step(t, "list")
    /\ UNCHANGED <<tenantUsb, keyed, pushAlls>>

(* add_ and delete_tenant_usb_vidpid: the list is read, and set by a second *)
(* call of the store.                                                       *)
EditTenantList(t, d) ==
    /\ d \notin globalUsb
    /\ Request(t)
    /\ usbEdit' = [usbEdit EXCEPT ![t].step = "set",
                       ![t].list = IF d \in tenantUsb THEN tenantUsb \ {d} ELSE tenantUsb \cup {d}]
    /\ UNCHANGED <<usbLists, pushAlls>>

SetTenantList(t) ==
    /\ usbEdit[t].step = "set"
    /\ tenantUsb' = usbEdit[t].list /\ keyed' = TRUE
    /\ usbEdit' = [usbEdit EXCEPT ![t].step = "list", ![t].list = {}]
    /\ UNCHANGED <<globalUsb, usbRow, usbQueue, handled, installed, usbCounters>>

(* resync_tenant_usb_vidpids                                                *)
Resync(t) ==
    /\ Request(t)
    /\ Step(t, "list")
    /\ UNCHANGED <<usbLists, pushAlls>>

(* list_spokes gives the loop a copy of the row; the version is raised in   *)
(* the copy, and save_spoke writes all of it.                               *)
ListRow(t) ==
    /\ usbEdit[t].step = "list"
    /\ usbEdit' = [usbEdit EXCEPT ![t].step = "save", ![t].copy = [usbRow EXCEPT !.cv = @ + 1]]
    /\ UNCHANGED <<usbLists, usbRow, usbQueue, handled, installed, usbCounters>>

SaveUsbRow(t) ==
    /\ usbEdit[t].step = "save"
    /\ usbRow' = usbEdit[t].copy
    /\ usbEdit' = [usbEdit EXCEPT ![t].step = "ensure", ![t].copy = NewRow]
    /\ UNCHANGED <<usbLists, usbQueue, handled, installed, usbCounters>>

(* ensure_config_update_command: the payload is the list at this moment.    *)
Wanted == usbRow.cv > usbRow.av /\ \A k \in DOMAIN usbQueue : usbQueue[k].ver # usbRow.cv

Ensure ==
    IF Wanted
    THEN /\ usbQueue' = Append(usbQueue, [ver |-> usbRow.cv, list |-> Payload])
         /\ usbRow' = [usbRow EXCEPT !.hash = Payload]
    ELSE UNCHANGED <<usbQueue, usbRow>>

EnsurePush(t) ==
    /\ usbEdit[t].step = "ensure"
    /\ Ensure
    /\ Step(t, "idle")
    /\ UNCHANGED <<usbLists, handled, installed, usbCounters>>

-----------------------------------------------------------------------------
(* push_tenant_usb_config_to_all_spokes: the tenant's list is set, and      *)
(* queued as it is.                                                         *)
PushAllSet(t, list) ==
    /\ pushAlls < MaxPushAll /\ pushAlls' = pushAlls + 1
    /\ Request(t)
    /\ tenantUsb' = list /\ keyed' = TRUE
    /\ usbEdit' = [usbEdit EXCEPT ![t].step = "pushAll", ![t].list = list]
    /\ UNCHANGED globalUsb

(* _queue_spoke_config_push; without an await the two go together.          *)
PushAllQueue(t) ==
    /\ usbEdit[t].step = "pushAll"
    /\ usbRow' = [usbRow EXCEPT !.cv = @ + 1]
    /\ usbQueue' = Append(usbQueue, [ver |-> usbRow.cv + 1, list |-> usbEdit[t].list])
    /\ usbEdit' = [usbEdit EXCEPT ![t] = NoUsbEdit]
    /\ UNCHANGED <<usbLists, handled, installed, usbCounters>>

-----------------------------------------------------------------------------
(* The spoke applies the next command; its ack reaches the hub.             *)
Apply ==
    /\ handled < Len(usbQueue) /\ handled' = handled + 1
    /\ LET c == usbQueue[handled'] IN
        /\ installed' = IF c.list = Omitted THEN installed ELSE c.list
        /\ usbRow' = [usbRow EXCEPT !.av = IF c.ver > @ THEN c.ver ELSE @]
    /\ UNCHANGED <<usbLists, usbEdit, usbQueue, usbCounters>>

(* A heartbeat: check_and_fix_config_drift, whose new version the spoke's   *)
(* next inbox poll queues.                                                  *)
Drift == usbRow.cv <= usbRow.av /\ usbRow.hash # Payload

FixDrift ==
    /\ Drift /\ drifts < MaxDrift
    /\ drifts' = drifts + 1
    /\ usbRow' = [usbRow EXCEPT !.cv = usbRow.av + 1]
    /\ UNCHANGED <<usbLists, usbEdit, usbQueue, handled, installed, usbEdits, pushAlls>>

PollUsb ==
    /\ Wanted /\ Ensure
    /\ UNCHANGED <<usbLists, usbEdit, handled, installed, usbCounters>>

UsbNext ==
    \/ \E t \in UsbThread :
         \/ \E list \in List : SetGlobal(t, list) \/ PushAllSet(t, list)
         \/ \E d \in Device : EditTenantList(t, d)
         \/ SetTenantList(t) \/ Resync(t)
         \/ ListRow(t) \/ SaveUsbRow(t) \/ EnsurePush(t) \/ PushAllQueue(t)
    \/ Apply \/ FixDrift \/ PollUsb

UsbSpec == UsbInit /\ [][UsbNext]_usbVars

-----------------------------------------------------------------------------
(* Nothing is under way and a heartbeat would do nothing.                   *)
UsbSettled ==
    /\ \A t \in UsbThread : usbEdit[t].step = "idle"
    /\ handled = Len(usbQueue)
    /\ ~Wanted /\ ~Drift

(* A spoke with nothing under way has the lists' union, if it is ever sent  *)
(* (_hub_core_config, "Push the effective (global + tenant) USB certified   *)
(* list to spokes", store.py:988).                                          *)
UsbDelivered == UsbSettled /\ Payload # Omitted => installed = Payload
============================================================================
