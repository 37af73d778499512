---------------------------- MODULE DevicePages -----------------------------
(***************************************************************************)
(* The device list and the device page: app/components/Devices.tsx and     *)
(* DeviceDetail.tsx of the new application, and the device page of the     *)
(* legacy one with the dialog it asks through (ConfirmProvider.jsx).  The  *)
(* device on the screen and the device of the route are two things: the    *)
(* route is read when a button is pressed, the screen shows what the last  *)
(* load has answered.                                                      *)
(***************************************************************************)
EXTENDS FiniteSets

CONSTANTS
    Device,
    App,          \* "new" or "legacy"
    Call,         \* bound: requests in progress
    Jumps,        \* BOOLEAN: the history can lead from one device page to another
    Faults        \* BOOLEAN: requests may fail

None == "none"
List == "list"
Idle == [op |-> None]

ASSUME DevicePagesAssumption ==
    /\ App \in {"new", "legacy"} /\ Jumps \in BOOLEAN /\ Faults \in BOOLEAN
    /\ None \notin Device \cup Call /\ List \notin Device

VARIABLES
    stored,       \* rows of devices
    route,        \* the list or the device of the address
    visited,      \* devices the browser's history can lead to
    devices,      \* the list shown
    device,       \* the device shown
    loading,      \* of the page mounted
    deleting,     \* legacy: the delete button is disabled
    dialog,       \* legacy: the handler whose promise the dialog will resolve
    calls         \* handlers in progress

vars == <<stored, route, visited, devices, device, loading, deleting, dialog, calls>>

Handler == [op: {"list", "detail", "delete", "poll"}, stage: {"asked", "sent", "ok", "refused"},
            of: Device \cup {None}, saw: Device \cup {None}, mounted: BOOLEAN, read: SUBSET Device]

TypeOK ==
    /\ stored \subseteq Device /\ devices \subseteq Device /\ visited \subseteq Device
    /\ route \in Device \cup {List} /\ device \in Device \cup {None}
    /\ loading \in BOOLEAN /\ deleting \in BOOLEAN
    /\ dialog \in Call \cup {None}
    /\ calls \in [Call -> Handler \cup {Idle}]
-----------------------------------------------------------------------------
Free(c) == calls[c] = Idle
Request(op, d) == [op |-> op, stage |-> "sent", of |-> d, saw |-> device, mounted |-> TRUE, read |-> {}]
Start(c, request) == Free(c) /\ calls' = [calls EXCEPT ![c] = request]

(* Leaving a page: what its handlers set from now on is ignored.  Those in *)
(* "over" have ended, and the page mounted asks for what it shows.         *)
Leave(over, asks) == \E n \in Call :
    /\ Free(n) \/ n \in over
    /\ calls' = [c \in Call |->
          IF c = n THEN [asks EXCEPT !.saw = None]
          ELSE IF Free(c) \/ c \in over THEN Idle
          ELSE [calls[c] EXCEPT !.mounted = FALSE]]

MountedAsLeft(r) ==
    /\ route' = r /\ device' = device /\ loading' = TRUE /\ deleting' = FALSE
    /\ devices' = {} \* mutant
Mounted(r) ==
    /\ route' = r /\ device' = None /\ loading' = TRUE /\ deleting' = FALSE
    /\ devices' = {}

MountList(over) == Mounted(List) /\ Leave(over, Request("list", None))

(* A link of the list, which the dialog covers, or the browser's buttons.  *)
OpenDevice(d) ==
    /\ route = List
    /\ d \in visited \/ (dialog = None /\ ~loading /\ d \in devices)
    /\ Mounted(d) /\ Leave({}, Request("detail", d))
    /\ visited' = visited \cup {d}
    /\ UNCHANGED <<stored, dialog>>

Back == route # List /\ MountList({}) /\ UNCHANGED <<stored, visited, dialog>>

(* Another :id is the same component: its effect loads again and keeps     *)
(* the device until then.                                                  *)
Jump(c, d) ==
    /\ Jumps /\ route \in Device \ {d} /\ d \in visited
    /\ route' = d
    /\ Start(c, Request("detail", d))
    /\ UNCHANGED <<stored, visited, devices, device, loading, deleting, dialog>>
-----------------------------------------------------------------------------
(* Buttons.  The new pages ask with the browser's confirm(), which stops   *)
(* everything until it is answered: a refusal is no step at all.           *)
OnList   == App = "new" /\ route = List /\ ~loading
OnDevice == route # List /\ device # None

handleDelete(c, d) ==
    /\ OnList /\ d \in devices
    /\ Start(c, Request("delete", d))
    /\ UNCHANGED <<stored, route, visited, devices, device, loading, deleting, dialog>>

handlePoll(c, d) ==
    /\ OnList /\ d \in devices
    /\ Start(c, Request("poll", d))
    /\ UNCHANGED <<stored, route, visited, devices, device, loading, deleting, dialog>>

onDelete(c) ==
    /\ App = "new" /\ OnDevice
    /\ Start(c, Request("delete", route))
    /\ UNCHANGED <<stored, route, visited, devices, device, loading, deleting, dialog>>

(* The legacy handler waits for a promise; the dialog covers the page and  *)
(* lets no second click through.                                           *)
AskDelete(c) ==
    /\ App = "legacy" /\ OnDevice /\ ~loading /\ ~deleting /\ dialog = None
    /\ Start(c, [Request("delete", route) EXCEPT !.stage = "asked"])
    /\ dialog' = c
    /\ UNCHANGED <<stored, route, visited, devices, device, loading, deleting>>

Closed == dialog' = None

Close(yes) ==
    /\ dialog # None /\ calls[dialog] # Idle
    /\ LET c == dialog IN
       /\ calls' = [calls EXCEPT ![c] = IF yes THEN [@ EXCEPT !.stage = "sent", !.saw = device] ELSE Idle]
       /\ deleting' = (deleting \/ (yes /\ calls[c].mounted))
    /\ Closed
    /\ UNCHANGED <<stored, route, visited, devices, device, loading>>
-----------------------------------------------------------------------------
Respond(c, stage) == calls' = [calls EXCEPT ![c].stage = stage, ![c].read = stored]
Sent(c, op) == calls[c] # Idle /\ calls[c].op = op /\ calls[c].stage = "sent"

(* The server.  A device that is gone is an error for the page and for a   *)
(* deletion; poll asks for /healthz.                                       *)
ReadDevices(c) ==
    /\ Sent(c, "list") \/ Sent(c, "poll") \/ (Sent(c, "detail") /\ calls[c].of \in stored)
    /\ Respond(c, "ok")
    /\ UNCHANGED <<stored, route, visited, devices, device, loading, deleting, dialog>>

DeleteDevice(c) ==
    /\ Sent(c, "delete") /\ calls[c].of \in stored
    /\ stored' = stored \ {calls[c].of}
    /\ Respond(c, "ok")
    /\ UNCHANGED <<route, visited, devices, device, loading, deleting, dialog>>

Refuse(c) ==
    /\ \/ Faults /\ \E op \in {"list", "poll", "detail", "delete"} : Sent(c, op)
       \/ (Sent(c, "detail") \/ Sent(c, "delete")) /\ calls[c].of \notin stored
    /\ Respond(c, "refused")
    /\ UNCHANGED <<stored, route, visited, devices, device, loading, deleting, dialog>>
-----------------------------------------------------------------------------
(* What the pages do with the answers.                                     *)
Done(c, op, stage) == calls[c] # Idle /\ calls[c].op = op /\ calls[c].stage = stage
Drop(c) == calls' = [calls EXCEPT ![c] = Idle]

ListAnswered(c) ==
    /\ Done(c, "list", "ok") \/ Done(c, "list", "refused")
    /\ LET here == calls[c].mounted  ok == calls[c].stage = "ok" IN
       /\ devices' = IF here /\ ok THEN calls[c].read ELSE devices
       /\ loading' = (loading /\ ~here)
    /\ Drop(c)
    /\ UNCHANGED <<stored, route, visited, device, deleting, dialog>>

DetailAnswered(c) ==
    /\ Done(c, "detail", "ok") \/ Done(c, "detail", "refused")
    /\ device' = IF calls[c].mounted /\ calls[c].stage = "ok" THEN calls[c].of ELSE device
    /\ loading' = (loading /\ ~calls[c].mounted)
    /\ Drop(c)
    /\ UNCHANGED <<stored, route, visited, devices, deleting, dialog>>

(* The list reads itself again after a poll and after a deletion.          *)
ReadAgain(c) == calls' = [calls EXCEPT ![c] = [Request("list", None) EXCEPT !.mounted = calls[c].mounted]]

(* A deletion from the list saw no device page; the legacy list has none.  *)
FromList(c) == App = "new" /\ calls[c].saw = None
Reloads(c) ==
    /\ Done(c, "poll", "ok") \/ (Done(c, "delete", "ok") /\ FromList(c))
    /\ ReadAgain(c)
    /\ UNCHANGED <<stored, route, visited, devices, device, loading, deleting, dialog>>

(* navigate() leads to the list from wherever the user is by then.         *)
Deleted(c) ==
    /\ Done(c, "delete", "ok") /\ ~FromList(c)
    /\ IF route = List
       THEN Drop(c) /\ UNCHANGED <<route, devices, device, loading, deleting>>
       ELSE MountList({c})
    /\ UNCHANGED <<stored, visited, dialog>>

StillDeleting(c) == deleting \* mutant
DeletingAfter(c) == deleting /\ ~calls[c].mounted

Refused(c) ==
    /\ Done(c, "poll", "refused") \/ Done(c, "delete", "refused")
    /\ deleting' = DeletingAfter(c)
    /\ Drop(c)
    /\ UNCHANGED <<stored, route, visited, devices, device, loading, dialog>>
-----------------------------------------------------------------------------
Init ==
    /\ stored = Device
    /\ route = List /\ visited = {} /\ devices = {} /\ device = None
    /\ loading = TRUE /\ deleting = FALSE /\ dialog = None
    /\ \E c \in Call : calls = [d \in Call |-> IF d = c THEN Request("list", None) ELSE Idle]

Next ==
    \/ Back \/ \E yes \in BOOLEAN : Close(yes)
    \/ \E d \in Device : OpenDevice(d) \/ \E c \in Call : Jump(c, d) \/ handleDelete(c, d) \/ handlePoll(c, d)
    \/ \E c \in Call :
          \/ onDelete(c) \/ AskDelete(c)
          \/ ReadDevices(c) \/ DeleteDevice(c) \/ Refuse(c)
          \/ ListAnswered(c) \/ DetailAnswered(c) \/ Reloads(c) \/ Deleted(c) \/ Refused(c)

Spec == Init /\ [][Next]_vars
-----------------------------------------------------------------------------
(* "Delete this device?" (DeviceDetail.tsx:36), "Delete this device and    *)
(* all associated data?" (legacy/pages/DeviceDetail.jsx:48): a deletion    *)
(* confirmed on a device page is of the device that page was showing.      *)
DeletesDeviceShown == \A c \in Call :
    calls[c] # Idle /\ calls[c].op = "delete" /\ calls[c].stage # "asked" /\ calls[c].saw # None
        => calls[c].of = calls[c].saw

(* The dialog belongs to the one handler that waits for it: an answer is   *)
(* never given to a handler that has ended, nor a handler left waiting.    *)
AskersWait == \A c \in Call : dialog = c <=> (calls[c] # Idle /\ calls[c].stage = "asked")

(* The legacy button says "Deleting..." exactly while a deletion confirmed *)
(* on this page runs.                                                      *)
DeletingTellsHandler ==
    deleting <=> \E c \in Call : /\ calls[c] # Idle /\ calls[c].op = "delete" /\ calls[c].mounted
                                 /\ calls[c].stage # "asked" /\ App = "legacy"
=============================================================================
