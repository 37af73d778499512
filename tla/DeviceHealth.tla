---------------------------- MODULE DeviceHealth ----------------------------
(***************************************************************************)
(* The health of polled devices and their DEVICE_DOWN incidents: the       *)
(* poller's workers (internal/poller/service.go), the poll processor       *)
(* (internal/alerts/processor.go), the alert and device statements of      *)
(* internal/store and the operators' requests that touch the same rows     *)
(* (internal/server/alerts_workflow.go), over one shared database.         *)
(*                                                                         *)
(* A worker's poll is split where another worker or a request can come in  *)
(* between: one step per statement or transaction.  ProcessPollResult is   *)
(* one step because its transaction locks the device_state row (FOR        *)
(* UPDATE) and commits or rolls back as a whole.                           *)
(***************************************************************************)
EXTENDS DeviceState

CONSTANTS Host,        \* hostnames of one tenant's devices
          YamlHost,    \* those listed in config.Switches (sw.DeviceID = 0)
          Addr,        \* management addresses
          Address,     \* [Host -> Addr]
          Silent,      \* addresses that may stop answering
          Worker,      \* poller goroutines
          Operator,    \* concurrent simulate requests
          AlertId,     \* ids of alerts: a bound
          Note,        \* annotations people put into alerts.details
          MaxRow,      \* largest id of a devices row: a bound
          CountCap,    \* where the two counters saturate: a bound
          Faults       \* may statements fail and workers be killed?

ASSUME HostAssumption   == YamlHost \subseteq Host /\ Address \in [Host -> Addr]
ASSUME BoundAssumption  == MaxRow \in Nat /\ CountCap \in Nat /\ CountCap >= FailThreshold
ASSUME SilentAssumption == Silent \subseteq Addr
ASSUME FaultsAssumption == Faults \in BOOLEAN

VARIABLES devices,       \* [Host -> the devices row with that hostname]
          lastId,        \* sequence behind devices.id
          device_state,  \* [row id -> its device_state row]
          alerts,        \* [AlertId -> DEVICE_DOWN alert]
          announced,     \* [AlertId -> how often alert.resolved was dispatched]
          worker,        \* [Worker -> the poll in progress]
          request,       \* [Operator -> the simulate request in progress]
          net            \* [address -> does the device answer?]

vars == <<devices, lastId, device_state, alerts, announced, worker, request, net>>
db   == <<devices, lastId, device_state, alerts, announced>>
-----------------------------------------------------------------------------
RowId == 1..MaxRow

(* A devices row; config says whether it has encrypted SNMP credentials,   *)
(* without which ListPollerDevices does not return it.                     *)
NoDevice == [id |-> 0, status |-> "none", config |-> FALSE]
DeviceRow == [id: RowId, status: {"pending", "active", "error"}, config: BOOLEAN]

NoState == [current_state |-> "NONE", failures |-> 0, successes |-> 0]
NewState == [current_state |-> "UNKNOWN", failures |-> 0, successes |-> 0]
StateRow == [current_state: States, failures: 0..CountCap, successes: 0..CountCap]

(* ALERT_TRIGGERED and ALERT_CLEARED, the audit events of an incident's    *)
(* two ends, are kept with the alert.                                      *)
Event == {"ALERT_TRIGGERED", "ALERT_CLEARED"}

NoAlert == [device |-> 0, category |-> "none", status |-> "none",
            resolved_at |-> FALSE, details |-> {}, timeline |-> {}]
Alert == [device: RowId, category: {"device_down", "device.down"},
          status: {"active", "resolved"}, resolved_at: BOOLEAN,
          details: SUBSET Note, timeline: SUBSET Event]

Exists(id) == id # 0 /\ \E h \in Host : devices[h].id = id

(* Rows at the address of h, under whatever hostname; the schema allows    *)
(* one row per address.                                                    *)
AtAddress(h) == {devices[g].id : g \in {g \in Host : /\ devices[g].id # 0
                                                     /\ Address[g] = Address[h]}}

(* Mutant of FkHolds: tables without foreign keys.                         *)
FkIgnored(id) == TRUE

(* The foreign key of device_state, alerts and interfaces on devices.      *)
FkHolds(id) == Exists(id)

Active(a)     == alerts[a].status = "active"
ActiveOf(id)  == {a \in AlertId : alerts[a].device = id /\ Active(a)}

NewAlert(id, category, timeline) ==
    [device |-> id, category |-> category, status |-> "active",
     resolved_at |-> FALSE, details |-> {}, timeline |-> timeline]
-----------------------------------------------------------------------------
(* A worker.  pc names the statement the poll is about to execute; sw is   *)
(* the DeviceID that came with the job, id the row the statements address, *)
(* ok the result that will be reported.                                    *)
Pc == {"upsert", "upsert_partial", "interfaces", "clear", "process",
       "failed", "status"}
IdleWorker == [pc |-> "idle", host |-> "none", sw |-> 0, id |-> 0, ok |-> FALSE]
BusyWorker == [pc: Pc, host: Host, sw: 0..MaxRow, id: 0..MaxRow, ok: BOOLEAN]

IdleRequest == [pc |-> "idle", id |-> 0]
RequestState == [pc: {"idle", "down", "recover"}, id: 0..MaxRow]

Goto(w, pc) == worker' = [worker EXCEPT ![w].pc = pc]
Finish(w)   == worker' = [worker EXCEPT ![w] = IdleWorker]

Init == /\ devices = [h \in Host |-> NoDevice]
        /\ lastId = 0
        /\ device_state = [i \in RowId |-> NoState]
        /\ alerts = [a \in AlertId |-> NoAlert]
        /\ announced = [a \in AlertId |-> 0]
        /\ worker = [w \in Worker |-> IdleWorker]
        /\ request = [o \in Operator |-> IdleRequest]
        /\ net = [i \in Addr |-> TRUE]
-----------------------------------------------------------------------------
(* Statements of internal/store.  Each either takes effect or, under       *)
(* Faults, fails without effect.                                           *)

(* INSERT ... ON CONFLICT (tenant_id, hostname) DO UPDATE ... RETURNING    *)
(* id; an insert fails when the address belongs to another row.            *)
CanInsert(h) == AtAddress(h) = {} /\ lastId < MaxRow

UpsertDevice(h, id) ==
    \/ /\ devices[h].id # 0
       /\ id = devices[h].id
       /\ devices' = [devices EXCEPT ![h].status = "active"]
       /\ UNCHANGED lastId
    \/ /\ devices[h].id = 0
       /\ CanInsert(h)
       /\ id = lastId + 1
       /\ lastId' = id
       /\ devices' = [devices EXCEPT ![h] =
                          [id |-> id, status |-> "active", config |-> FALSE]]

(* UPDATE devices SET status by id; no row matches a deleted device.       *)
UpdateDeviceStatus(id, status) ==
    devices' = [h \in Host |-> IF devices[h].id = id
                               THEN [devices[h] EXCEPT !.status = status]
                               ELSE devices[h]]

(* Mutant of Unresolved: the statement asks for the status instead.        *)
StillActive(id) == {a \in ActiveOf(id) : alerts[a].category = "device_down"}

(* UPDATE alerts SET resolved_at = now() ... RETURNING: the condition and  *)
(* the write are one statement, so of two racing callers one gets the row. *)
(* Simulated alerts have another category and are not matched.             *)
Unresolved(id) == {a \in AlertId : /\ alerts[a].device = id
                                   /\ alerts[a].category = "device_down"
                                   /\ ~alerts[a].resolved_at}
ResolveAlert(id) ==
    /\ alerts' = [a \in AlertId |-> IF a \in Unresolved(id)
                                    THEN [alerts[a] EXCEPT !.resolved_at = TRUE]
                                    ELSE alerts[a]]
    /\ announced' = [a \in AlertId |-> IF a \in Unresolved(id)
                                       THEN announced[a] + 1 ELSE announced[a]]

-----------------------------------------------------------------------------
(* pollDevice                                                              *)

(* Mutant of ProbeOutcomes: a failed interface walk is a failed poll.      *)
WalkDecides(i) == IF net[i] THEN {"upsert", "failed"} ELSE {"failed"}

(* No answer to the probe is an error; a failed interface walk after an    *)
(* answered probe is a partial success.                                    *)
ProbeOutcomes(i) == IF net[i] THEN {"upsert", "upsert_partial"} ELSE {"failed"}

(* ListPollerDevices returns the rows that have credentials; which of the  *)
(* three statuses they have makes no difference.                           *)
Listed(h) == devices[h].config

(* A worker takes a job and talks to the device.  A listed DB device's job *)
(* carries its row id, a YAML switch's carries 0.                          *)
JobIds(h) == (IF h \in YamlHost THEN {0} ELSE {})
             \cup (IF Listed(h) THEN {devices[h].id} ELSE {})

Poll(w, h) ==
    /\ worker[w] = IdleWorker
    /\ \E sw \in JobIds(h),
          pc \in ProbeOutcomes(Address[h]) :
         worker' = [worker EXCEPT ![w] =
                       [pc |-> pc, host |-> h, sw |-> sw, id |-> 0, ok |-> FALSE]]
    /\ UNCHANGED <<db, request, net>>

(* The row is written, or created if it is not there (any more); in the    *)
(* partial case a failure of this statement ends the poll as a success     *)
(* that records nothing.                                                   *)
PollUpsert(w) ==
    /\ worker[w].pc \in {"upsert", "upsert_partial"}
    /\ \/ \E id \in RowId :
            /\ UpsertDevice(worker[w].host, id)
            /\ worker' = [worker EXCEPT
                   ![w].id = id, ![w].ok = TRUE,
                   ![w].pc = IF worker[w].pc = "upsert" THEN "interfaces" ELSE "process"]
       \/ /\ \/ Faults
             \/ devices[worker[w].host].id = 0 /\ ~CanInsert(worker[w].host)
          /\ IF worker[w].pc = "upsert" THEN Goto(w, "failed") ELSE Finish(w)
          /\ UNCHANGED <<devices, lastId>>
    /\ UNCHANGED <<device_state, alerts, announced, request, net>>

(* UpsertInterfaces: a deleted device's rows violate the foreign key, and  *)
(* the poll fails after it had succeeded.  A device without interfaces     *)
(* inserts nothing and gets past.                                          *)
PollInterfaces(w) ==
    /\ worker[w].pc = "interfaces"
    /\ \/ Goto(w, "clear")
       \/ (Faults \/ ~FkHolds(worker[w].id)) /\ Goto(w, "failed")
    /\ UNCHANGED <<db, request, net>>

(* clearDeviceAlert: the alert is resolved and announced on the first      *)
(* success, before the result is processed.                                *)
PollClearAlert(w) ==
    /\ worker[w].pc = "clear"
    /\ \/ ResolveAlert(worker[w].id)
       \/ Faults /\ UNCHANGED <<alerts, announced>>
    /\ Goto(w, "process")
    /\ UNCHANGED <<devices, lastId, device_state, request, net>>

(* markDeviceFailure: a job without a row id looks one up by hostname,     *)
(* then by address.                                                        *)
LookupIds(h) == IF devices[h].id # 0 THEN {devices[h].id}
                ELSE IF AtAddress(h) # {} THEN AtAddress(h) ELSE {0}

PollFailed(w) ==
    /\ worker[w].pc = "failed"
    /\ \E id \in (IF worker[w].sw # 0 THEN {worker[w].sw}
                  ELSE LookupIds(worker[w].host) \cup (IF Faults THEN {0} ELSE {})) :
         worker' = [worker EXCEPT ![w].id = id, ![w].ok = FALSE,
                        ![w].pc = IF id # 0 THEN "process" ELSE "status"]
    /\ UNCHANGED <<db, request, net>>

(* The failure is also shown in devices.status, after and apart from the   *)
(* transaction, by id or else by hostname.                                 *)
PollMarkError(w) ==
    /\ worker[w].pc = "status"
    /\ LET id == IF worker[w].id # 0 THEN worker[w].id ELSE devices[worker[w].host].id
       IN  \/ UpdateDeviceStatus(id, "error") /\ id # 0
           \/ (Faults \/ id = 0) /\ UNCHANGED devices
    /\ Finish(w)
    /\ UNCHANGED <<lastId, device_state, alerts, announced, request, net>>

(* The process is killed or its context cancelled: what the poll has       *)
(* committed stays, the rest never happens.                                *)
Abort(w) ==
    /\ Faults
    /\ worker[w] # IdleWorker
    /\ Finish(w)
    /\ UNCHANGED <<db, request, net>>
-----------------------------------------------------------------------------
(* ProcessPollResult                                                       *)

Cap(n) == IF n > CountCap THEN CountCap ELSE n

(* Mutant of Stored: the row is not inserted before it is read.            *)
StoredAsIs(id) == device_state[id]

Stored(id) == IF device_state[id] = NoState THEN NewState ELSE device_state[id]

Transition(id, ok) ==
    ComputeTransition([CurrentState         |-> Stored(id).current_state,
                       ConsecutiveFailures  |-> Stored(id).failures,
                       ConsecutiveSuccesses |-> Stored(id).successes,
                       PollSuccess          |-> ok])

(* Mutants of RaiseIncident: no unique index; an index over all alerts of  *)
(* a device and not only the active ones; the last alert is taken again.   *)
RaiseAlways(id) ==
    \E a \in AlertId : /\ alerts[a] = NoAlert
                       /\ alerts' = [alerts EXCEPT ![a] =
                              NewAlert(id, "device_down", {"ALERT_TRIGGERED"})]

RaiseOnce(id) == IF \E a \in AlertId : alerts[a].device = id
                 THEN UNCHANGED alerts ELSE RaiseAlways(id)

RaiseAgain(id) ==
    IF \E a \in AlertId : alerts[a].device = id
    THEN \E a \in AlertId :
            /\ alerts[a].device = id
            /\ alerts' = [alerts EXCEPT ![a].status = "active", ![a].resolved_at = FALSE]
    ELSE RaiseAlways(id)

(* INSERT ... ON CONFLICT DO NOTHING against the unique index on active    *)
(* DEVICE_DOWN alerts; the event goes to whichever alert is active then.   *)
RaiseIncident(id) ==
    IF ActiveOf(id) # {}
    THEN alerts' = [a \in AlertId |-> IF a \in ActiveOf(id)
                        THEN [alerts[a] EXCEPT !.timeline = @ \cup {"ALERT_TRIGGERED"}]
                        ELSE alerts[a]]
    ELSE \E a \in AlertId :
            /\ alerts[a] = NoAlert
            /\ alerts' = [alerts EXCEPT ![a] =
                              NewAlert(id, "device_down", {"ALERT_TRIGGERED"})]

(* The same where simulate requests run.  Only they leave an active alert  *)
(* on a device that is not DOWN, and their alerts do not wait for the      *)
(* transaction's lock.  Such an alert, b, may be resolved between the      *)
(* three statements.  The insert found it and the lookup after it does     *)
(* not: the outage has no alert.  Or it was read before the insert: the    *)
(* event goes to it, and an alert inserted after it has none.              *)
RaiseUntold(id) ==
    /\ Operator # {}
    /\ \E b \in AlertId :
          /\ alerts[b].device = id
          /\ alerts[b].status = "resolved" /\ "ALERT_CLEARED" \notin alerts[b].timeline
          /\ LET told == [alerts EXCEPT ![b].timeline = @ \cup {"ALERT_TRIGGERED"}] IN
             \/ UNCHANGED alerts
             \/ ActiveOf(id) # {} /\ alerts' = told
             \/ /\ ActiveOf(id) = {}
                /\ \E a \in AlertId :
                      /\ alerts[a] = NoAlert
                      /\ alerts' = [told EXCEPT ![a] = NewAlert(id, "device_down", {})]

(* Mutants of CloseIncident: WHERE resolved_at IS NULL; no resolution      *)
(* time; the details written anew.                                         *)
CloseUnresolved(id) ==
    alerts' = [a \in AlertId |-> IF a \in ActiveOf(id)
                  THEN [alerts[a] EXCEPT
                           !.status = IF alerts[a].resolved_at THEN "active" ELSE "resolved",
                           !.resolved_at = TRUE,
                           !.timeline = @ \cup {"ALERT_CLEARED"}]
                  ELSE alerts[a]]

CloseUntimed(id) ==
    alerts' = [a \in AlertId |-> IF a \in ActiveOf(id)
                  THEN [alerts[a] EXCEPT !.status = "resolved"] ELSE alerts[a]]

CloseAndRewrite(id) ==
    alerts' = [a \in AlertId |-> IF a \in ActiveOf(id)
                  THEN [alerts[a] EXCEPT !.status = "resolved", !.resolved_at = TRUE,
                                         !.details = {}]
                  ELSE alerts[a]]

CloseIncident(id) ==
    alerts' = [a \in AlertId |-> IF a \in ActiveOf(id)
                  THEN [alerts[a] EXCEPT !.status = "resolved", !.resolved_at = TRUE,
                                         !.timeline = @ \cup {"ALERT_CLEARED"}]
                  ELSE alerts[a]]

(* Another failure of a DOWN device rewrites the details as a whole.       *)
RefreshIncident(id) ==
    alerts' = [a \in AlertId |-> IF a \in ActiveOf(id)
                  THEN [alerts[a] EXCEPT !.details = {}] ELSE alerts[a]]

(* The committed transaction.                                              *)
Commit(id, ok) ==
    LET tr == Transition(id, ok) IN
    /\ FkHolds(id)
    /\ device_state' = [device_state EXCEPT ![id] =
                            [current_state |-> tr.NextState,
                             failures      |-> Cap(tr.ConsecutiveFailures),
                             successes     |-> Cap(tr.ConsecutiveSuccesses)]]
    /\ CASE tr.Transition = "down" -> RaiseIncident(id) \/ RaiseUntold(id)
         [] tr.Transition = "up"   -> CloseIncident(id)
         [] tr.Transition = "none" /\ tr.NextState = "DOWN" /\ ~ok -> RefreshIncident(id)
         [] OTHER -> UNCHANGED alerts

(* The transaction is rolled back: a statement failed, the row's device is *)
(* gone (foreign key), or no alert id is left (the bound).                 *)
Rollback(id, ok) ==
    /\ \/ Faults
       \/ ~FkHolds(id)
       \/ /\ Transition(id, ok).Transition = "down"
          /\ \A a \in AlertId : alerts[a] # NoAlert
    /\ UNCHANGED <<device_state, alerts>>

(* Either way the caller ignores the outcome and goes on.                  *)
ProcessPollResult(w) ==
    /\ worker[w].pc = "process"
    /\ \/ Commit(worker[w].id, worker[w].ok)
       \/ Rollback(worker[w].id, worker[w].ok)
    /\ IF worker[w].ok THEN Finish(w) ELSE Goto(w, "status")
    /\ UNCHANGED <<devices, lastId, announced, request, net>>
-----------------------------------------------------------------------------
(* Requests of the API                                                     *)

(* CreateDevice: hostname and address must be free in the tenant.          *)
RegisterDevice(h) ==
    /\ devices[h].id = 0
    /\ CanInsert(h)
    /\ lastId' = lastId + 1
    /\ devices' = [devices EXCEPT ![h] =
                      [id |-> lastId + 1, status |-> "pending", config |-> TRUE]]
    /\ UNCHANGED <<device_state, alerts, announced, worker, request, net>>

(* DeleteDevice: ON DELETE CASCADE takes the state row and the alerts.     *)
DeleteDevice(h) ==
    LET id == devices[h].id
        gone == {a \in AlertId : alerts[a].device = id} IN
    /\ id # 0
    /\ devices' = [devices EXCEPT ![h] = NoDevice]
    /\ device_state' = [device_state EXCEPT ![id] = NoState]
    /\ alerts' = [a \in AlertId |-> IF a \in gone THEN NoAlert ELSE alerts[a]]
    /\ announced' = [a \in AlertId |-> IF a \in gone THEN 0 ELSE announced[a]]
    /\ UNCHANGED <<lastId, worker, request, net>>

(* Acknowledge, mute, assign and comment each put a key into details,      *)
(* whatever the status of the alert.                                       *)
Annotate(a, n) ==
    /\ alerts[a] # NoAlert
    /\ alerts' = [alerts EXCEPT ![a].details = @ \cup {n}]
    /\ UNCHANGED <<devices, lastId, device_state, announced, worker, request, net>>

ResolveAlertByID(a) ==
    /\ alerts[a] # NoAlert
    /\ alerts' = [alerts EXCEPT ![a].status = "resolved", ![a].resolved_at = TRUE]
    /\ UNCHANGED <<devices, lastId, device_state, announced, worker, request, net>>

(* Mutants: the success counter survives; no WHERE NOT EXISTS.             *)
DownKeepingSuccesses(id) ==
    [Stored(id) EXCEPT !.current_state = "DOWN", !.failures = FailThreshold]
InsertAnyway(id) == TRUE

SimulatedDown(id) ==
    [current_state |-> "DOWN", successes |-> 0,
     failures |-> IF Stored(id).failures > FailThreshold
                  THEN Stored(id).failures ELSE FailThreshold]

NoneExisting(id) == ActiveOf(id) = {}

(* SimulateDeviceDownAlert: two statements and no transaction.             *)
SimulateDownState(o, id) ==
    /\ request[o] = IdleRequest
    /\ FkHolds(id)
    /\ device_state' = [device_state EXCEPT ![id] = SimulatedDown(id)]
    /\ request' = [request EXCEPT ![o] = [pc |-> "down", id |-> id]]
    /\ UNCHANGED <<devices, lastId, alerts, announced, worker, net>>

(* An existing active alert is kept, else one is inserted; the insert has  *)
(* no ON CONFLICT and may lose a race, or find the device gone.            *)
SimulateDownAlert(o) ==
    LET id == request[o].id IN
    /\ request[o].pc = "down"
    /\ \/ /\ FkHolds(id) /\ NoneExisting(id)
          /\ \E a \in AlertId :
                /\ alerts[a] = NoAlert
                /\ alerts' = [alerts EXCEPT ![a] = NewAlert(id, "device.down", {})]
       \/ UNCHANGED alerts
    /\ request' = [request EXCEPT ![o] = IdleRequest]
    /\ UNCHANGED <<devices, lastId, device_state, announced, worker, net>>

(* SimulateDeviceRecover: again two statements; a device that was never    *)
(* polled has no row to update.                                            *)
SimulateRecoverState(o, id) ==
    /\ request[o] = IdleRequest
    /\ device_state' = [device_state EXCEPT ![id] =
           IF @ = NoState THEN NoState
           ELSE [current_state |-> "UP", failures |-> 0, successes |-> 1]]
    /\ request' = [request EXCEPT ![o] = [pc |-> "recover", id |-> id]]
    /\ UNCHANGED <<devices, lastId, alerts, announced, worker, net>>

SimulateRecoverAlert(o) ==
    LET id == request[o].id IN
    /\ request[o].pc = "recover"
    /\ \/ alerts' = [a \in AlertId |-> IF a \in ActiveOf(id)
                        THEN [alerts[a] EXCEPT !.status = "resolved",
                                               !.resolved_at = TRUE]
                        ELSE alerts[a]]
       \/ Faults /\ UNCHANGED alerts
    /\ request' = [request EXCEPT ![o] = IdleRequest]
    /\ UNCHANGED <<devices, lastId, device_state, announced, worker, net>>

(* The environment: a device stops answering, or answers again.            *)
Network(i) ==
    /\ net' = [net EXCEPT ![i] = ~@]
    /\ UNCHANGED <<db, worker, request>>
-----------------------------------------------------------------------------
WorkerStep(w) == \/ PollUpsert(w) \/ PollInterfaces(w) \/ PollClearAlert(w)
                 \/ PollFailed(w) \/ ProcessPollResult(w) \/ PollMarkError(w)

ApiStep ==
    \/ \E h \in Host : RegisterDevice(h) \/ DeleteDevice(h)
    \/ \E a \in AlertId : ResolveAlertByID(a) \/ \E n \in Note : Annotate(a, n)

SimulateStep(o) ==
    \/ \E id \in RowId : SimulateDownState(o, id) \/ SimulateRecoverState(o, id)
    \/ SimulateDownAlert(o) \/ SimulateRecoverAlert(o)

Next ==
    \/ \E w \in Worker : \/ WorkerStep(w) \/ Abort(w)
                         \/ \E h \in Host : Poll(w, h)
    \/ ApiStep
    \/ \E o \in Operator : SimulateStep(o)
    \/ \E i \in Silent : Network(i)

Spec == Init /\ [][Next]_vars

(* The workers keep running and finish what they start.  A device that     *)
(* stays due is polled again and again however busy the workers are,       *)
(* because each tick puts every due device on a first-in-first-out channel *)
(* (service.go:106); this supposes that PollerDeviceLimit is not smaller   *)
(* than the number of due devices and, for a YAML switch, that some tick   *)
(* finds no registered device due.                                         *)
Fairness == /\ \A w \in Worker : WF_vars(WorkerStep(w))
            /\ \A h \in Host : SF_vars(\E w \in Worker : Poll(w, h))

FairSpec == Spec /\ Fairness
-----------------------------------------------------------------------------
(* Types, and the bounds every step respects.                              *)
TypeOK ==
    /\ devices \in [Host -> {NoDevice} \cup DeviceRow]
    /\ lastId \in 0..MaxRow
    /\ device_state \in [RowId -> {NoState} \cup StateRow]
    /\ alerts \in [AlertId -> {NoAlert} \cup Alert]
    /\ announced \in [AlertId -> Nat]
    /\ worker \in [Worker -> {IdleWorker} \cup BusyWorker]
    /\ request \in [Operator -> RequestState]
    /\ net \in [Addr -> BOOLEAN]

(* However many workers and requests race, a device never has two active   *)
(* incidents (processor.go:155, alerts_workflow.go:168, migration 012:53). *)
OneActiveIncident ==
    \A a, b \in AlertId :
        Active(a) /\ Active(b) /\ alerts[a].device = alerts[b].device => a = b

(* As long as nobody simulates, an active incident means the device is     *)
(* DOWN: the two tables are written together, in every order of results,   *)
(* deletions and manual resolutions (processor.go:28).                     *)
IncidentMeansDown ==
    \A a \in AlertId :
        Active(a) => device_state[alerts[a].device].current_state = "DOWN"

(* No outage is silent: unless a simulate request is in between its two    *)
(* statements, a DOWN device has an active incident or one that a person   *)
(* resolved by hand.  A DOWN device raises no further alert, so an         *)
(* incident missing here would stay missing (processor.go:155).            *)
OutageHasIncident ==
    \A id \in RowId :
        device_state[id].current_state = "DOWN" =>
            \/ \E o \in Operator : request[o].pc # "idle" /\ request[o].id = id
            \/ \E a \in AlertId : /\ alerts[a].device = id
                                  /\ "ALERT_CLEARED" \notin alerts[a].timeline

(* Half of what migration 012:29 set up: an alert without a resolution     *)
(* time is active.  The other half does not hold, see EndedAtOnce.         *)
UnresolvedIsActive ==
    \A a \in AlertId :
        alerts[a] # NoAlert /\ ~alerts[a].resolved_at => Active(a)

(* No stored row is past a threshold it has not acted on: three failures   *)
(* are never pending on a device that is not DOWN, nor two successes on    *)
(* one that is, and never both runs at once (logic.go:28).                 *)
ThresholdsKept ==
    \A id \in RowId : LET s == device_state[id] IN
        /\ s.current_state # "DOWN" => s.failures < FailThreshold
        /\ s.current_state = "DOWN" => s.successes < ClearThreshold
        /\ s.failures = 0 \/ s.successes = 0

(* As long as nobody simulates, the timeline tells the story of the        *)
(* incident: an alert the poller raised says so, one that says it was      *)
(* cleared is resolved (processor.go:180, processor.go:221).  Next to      *)
(* simulate requests it may not, see RaiseUntold.                          *)
TimelineTruthful ==
    \A a \in AlertId :
        /\ alerts[a].category = "device_down" => "ALERT_TRIGGERED" \in alerts[a].timeline
        /\ "ALERT_CLEARED" \in alerts[a].timeline =>
               alerts[a].status = "resolved" /\ alerts[a].resolved_at

(* Two workers on one device, or a poll repeated after a failure, announce *)
(* the end of an incident at most once, and only of one that has an end    *)
(* (store/alerts.go:53, poller/alerts.go:119).                             *)
AnnouncedOnce ==
    \A a \in AlertId : /\ announced[a] <= 1
                       /\ announced[a] > 0 => alerts[a].resolved_at

(* A poll in flight when its device is deleted leaves neither state nor    *)
(* incident behind for the deleted row (processor.go:55, devices.go:232).  *)
NoOrphans ==
    /\ \A a \in AlertId : alerts[a] # NoAlert => Exists(alerts[a].device)
    /\ \A id \in RowId : device_state[id] # NoState => Exists(id)

(* "Reachability probe decides up/down availability" (service.go:234): a   *)
(* device that always answers is never DOWN.  The code keeps this where    *)
(* addresses differ and workers are fewer than the threshold, see          *)
(* AnsweringStaysUp of MCSimulate; otherwise it does not.                  *)
AnsweringIsNotDown ==
    \A h \in Host : devices[h].id # 0 /\ Address[h] \notin Silent =>
        device_state[devices[h].id].current_state # "DOWN"
-----------------------------------------------------------------------------
(* A resolved alert is never reopened, nor loses its resolution time, as   *)
(* long as it exists: a new outage is a new alert (processor.go:158).      *)
ResolvedForGood ==
    [][\A a \in AlertId : alerts'[a] # NoAlert =>
          /\ alerts[a].status = "resolved" => alerts'[a].status = "resolved"
          /\ alerts[a].resolved_at => alerts'[a].resolved_at]_vars

(* The poller ends an outage, and closes its incident, only with a success *)
(* that follows a stored success (processor.go:177).                       *)
OutageEndsBySuccesses ==
    [][\A id \in RowId :
          device_state[id].current_state = "DOWN" /\ device_state'[id] # NoState
          /\ device_state'[id].current_state # "DOWN" =>
              device_state[id].successes = ClearThreshold - 1
              /\ \E w \in Worker : worker[w].id = id /\ worker[w].ok]_vars

(* What people wrote on an alert is lost only with the alert's device or   *)
(* to another failure while the incident is active (processor.go:196); the *)
(* transitions and the resolutions keep it.                                *)
AnnotationsKept ==
    [][\A a \in AlertId :
          \/ alerts'[a] = NoAlert
          \/ alerts[a].details \subseteq alerts'[a].details
          \/ /\ Active(a) /\ alerts'[a].status = "active"
             /\ device_state[alerts[a].device].current_state = "DOWN"
             /\ device_state'[alerts[a].device].failures > 0]_vars

(* ops/v1-launch-checklist.md:43, "3 fails => DEVICE_DOWN active": with six *)
(* failures counted, three of which a simulation may have put there, the   *)
(* incident is active or was dismissed by a person.                        *)
ThreeFailsMeanIncident ==
    \A id \in RowId :
        device_state[id].failures >= 2 * FailThreshold =>
            \E a \in AlertId : /\ alerts[a].device = id
                              /\ "ALERT_CLEARED" \notin alerts[a].timeline

(* A device row appears only by registration or from the YAML list.        *)
DeletedStaysDeleted ==
    [][\A h \in Host \ YamlHost :
          devices[h].id = 0 /\ devices'[h].id # 0 => devices'[h].config]_vars

(* The end of an outage is one event ("2 successes => UP",                 *)
(* service.go:427; migration 012:29 makes status and resolved_at one fact, *)
(* as does the notification alert.resolved): an alert is resolved, has a   *)
(* resolution time and is announced as over together.                      *)
EndedAtOnce ==
    \A a \in AlertId : alerts[a] # NoAlert =>
        /\ alerts[a].status = "resolved" <=> alerts[a].resolved_at
        /\ announced[a] > 0 => alerts[a].status = "resolved"

(* Once a device answers for good, its outage ends for good: the state     *)
(* leaves DOWN, the incident closes and the row stops showing an error,    *)
(* although results of older polls may still arrive (service.go:225).      *)
Healthy(h) == \/ devices[h].id = 0
              \/ /\ devices[h].status = "active"
                 /\ device_state[devices[h].id].current_state # "DOWN"
                 /\ ActiveOf(devices[h].id) = {}

Recovery == \A h \in Host :
    <>[](net[Address[h]] /\ JobIds(h) # {}) => <>[]Healthy(h)
-----------------------------------------------------------------------------
(* The abstract view: availability is the stored state, an incident is     *)
(* open while the device has an active alert.                              *)
Abstract == INSTANCE Incident WITH
    Device <- RowId,
    avail  <- [id \in RowId |-> device_state[id].current_state],
    open   <- [id \in RowId |-> ActiveOf(id) # {}]

(* Without simulate requests the implementation refines Incident.          *)
ImplementsIncident == Abstract!Spec
=============================================================================
