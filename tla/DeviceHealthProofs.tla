------------------------- MODULE DeviceHealthProofs -------------------------
(***************************************************************************)
(* Proofs about DeviceHealth, for every set of hosts, workers, operators   *)
(* and alerts, with or without faults.                                     *)
(***************************************************************************)
EXTENDS MCSimulate, FiniteSetTheorems, TLAPS

USE HostAssumption, BoundAssumption, SilentAssumption, FaultsAssumption

(* What one poll result makes of a stored row is again a row.              *)
LEMMA CommitType ==
    ASSUME TypeOK, NEW id \in RowId, NEW ok \in BOOLEAN
    PROVE  LET tr == Transition(id, ok) IN
           [current_state |-> tr.NextState,
            failures      |-> Cap(tr.ConsecutiveFailures),
            successes     |-> Cap(tr.ConsecutiveSuccesses)] \in StateRow
<1>1. Stored(id) \in StateRow
  BY DEF TypeOK, Stored, StateRow, NewState, NoState, States, RowId
<1>2. QED
  BY <1>1 DEF Transition, Cap, StateRow, States, ComputeTransition, Falls, Rises,
              Failures, Successes, FailThreshold, ClearThreshold

(* A worker with something to do has a host and a result.                  *)
LEMMA Busy ==
    ASSUME TypeOK, NEW w \in Worker, worker[w].pc # "idle"
    PROVE  worker[w] \in BusyWorker /\ worker[w].host \in Host /\ worker[w].ok \in BOOLEAN
<1>1. worker[w] \in BusyWorker
  BY DEF TypeOK, IdleWorker
<1>2. QED
  BY <1>1 DEF BusyWorker

(* The foreign key guarantees more than that the row is there.             *)
LEMMA FkHoldsRow == ASSUME TypeOK, NEW id, FkHolds(id) PROVE id \in RowId
BY DEF FkHolds, Exists, TypeOK, NoDevice, DeviceRow, RowId

(* Each way a statement rewrites one alert keeps it an alert.              *)
LEMMA AlertUpdates ==
    ASSUME NEW r \in Alert
    PROVE  /\ [r EXCEPT !.timeline = @ \cup {"ALERT_TRIGGERED"}] \in Alert
           /\ [r EXCEPT !.status = "resolved", !.resolved_at = TRUE,
                        !.timeline = @ \cup {"ALERT_CLEARED"}] \in Alert
           /\ [r EXCEPT !.details = {}] \in Alert
           /\ [r EXCEPT !.resolved_at = TRUE] \in Alert
           /\ [r EXCEPT !.status = "resolved", !.resolved_at = TRUE] \in Alert
           /\ \A n \in Note : [r EXCEPT !.details = @ \cup {n}] \in Alert
BY DEF Alert, Event

(* A fresh alert is an alert, and the absence of one is none.              *)
LEMMA NewAlertType ==
    /\ \A id \in RowId : /\ NewAlert(id, "device_down", {"ALERT_TRIGGERED"}) \in Alert
                         /\ NewAlert(id, "device_down", {}) \in Alert
                         /\ NewAlert(id, "device.down", {}) \in Alert
    /\ NoAlert \notin Alert
BY DEF NewAlert, Alert, Event, NoAlert

(* An outage whose alert is not told: nothing is inserted, or an alert of   *)
(* the device; of the others one resolved alert gets an event.             *)
LEMMA UntoldCases ==
    ASSUME TypeOK, NEW id \in RowId, RaiseUntold(id)
    PROVE  /\ Operator # {}
           /\ \E b \in AlertId :
                 LET told == [alerts[b] EXCEPT !.timeline = @ \cup {"ALERT_TRIGGERED"}] IN
                 /\ alerts[b] \in Alert /\ alerts[b].status = "resolved"
                 /\ alerts[b].device = id
                 /\ \/ UNCHANGED alerts
                    \/ alerts' = [alerts EXCEPT ![b] = told]
                    \/ /\ ActiveOf(id) = {}
                       /\ \E a \in AlertId \ {b} :
                             /\ alerts[a] = NoAlert
                             /\ alerts' = [c \in AlertId |->
                                    IF c = a THEN NewAlert(id, "device_down", {})
                                    ELSE IF c = b THEN told ELSE alerts[c]]
<1>1. PICK b \in AlertId :
          /\ alerts[b].device = id /\ alerts[b].status = "resolved"
          /\ LET told == [alerts EXCEPT ![b].timeline = @ \cup {"ALERT_TRIGGERED"}] IN
             \/ UNCHANGED alerts
             \/ ActiveOf(id) # {} /\ alerts' = told
             \/ /\ ActiveOf(id) = {}
                /\ \E a \in AlertId :
                      /\ alerts[a] = NoAlert
                      /\ alerts' = [told EXCEPT ![a] = NewAlert(id, "device_down", {})]
  BY DEF RaiseUntold
<1>2. alerts[b] \in Alert /\ alerts[b] # NoAlert
  BY <1>1 DEF TypeOK, NoAlert
<1> DEFINE r == [alerts[b] EXCEPT !.timeline = @ \cup {"ALERT_TRIGGERED"}]
<1>3. [alerts EXCEPT ![b].timeline = @ \cup {"ALERT_TRIGGERED"}] = [alerts EXCEPT ![b] = r]
  OBVIOUS
<1> HIDE DEF r
<1>4. ASSUME NEW a \in AlertId, alerts[a] = NoAlert,
             alerts' = [[alerts EXCEPT ![b] = r] EXCEPT ![a] = NewAlert(id, "device_down", {})]
      PROVE  /\ a # b
             /\ alerts' = [c \in AlertId |-> IF c = a THEN NewAlert(id, "device_down", {})
                                             ELSE IF c = b THEN r ELSE alerts[c]]
  BY <1>2, <1>4 DEF TypeOK
<1>5. QED
  BY <1>1, <1>2, <1>3, <1>4 DEF RaiseUntold, r

(* The same seen from one alert.                                           *)
LEMMA UntoldAlert ==
    ASSUME TypeOK, NEW id \in RowId, RaiseUntold(id), NEW a \in AlertId
    PROVE  /\ Operator # {}
           /\ \/ alerts'[a] = alerts[a]
              \/ /\ alerts[a] \in Alert /\ alerts[a] # NoAlert
                 /\ alerts'[a] = [alerts[a] EXCEPT !.timeline = @ \cup {"ALERT_TRIGGERED"}]
              \/ /\ alerts[a] = NoAlert
                 /\ alerts'[a] = NewAlert(id, "device_down", {})
<1>1. PICK b \in AlertId :
          LET told == [alerts[b] EXCEPT !.timeline = @ \cup {"ALERT_TRIGGERED"}] IN
          /\ alerts[b] \in Alert
          /\ \/ UNCHANGED alerts
             \/ alerts' = [alerts EXCEPT ![b] = told]
             \/ \E c \in AlertId \ {b} :
                    /\ alerts[c] = NoAlert
                    /\ alerts' = [d \in AlertId |->
                           IF d = c THEN NewAlert(id, "device_down", {})
                           ELSE IF d = b THEN told ELSE alerts[d]]
  BY UntoldCases
<1> DEFINE told == [alerts[b] EXCEPT !.timeline = @ \cup {"ALERT_TRIGGERED"}]
<1>2. alerts'[a] = alerts[a]
      \/ (a = b /\ alerts'[a] = told)
      \/ (alerts[a] = NoAlert /\ alerts'[a] = NewAlert(id, "device_down", {}))
  <2>1. alerts' = [alerts EXCEPT ![b] = told] => alerts'[a] = IF a = b THEN told ELSE alerts[a]
    BY DEF TypeOK
  <2> HIDE DEF told
  <2>2. CASE UNCHANGED alerts \/ alerts' = [alerts EXCEPT ![b] = told]
    BY <2>1, <2>2
  <2>3. ASSUME NEW c \in AlertId, alerts[c] = NoAlert,
               alerts' = [d \in AlertId |-> IF d = c THEN NewAlert(id, "device_down", {})
                                           ELSE IF d = b THEN told ELSE alerts[d]]
        PROVE  \/ alerts'[a] = alerts[a] \/ (a = b /\ alerts'[a] = told)
               \/ (alerts[a] = NoAlert /\ alerts'[a] = NewAlert(id, "device_down", {}))
    BY <2>3
  <2>4. QED
    BY <1>1, <2>2, <2>3 DEF told
<1>3. QED
  BY <1>1, <1>2, NewAlertType, UntoldCases

(* What the poll processor does to the alerts of a device keeps them       *)
(* alerts.                                                                 *)
LEMMA AlertsType ==
    ASSUME TypeOK, NEW id \in RowId
    PROVE  /\ RaiseIncident(id)   => alerts' \in [AlertId -> {NoAlert} \cup Alert]
           /\ RaiseUntold(id)     => alerts' \in [AlertId -> {NoAlert} \cup Alert]
           /\ CloseIncident(id)   => alerts' \in [AlertId -> {NoAlert} \cup Alert]
           /\ RefreshIncident(id) => alerts' \in [AlertId -> {NoAlert} \cup Alert]
<1> DEFINE S == {NoAlert} \cup Alert
<1>1. /\ alerts \in [AlertId -> S]
      /\ \A a \in ActiveOf(id) : a \in AlertId /\ alerts[a] \in Alert
  BY DEF TypeOK, ActiveOf, Active, NoAlert
<1>2. ASSUME RaiseIncident(id)
      PROVE  alerts' \in [AlertId -> S]
  <2>1. CASE ActiveOf(id) # {}
    <3> DEFINE f == [a \in AlertId |-> IF a \in ActiveOf(id)
                        THEN [alerts[a] EXCEPT !.timeline = @ \cup {"ALERT_TRIGGERED"}]
                        ELSE alerts[a]]
    <3>1. ASSUME NEW a \in AlertId PROVE f[a] \in S
      BY <1>1, AlertUpdates
    <3>2. alerts' = f
      BY <1>2, <2>1 DEF RaiseIncident
    <3>3. QED
      BY <3>1, <3>2
  <2>2. CASE ActiveOf(id) = {}
    <3>1. PICK a \in AlertId :
              alerts' = [alerts EXCEPT ![a] =
                            NewAlert(id, "device_down", {"ALERT_TRIGGERED"})]
      BY <1>2, <2>2 DEF RaiseIncident
    <3>2. QED
      BY <1>1, <3>1, NewAlertType
  <2>3. QED
    BY <2>1, <2>2
<1>3. ASSUME CloseIncident(id)
      PROVE  alerts' \in [AlertId -> S]
  <2> DEFINE f == [a \in AlertId |-> IF a \in ActiveOf(id)
                      THEN [alerts[a] EXCEPT !.status = "resolved", !.resolved_at = TRUE,
                                             !.timeline = @ \cup {"ALERT_CLEARED"}]
                      ELSE alerts[a]]
  <2>1. ASSUME NEW a \in AlertId PROVE f[a] \in S
    BY <1>1, AlertUpdates
  <2>2. alerts' = f
    BY <1>3 DEF CloseIncident
  <2>3. QED
    BY <2>1, <2>2
<1>4. ASSUME RefreshIncident(id)
      PROVE  alerts' \in [AlertId -> S]
  <2> DEFINE f == [a \in AlertId |-> IF a \in ActiveOf(id)
                      THEN [alerts[a] EXCEPT !.details = {}] ELSE alerts[a]]
  <2>1. ASSUME NEW a \in AlertId PROVE f[a] \in S
    BY <1>1, AlertUpdates
  <2>2. alerts' = f
    BY <1>4 DEF RefreshIncident
  <2>3. QED
    BY <2>1, <2>2
<1>5. ASSUME RaiseUntold(id)
      PROVE  alerts' \in [AlertId -> S]
  <2>1. \A a \in AlertId : alerts'[a] \in S
    BY <1>1, <1>5, UntoldAlert, NewAlertType, AlertUpdates
  <2>2. alerts' = [a \in AlertId |-> alerts'[a]]
    BY <1>5 DEF RaiseUntold, TypeOK
  <2>3. QED
    BY <2>1, <2>2
<1>6. QED
  BY <1>2, <1>3, <1>4, <1>5
-----------------------------------------------------------------------------
(* The empty database with idle workers has the types.                     *)
LEMMA InitType == Init => TypeOK
BY DEF Init, TypeOK, NoState, IdleRequest, RequestState, RowId

(* The steps of a worker keep the types.                                   *)
LEMMA WorkerType ==
    ASSUME TypeOK, NEW w \in Worker, WorkerStep(w) \/ Abort(w) \/ \E h \in Host : Poll(w, h)
    PROVE  TypeOK'
<1> USE DEF TypeOK, db, Goto, Finish
<1>1. worker[w].pc # "idle" => worker[w] \in BusyWorker
  BY DEF IdleWorker
<1>2. ASSUME NEW h \in Host, Poll(w, h) PROVE TypeOK'
  <2>1. \A sw \in JobIds(h) : sw \in 0..MaxRow
    BY DEF JobIds, Listed, NoDevice, DeviceRow, RowId
  <2>2. worker' \in [Worker -> {IdleWorker} \cup BusyWorker]
    BY <1>2, <2>1 DEF Poll, ProbeOutcomes, BusyWorker, Pc
  <2>3. QED
    BY <1>2, <2>2 DEF Poll
<1>3. CASE PollUpsert(w)
  <2>1. worker' \in [Worker -> {IdleWorker} \cup BusyWorker]
    <3>1. worker[w] \in BusyWorker
      BY <1>1, <1>3 DEF PollUpsert
    <3>2. ASSUME NEW id \in RowId, NEW pc \in Pc
          PROVE  [worker[w] EXCEPT !.id = id, !.ok = TRUE, !.pc = pc] \in BusyWorker
      <4>1. id \in 0..MaxRow
        BY DEF RowId
      <4>2. QED
        BY <3>1, <4>1 DEF BusyWorker
    <3>3. \A pc \in Pc : [worker[w] EXCEPT !.pc = pc] \in BusyWorker
      BY <3>1 DEF BusyWorker
    <3>4. ASSUME NEW id \in RowId, NEW pc \in Pc,
                 worker' = [worker EXCEPT ![w].id = id, ![w].ok = TRUE, ![w].pc = pc]
          PROVE  worker' \in [Worker -> {IdleWorker} \cup BusyWorker]
      <4>1. worker' = [worker EXCEPT ![w] =
                          [worker[w] EXCEPT !.id = id, !.ok = TRUE, !.pc = pc]]
        BY <3>4
      <4>2. QED
        BY <3>2, <4>1
    <3>5. "interfaces" \in Pc /\ "process" \in Pc /\ "failed" \in Pc
      BY DEF Pc
    <3>6. ASSUME NEW id \in RowId,
                 worker' = [worker EXCEPT
                     ![w].id = id, ![w].ok = TRUE,
                     ![w].pc = IF worker[w].pc = "upsert" THEN "interfaces" ELSE "process"]
          PROVE  worker' \in [Worker -> {IdleWorker} \cup BusyWorker]
      BY <3>4, <3>5, <3>6
    <3>7. Goto(w, "failed") => worker' \in [Worker -> {IdleWorker} \cup BusyWorker]
      BY <3>3, <3>5
    <3>8. Finish(w) => worker' \in [Worker -> {IdleWorker} \cup BusyWorker]
      OBVIOUS
    <3> HIDE DEF TypeOK, Goto, Finish
    <3>9. QED
      BY <1>3, <3>6, <3>7, <3>8 DEF PollUpsert
  <2>2. /\ devices' \in [Host -> {NoDevice} \cup DeviceRow]
        /\ lastId' \in 0..MaxRow
    <3>1. worker[w] \in BusyWorker /\ worker[w].host \in Host
      BY <1>1, <1>3 DEF PollUpsert, BusyWorker
    <3>2. ASSUME NEW h \in Host, NEW id \in RowId, UpsertDevice(h, id)
          PROVE  /\ devices' \in [Host -> {NoDevice} \cup DeviceRow]
                 /\ lastId' \in 0..MaxRow
      <4>1. \A r \in DeviceRow : [r EXCEPT !.status = "active"] \in DeviceRow
        BY DEF DeviceRow
      <4>2. [id |-> id, status |-> "active", config |-> FALSE] \in DeviceRow
        BY DEF DeviceRow
      <4>3. CASE devices[h].id # 0
        BY <3>2, <4>1, <4>3 DEF UpsertDevice, NoDevice
      <4>4. CASE devices[h].id = 0
        <5>1. lastId' = id /\ devices' = [devices EXCEPT ![h] =
                  [id |-> id, status |-> "active", config |-> FALSE]]
          BY <3>2, <4>4 DEF UpsertDevice
        <5>2. id \in 0..MaxRow
          BY DEF RowId
        <5>3. QED
          BY <4>2, <5>1, <5>2
      <4>5. QED
        BY <4>3, <4>4
    <3>3. QED
      BY <1>3, <3>1, <3>2 DEF PollUpsert
  <2>3. QED
    BY <1>3, <2>1, <2>2 DEF PollUpsert
<1>4. CASE PollInterfaces(w)
  BY <1>1, <1>4 DEF PollInterfaces, BusyWorker, Pc
<1>5. CASE PollClearAlert(w)
  <2>1. worker' \in [Worker -> {IdleWorker} \cup BusyWorker]
    BY <1>1, <1>5 DEF PollClearAlert, BusyWorker, Pc
  <2>2. /\ alerts' \in [AlertId -> {NoAlert} \cup Alert]
        /\ announced' \in [AlertId -> Nat]
    <3>1. \A a \in Unresolved(worker[w].id) : alerts[a] \in Alert
      BY DEF Unresolved, NoAlert
    <3>2. QED
      <4>1. CASE ResolveAlert(worker[w].id)
        <5>1. alerts' \in [AlertId -> {NoAlert} \cup Alert]
          BY <3>1, <4>1, AlertUpdates DEF ResolveAlert
        <5>2. announced' \in [AlertId -> Nat]
          BY <4>1 DEF ResolveAlert
        <5>3. QED
          BY <5>1, <5>2
      <4>2. QED
        BY <1>5, <4>1 DEF PollClearAlert
  <2>3. QED
    BY <1>5, <2>1, <2>2 DEF PollClearAlert
<1>6. CASE PollFailed(w)
  <2>1. worker[w] \in BusyWorker
    BY <1>1, <1>6 DEF PollFailed
  <2>2. \A h \in Host : LookupIds(h) \subseteq 0..MaxRow
    <3>1. \A h \in Host : devices[h].id \in 0..MaxRow
      BY DEF NoDevice, DeviceRow, RowId
    <3>2. \A h \in Host : AtAddress(h) \subseteq 0..MaxRow
      BY <3>1 DEF AtAddress
    <3>3. QED
      BY <3>1, <3>2 DEF LookupIds
  <2>3. worker' \in [Worker -> {IdleWorker} \cup BusyWorker]
    BY <1>6, <2>1, <2>2 DEF PollFailed, BusyWorker, Pc
  <2>4. QED
    BY <1>6, <2>3 DEF PollFailed
<1>7. CASE ProcessPollResult(w)
  <2>1. worker[w] \in BusyWorker
    BY <1>1, <1>7 DEF ProcessPollResult
  <2>2. worker' \in [Worker -> {IdleWorker} \cup BusyWorker]
    BY <1>7, <2>1 DEF ProcessPollResult, BusyWorker, Pc
  <2>3. /\ device_state' \in [RowId -> {NoState} \cup StateRow]
        /\ alerts' \in [AlertId -> {NoAlert} \cup Alert]
    <3>1. CASE Commit(worker[w].id, worker[w].ok)
      <4> DEFINE id == worker[w].id
                 ok == worker[w].ok
      <4>1. id \in RowId /\ ok \in BOOLEAN
        BY <2>1, <3>1, FkHoldsRow DEF Commit, BusyWorker
      <4> HIDE DEF id, ok
      <4>2. Commit(id, ok)
        BY <3>1 DEF id, ok
      <4>3. device_state' \in [RowId -> {NoState} \cup StateRow]
        BY <4>1, <4>2, CommitType DEF Commit
      <4>4. \/ RaiseIncident(id) \/ RaiseUntold(id) \/ CloseIncident(id) \/ RefreshIncident(id)
            \/ UNCHANGED alerts
        BY <4>2 DEF Commit
      <4>5. QED
        BY <4>1, <4>3, <4>4, AlertsType
    <3>2. CASE Rollback(worker[w].id, worker[w].ok)
      BY <3>2 DEF Rollback
    <3>3. QED
      BY <1>7, <3>1, <3>2 DEF ProcessPollResult
  <2>4. QED
    BY <1>7, <2>2, <2>3 DEF ProcessPollResult
<1>8. CASE PollMarkError(w)
  <2>1. \A r \in DeviceRow : [r EXCEPT !.status = "error"] \in DeviceRow
    BY DEF DeviceRow
  <2>2. devices' \in [Host -> {NoDevice} \cup DeviceRow]
    BY <1>8, <2>1 DEF PollMarkError, UpdateDeviceStatus, NoDevice
  <2>3. QED
    BY <1>8, <2>2 DEF PollMarkError
<1>9. CASE Abort(w)
  BY <1>9 DEF Abort
<1>10. QED
  BY <1>2, <1>3, <1>4, <1>5, <1>6, <1>7, <1>8, <1>9 DEF WorkerStep

(* So do the requests of the API ...                                       *)
LEMMA ApiType == ASSUME TypeOK, ApiStep PROVE TypeOK'
<1> USE DEF TypeOK
<1>1. ASSUME NEW h \in Host, RegisterDevice(h) PROVE TypeOK'
  <2>1. lastId' \in 0..MaxRow /\ lastId + 1 \in RowId
    BY <1>1, BoundAssumption DEF RegisterDevice, CanInsert, RowId
  <2>2. devices' \in [Host -> {NoDevice} \cup DeviceRow]
    <3>1. [id |-> lastId + 1, status |-> "pending", config |-> TRUE] \in DeviceRow
      BY <2>1 DEF DeviceRow
    <3>2. QED
      BY <1>1, <3>1 DEF RegisterDevice
  <2>3. QED
    BY <1>1, <2>1, <2>2 DEF RegisterDevice
<1>2. ASSUME NEW h \in Host, DeleteDevice(h) PROVE TypeOK'
  <2>1. devices' \in [Host -> {NoDevice} \cup DeviceRow]
    BY <1>2 DEF DeleteDevice
  <2>2. device_state' \in [RowId -> {NoState} \cup StateRow]
    BY <1>2 DEF DeleteDevice
  <2>3. alerts' \in [AlertId -> {NoAlert} \cup Alert] /\ announced' \in [AlertId -> Nat]
    BY <1>2 DEF DeleteDevice
  <2>4. QED
    BY <1>2, <2>1, <2>2, <2>3 DEF DeleteDevice
<1>3. ASSUME NEW a \in AlertId, ResolveAlertByID(a) PROVE TypeOK'
  <2>1. alerts' = [alerts EXCEPT ![a] =
                      [alerts[a] EXCEPT !.status = "resolved", !.resolved_at = TRUE]]
    BY <1>3 DEF ResolveAlertByID
  <2>2. alerts[a] \in Alert
    BY <1>3 DEF ResolveAlertByID
  <2>3. alerts' \in [AlertId -> {NoAlert} \cup Alert]
    BY <2>1, <2>2, AlertUpdates
  <2>4. QED
    BY <1>3, <2>3 DEF ResolveAlertByID
<1>4. ASSUME NEW a \in AlertId, NEW n \in Note, Annotate(a, n) PROVE TypeOK'
  <2>1. alerts' = [alerts EXCEPT ![a] = [alerts[a] EXCEPT !.details = @ \cup {n}]]
    BY <1>4 DEF Annotate
  <2>2. alerts[a] \in Alert
    BY <1>4 DEF Annotate
  <2>3. alerts' \in [AlertId -> {NoAlert} \cup Alert]
    BY <2>1, <2>2, AlertUpdates
  <2>4. QED
    BY <1>4, <2>3 DEF Annotate
<1>5. QED
  BY <1>1, <1>2, <1>3, <1>4 DEF ApiStep

(* ... and the two statements of each simulate request.                    *)
LEMMA SimulateType == ASSUME TypeOK, NEW o \in Operator, SimulateStep(o) PROVE TypeOK'
<1> USE DEF TypeOK
<1>1. ASSUME NEW id \in RowId, SimulateDownState(o, id) PROVE TypeOK'
  <2>1. Stored(id) \in StateRow
    BY DEF Stored, StateRow, NewState, NoState, States
  <2>2. SimulatedDown(id) \in StateRow
    BY <2>1 DEF SimulatedDown, StateRow, States, FailThreshold
  <2>3. device_state' \in [RowId -> {NoState} \cup StateRow]
    BY <1>1, <2>2 DEF SimulateDownState
  <2>4. request' \in [Operator -> RequestState]
    BY <1>1 DEF SimulateDownState, RequestState, RowId
  <2>5. QED
    BY <1>1, <2>3, <2>4 DEF SimulateDownState
<1>2. ASSUME NEW id \in RowId, SimulateRecoverState(o, id) PROVE TypeOK'
  <2>1. [current_state |-> "UP", failures |-> 0, successes |-> 1] \in StateRow
    BY DEF StateRow, States, FailThreshold
  <2>2. device_state' \in [RowId -> {NoState} \cup StateRow]
    BY <1>2, <2>1 DEF SimulateRecoverState
  <2>3. request' \in [Operator -> RequestState]
    BY <1>2 DEF SimulateRecoverState, RequestState, RowId
  <2>4. QED
    BY <1>2, <2>2, <2>3 DEF SimulateRecoverState
<1>3. IdleRequest \in RequestState
  BY DEF IdleRequest, RequestState
<1>4. CASE SimulateDownAlert(o)
  <2>1. ASSUME NEW a \in AlertId, FkHolds(request[o].id),
               alerts' = [alerts EXCEPT ![a] = NewAlert(request[o].id, "device.down", {})]
        PROVE  alerts' \in [AlertId -> {NoAlert} \cup Alert]
    BY <2>1, NewAlertType, FkHoldsRow
  <2>2. alerts' \in [AlertId -> {NoAlert} \cup Alert]
    BY <1>4, <2>1 DEF SimulateDownAlert
  <2>3. QED
    BY <1>3, <1>4, <2>2 DEF SimulateDownAlert
<1>5. CASE SimulateRecoverAlert(o)
  <2>1. \A a \in AlertId : Active(a) => alerts[a] \in Alert
    BY DEF Active, NoAlert
  <2>2. alerts' \in [AlertId -> {NoAlert} \cup Alert]
    <3> DEFINE id == request[o].id
               f == [a \in AlertId |-> IF a \in ActiveOf(id)
                        THEN [alerts[a] EXCEPT !.status = "resolved",
                                               !.resolved_at = TRUE]
                        ELSE alerts[a]]
    <3>1. ASSUME NEW a \in AlertId PROVE f[a] \in {NoAlert} \cup Alert
      BY <2>1, AlertUpdates DEF ActiveOf
    <3>2. alerts' = f \/ alerts' = alerts
      BY <1>5 DEF SimulateRecoverAlert
    <3>3. QED
      BY <3>1, <3>2
  <2>3. QED
    BY <1>3, <1>5, <2>2 DEF SimulateRecoverAlert
<1>6. QED
  BY <1>1, <1>2, <1>4, <1>5 DEF SimulateStep

(* Type correctness: every variable keeps its type, under every            *)
(* interleaving of polls, requests, deletions and faults.                  *)
THEOREM TypeCorrect == Spec => []TypeOK
<1>1. TypeOK /\ [Next]_vars => TypeOK'
  <2> SUFFICES ASSUME TypeOK, [Next]_vars PROVE TypeOK'
    OBVIOUS
  <2>1. ASSUME NEW i \in Silent, Network(i) PROVE TypeOK'
    <3>1. net' \in [Addr -> BOOLEAN]
      BY <2>1 DEF Network, TypeOK
    <3>2. QED
      BY <2>1, <3>1 DEF Network, TypeOK, db
  <2>2. CASE UNCHANGED vars
    BY <2>2 DEF vars, TypeOK
  <2>3. QED
    BY <2>1, <2>2, WorkerType, ApiType, SimulateType DEF Next
<1>2. QED
  BY <1>1, InitType, PTL DEF Spec
-----------------------------------------------------------------------------
(* What the steps do to states and alerts.                                 *)

(* A step that touches neither, and keeps the rows that exist.             *)
Quiet == /\ UNCHANGED <<device_state, alerts, announced>>
         /\ \A id \in RowId : Exists(id) => Exists(id)'

Cleared(id) == ResolveAlert(id) /\ UNCHANGED <<devices, device_state>>

Processed(w) == /\ worker[w].id \in RowId /\ worker[w].ok \in BOOLEAN
                /\ Commit(worker[w].id, worker[w].ok)
                /\ UNCHANGED <<devices, announced>>

(* Every step is quiet or one of the few that are not.                     *)
LEMMA Effects ==
    ASSUME TypeOK, [Next]_vars
    PROVE  \/ Quiet
           \/ \E w \in Worker : Cleared(worker[w].id) \/ Processed(w)
           \/ \E h \in Host : DeleteDevice(h)
           \/ \E a \in AlertId : ResolveAlertByID(a) \/ \E n \in Note : Annotate(a, n)
           \/ \E o \in Operator : SimulateStep(o)
<1>1. ASSUME UNCHANGED devices, UNCHANGED <<device_state, alerts, announced>> PROVE Quiet
  BY <1>1 DEF Quiet, Exists
<1>2. ASSUME NEW h \in Host, devices[h].id = 0,
             \A g \in Host \ {h} : devices'[g] = devices[g],
             UNCHANGED <<device_state, alerts, announced>>
      PROVE  Quiet
  BY <1>2 DEF Quiet, Exists
<1>3. ASSUME \A g \in Host : devices'[g].id = devices[g].id,
             UNCHANGED <<device_state, alerts, announced>>
      PROVE  Quiet
  BY <1>3 DEF Quiet, Exists
<1>4. ASSUME NEW w \in Worker, NEW h \in Host, Poll(w, h) PROVE Quiet
  BY <1>1, <1>4 DEF Poll, db
<1>5. ASSUME NEW w \in Worker, PollUpsert(w) PROVE Quiet
  <2>1. worker[w].host \in Host
    BY <1>5, Busy DEF PollUpsert
  <2>2. ASSUME NEW id \in RowId, UpsertDevice(worker[w].host, id) PROVE Quiet
    <3> DEFINE h == worker[w].host
    <3> HIDE DEF h
    <3>1. CASE devices[h].id # 0
      <4>1. devices' = [devices EXCEPT ![h].status = "active"]
        BY <2>2, <3>1 DEF UpsertDevice, h
      <4>2. \A g \in Host : devices'[g].id = devices[g].id
        BY <4>1 DEF TypeOK, DeviceRow, NoDevice
      <4>3. QED
        BY <1>3, <1>5, <4>2 DEF PollUpsert
    <3>2. CASE devices[h].id = 0
      <4>1. \A g \in Host \ {h} : devices'[g] = devices[g]
        BY <2>2, <3>2 DEF UpsertDevice, TypeOK, h
      <4>2. h \in Host
        BY <2>1 DEF h
      <4>3. QED
        BY <1>2, <1>5, <3>2, <4>1, <4>2 DEF PollUpsert
    <3>3. QED
      BY <3>1, <3>2
  <2>3. QED
    BY <1>1, <1>5, <2>2 DEF PollUpsert
<1>6. ASSUME NEW w \in Worker, PollInterfaces(w) PROVE Quiet
  BY <1>1, <1>6 DEF PollInterfaces, db
<1>7. ASSUME NEW w \in Worker, PollClearAlert(w) PROVE Quiet \/ Cleared(worker[w].id)
  BY <1>1, <1>7 DEF PollClearAlert, Cleared
<1>8. ASSUME NEW w \in Worker, PollFailed(w) PROVE Quiet
  BY <1>1, <1>8 DEF PollFailed, db
<1>9. ASSUME NEW w \in Worker, ProcessPollResult(w) PROVE Quiet \/ Processed(w)
  <2>1. worker[w].ok \in BOOLEAN
    BY <1>9, Busy DEF ProcessPollResult
  <2>2. CASE Commit(worker[w].id, worker[w].ok)
    BY <1>9, <2>1, <2>2, FkHoldsRow DEF ProcessPollResult, Processed, Commit
  <2>3. CASE Rollback(worker[w].id, worker[w].ok)
    BY <1>1, <1>9, <2>3 DEF ProcessPollResult, Rollback
  <2>4. QED
    BY <1>9, <2>2, <2>3 DEF ProcessPollResult
<1>10. ASSUME NEW w \in Worker, PollMarkError(w) PROVE Quiet
  <2>1. \A g \in Host : devices'[g].id = devices[g].id
    BY <1>10 DEF PollMarkError, UpdateDeviceStatus, TypeOK, DeviceRow, NoDevice
  <2>2. QED
    BY <1>3, <1>10, <2>1 DEF PollMarkError
<1>11. ASSUME NEW w \in Worker, Abort(w) PROVE Quiet
  BY <1>1, <1>11 DEF Abort, db
<1>12. ASSUME NEW h \in Host, RegisterDevice(h) PROVE Quiet
  BY <1>2, <1>12 DEF RegisterDevice, TypeOK
<1>13. ASSUME NEW i \in Silent, Network(i) PROVE Quiet
  BY <1>1, <1>13 DEF Network, db
<1>14. CASE UNCHANGED vars
  BY <1>1, <1>14 DEF vars
<1>15. QED
  BY <1>4, <1>5, <1>6, <1>7, <1>8, <1>9, <1>10, <1>11, <1>12, <1>13, <1>14
     DEF Next, WorkerStep, ApiStep

(* The four things a committed result can do, and the row it leaves.       *)
LEMMA CommitCases ==
    ASSUME TypeOK, NEW id \in RowId, NEW ok \in BOOLEAN, Commit(id, ok)
    PROVE  LET s == Stored(id)
               t == device_state'[id] IN
           /\ s \in StateRow
           /\ t \in StateRow
           /\ device_state' = [device_state EXCEPT ![id] = t]
           /\ t.failures  = IF ok THEN 0 ELSE Cap(s.failures + 1)
           /\ t.successes = IF ok THEN Cap(s.successes + 1) ELSE 0
           /\ \/ /\ s.current_state # "DOWN" /\ t.current_state = "DOWN"
                 /\ ~ok /\ s.failures + 1 >= FailThreshold
                 /\ RaiseIncident(id) \/ RaiseUntold(id)
              \/ /\ s.current_state = "DOWN" /\ t.current_state = "UP"
                 /\ ok /\ s.successes + 1 >= ClearThreshold /\ CloseIncident(id)
              \/ /\ s.current_state = "DOWN" /\ t.current_state = "DOWN"
                 /\ ~ok /\ RefreshIncident(id)
              \/ /\ s.current_state # "DOWN" /\ t.current_state = s.current_state
                 /\ ok \/ s.failures + 1 < FailThreshold
                 /\ UNCHANGED alerts
              \/ /\ s.current_state = "DOWN" /\ t.current_state = "DOWN"
                 /\ ok /\ s.successes + 1 < ClearThreshold
                 /\ UNCHANGED alerts
<1> DEFINE s  == Stored(id)
           tr == Transition(id, ok)
<1>1. s \in StateRow
  BY DEF TypeOK, Stored, StateRow, NewState, NoState, States, RowId
<1>2. device_state' = [device_state EXCEPT ![id] =
                            [current_state |-> tr.NextState,
                             failures      |-> Cap(tr.ConsecutiveFailures),
                             successes     |-> Cap(tr.ConsecutiveSuccesses)]]
  BY DEF Commit
<1>3. device_state'[id] = [current_state |-> tr.NextState,
                           failures      |-> Cap(tr.ConsecutiveFailures),
                           successes     |-> Cap(tr.ConsecutiveSuccesses)]
  BY <1>2 DEF TypeOK
<1>4. device_state'[id] \in StateRow
  BY <1>3, CommitType
<1>5. /\ tr.ConsecutiveFailures  = IF ok THEN 0 ELSE s.failures + 1
      /\ tr.ConsecutiveSuccesses = IF ok THEN s.successes + 1 ELSE 0
      /\ \/ /\ s.current_state # "DOWN" /\ ~ok /\ s.failures + 1 >= FailThreshold
            /\ tr.Transition = "down" /\ tr.NextState = "DOWN"
         \/ /\ s.current_state = "DOWN" /\ ok /\ s.successes + 1 >= ClearThreshold
            /\ tr.Transition = "up" /\ tr.NextState = "UP"
         \/ /\ s.current_state # "DOWN" /\ (ok \/ s.failures + 1 < FailThreshold)
            /\ tr.Transition = "none" /\ tr.NextState = s.current_state
         \/ /\ s.current_state = "DOWN" /\ (~ok \/ s.successes + 1 < ClearThreshold)
            /\ tr.Transition = "none" /\ tr.NextState = "DOWN"
  <2> DEFINE falls == s.current_state # "DOWN" /\ ~ok /\ s.failures + 1 >= FailThreshold
             rises == s.current_state = "DOWN" /\ ok /\ s.successes + 1 >= ClearThreshold
  <2>1. /\ tr.ConsecutiveFailures  = IF ok THEN 0 ELSE s.failures + 1
        /\ tr.ConsecutiveSuccesses = IF ok THEN s.successes + 1 ELSE 0
        /\ tr.NextState  = IF falls THEN "DOWN" ELSE IF rises THEN "UP" ELSE s.current_state
        /\ tr.Transition = IF falls THEN "down" ELSE IF rises THEN "up" ELSE "none"
    BY DEF Transition, ComputeTransition, Falls, Rises, Failures, Successes,
           FailThreshold, ClearThreshold
  <2>2. s.failures \in Nat /\ s.successes \in Nat
    BY <1>1 DEF StateRow
  <2> HIDE DEF s, tr
  <2>3. QED
    BY <2>1, <2>2 DEF FailThreshold, ClearThreshold
<1>6. /\ tr.Transition = "down" => RaiseIncident(id) \/ RaiseUntold(id)
      /\ tr.Transition = "up"   => CloseIncident(id)
      /\ tr.Transition = "none" /\ tr.NextState = "DOWN" /\ ~ok => RefreshIncident(id)
      /\ tr.Transition = "none" /\ ~(tr.NextState = "DOWN" /\ ~ok) => UNCHANGED alerts
  <2>1. (CASE tr.Transition = "down" -> RaiseIncident(id) \/ RaiseUntold(id)
           [] tr.Transition = "up"   -> CloseIncident(id)
           [] tr.Transition = "none" /\ tr.NextState = "DOWN" /\ ~ok -> RefreshIncident(id)
           [] OTHER -> UNCHANGED alerts)
    BY DEF Commit
  <2> HIDE DEF tr
  <2>2. QED
    BY <2>1
<1> HIDE DEF s, tr
<1>7. /\ device_state'[id].failures  = IF ok THEN 0 ELSE Cap(s.failures + 1)
      /\ device_state'[id].successes = IF ok THEN Cap(s.successes + 1) ELSE 0
      /\ device_state'[id].current_state = tr.NextState
      /\ device_state' = [device_state EXCEPT ![id] = device_state'[id]]
  <2>1. device_state' = [device_state EXCEPT ![id] = device_state'[id]]
    BY <1>2, <1>3
  <2>2. Cap(0) = 0
    BY BoundAssumption DEF Cap
  <2>3. QED
    BY <1>3, <1>5, <2>1, <2>2
<1>8. \/ /\ s.current_state # "DOWN" /\ device_state'[id].current_state = "DOWN"
         /\ ~ok /\ s.failures + 1 >= FailThreshold
         /\ RaiseIncident(id) \/ RaiseUntold(id)
      \/ /\ s.current_state = "DOWN" /\ device_state'[id].current_state = "UP"
         /\ ok /\ s.successes + 1 >= ClearThreshold /\ CloseIncident(id)
      \/ /\ s.current_state = "DOWN" /\ device_state'[id].current_state = "DOWN"
         /\ ~ok /\ RefreshIncident(id)
      \/ /\ s.current_state # "DOWN" /\ device_state'[id].current_state = s.current_state
         /\ ok \/ s.failures + 1 < FailThreshold
         /\ UNCHANGED alerts
      \/ /\ s.current_state = "DOWN" /\ device_state'[id].current_state = "DOWN"
         /\ ok /\ s.successes + 1 < ClearThreshold
         /\ UNCHANGED alerts
  BY <1>5, <1>6, <1>7
<1>9. QED
  BY <1>1, <1>4, <1>7, <1>8 DEF s
-----------------------------------------------------------------------------
(* Safety properties, with or without simulate requests.  Each invariant   *)
(* is inductive next to TypeOK, alone or with the one named in its proof;  *)
(* what a step may do is taken from Effects and CommitCases.               *)

(* The ways a step rewrites one alert.                                     *)
Rewrites(a, new) ==
    \/ new = alerts[a]
    \/ new = NoAlert /\ \E h \in Host : DeleteDevice(h)
    \/ /\ alerts[a] = NoAlert
       /\ \E id \in RowId : \/ new = NewAlert(id, "device_down", {"ALERT_TRIGGERED"})
                            \/ new = NewAlert(id, "device.down", {})
                            \/ Operator # {} /\ new = NewAlert(id, "device_down", {})
    \/ /\ alerts[a] # NoAlert
       /\ new = [alerts[a] EXCEPT !.timeline = @ \cup {"ALERT_TRIGGERED"}]
    \/ /\ Active(a)
       /\ \/ new = [alerts[a] EXCEPT !.status = "resolved", !.resolved_at = TRUE,
                                     !.timeline = @ \cup {"ALERT_CLEARED"}]
          \/ new = [alerts[a] EXCEPT !.details = {}]
    \/ /\ alerts[a] # NoAlert
       /\ \/ new = [alerts[a] EXCEPT !.resolved_at = TRUE]
          \/ new = [alerts[a] EXCEPT !.status = "resolved", !.resolved_at = TRUE]
          \/ \E n \in Note : new = [alerts[a] EXCEPT !.details = @ \cup {n}]

(* Whatever the step, each single alert is rewritten in one of the ways    *)
(* listed in Rewrites.                                                     *)
LEMMA AlertSteps ==
    ASSUME TypeOK, [Next]_vars, NEW a \in AlertId
    PROVE  Rewrites(a, alerts'[a])
<1> USE DEF Rewrites
<1>1. \A b \in AlertId : Active(b) => alerts[b] # NoAlert
  BY DEF Active, NoAlert
<1>2. CASE Quiet
  BY <1>2 DEF Quiet
<1>3. ASSUME NEW w \in Worker, Cleared(worker[w].id) PROVE Rewrites(a, alerts'[a])
  <2>1. a \in Unresolved(worker[w].id) => alerts[a] # NoAlert
    BY DEF Unresolved, NoAlert
  <2>2. QED
    BY <1>3, <2>1 DEF Cleared, ResolveAlert
<1>4. ASSUME NEW w \in Worker, Processed(w) PROVE Rewrites(a, alerts'[a])
  <2> DEFINE id == worker[w].id
             ok == worker[w].ok
  <2>1. id \in RowId /\ ok \in BOOLEAN /\ Commit(id, ok)
    BY <1>4 DEF Processed
  <2> HIDE DEF id, ok
  <2>2. CASE RaiseIncident(id)
    <3>1. CASE ActiveOf(id) # {}
      BY <1>1, <2>2, <3>1 DEF RaiseIncident, ActiveOf
    <3>2. CASE ActiveOf(id) = {}
      BY <2>1, <2>2, <3>2 DEF RaiseIncident, TypeOK
    <3>3. QED
      BY <3>1, <3>2
  <2>3. CASE CloseIncident(id)
    BY <2>3 DEF CloseIncident, ActiveOf
  <2>4. CASE RefreshIncident(id)
    BY <2>4 DEF RefreshIncident, ActiveOf
  <2>5. CASE RaiseUntold(id)
    BY <2>1, <2>5, UntoldAlert
  <2>6. QED
    BY <2>1, <2>2, <2>3, <2>4, <2>5 DEF Commit
<1>5. ASSUME NEW h \in Host, DeleteDevice(h) PROVE Rewrites(a, alerts'[a])
  BY <1>5 DEF DeleteDevice
<1>6. ASSUME NEW b \in AlertId, ResolveAlertByID(b) PROVE Rewrites(a, alerts'[a])
  <2>1. alerts' = [alerts EXCEPT ![b] =
                      [alerts[b] EXCEPT !.status = "resolved", !.resolved_at = TRUE]]
    BY <1>6 DEF ResolveAlertByID
  <2>2. QED
    BY <1>6, <2>1 DEF ResolveAlertByID, TypeOK
<1>7. ASSUME NEW b \in AlertId, NEW n \in Note, Annotate(b, n)
      PROVE  Rewrites(a, alerts'[a])
  <2>1. alerts' = [alerts EXCEPT ![b] = [alerts[b] EXCEPT !.details = @ \cup {n}]]
    BY <1>7 DEF Annotate
  <2>2. QED
    BY <1>7, <2>1 DEF Annotate, TypeOK
<1>8. ASSUME NEW o \in Operator, SimulateStep(o) PROVE Rewrites(a, alerts'[a])
  <2>1. CASE SimulateDownAlert(o)
    BY <2>1, FkHoldsRow DEF SimulateDownAlert, TypeOK
  <2>2. CASE SimulateRecoverAlert(o)
    BY <1>1, <2>2 DEF SimulateRecoverAlert, ActiveOf
  <2>3. QED
    BY <1>8, <2>1, <2>2 DEF SimulateStep, SimulateDownState, SimulateRecoverState
<1>9. QED
  BY <1>2, <1>3, <1>4, <1>5, <1>6, <1>7, <1>8, Effects

(* What a rewritten alert keeps of the old one.                            *)
Keeps(old, new) ==
    /\ new.device = old.device /\ new.category = old.category
    /\ old.timeline \subseteq new.timeline
    /\ new.status = old.status \/ (new.status = "resolved" /\ new.resolved_at)
    /\ old.resolved_at => new.resolved_at
    /\ "ALERT_CLEARED" \in new.timeline =>
           "ALERT_CLEARED" \in old.timeline \/ (new.status = "resolved" /\ new.resolved_at)

(* Every field update the statements make is one that Keeps allows.        *)
LEMMA KeepsFields ==
    ASSUME NEW r \in Alert
    PROVE  /\ Keeps(r, r)
           /\ Keeps(r, [r EXCEPT !.timeline = @ \cup {"ALERT_TRIGGERED"}])
           /\ Keeps(r, [r EXCEPT !.status = "resolved", !.resolved_at = TRUE,
                                 !.timeline = @ \cup {"ALERT_CLEARED"}])
           /\ Keeps(r, [r EXCEPT !.details = {}])
           /\ Keeps(r, [r EXCEPT !.resolved_at = TRUE])
           /\ Keeps(r, [r EXCEPT !.status = "resolved", !.resolved_at = TRUE])
           /\ \A n \in Note : Keeps(r, [r EXCEPT !.details = @ \cup {n}])
BY DEF Keeps, Alert, Event

(* A step removes an alert, creates it active, or keeps what Keeps says.   *)
LEMMA AlertKept ==
    ASSUME TypeOK, [Next]_vars, NEW a \in AlertId, alerts'[a] # NoAlert
    PROVE  \/ /\ alerts[a] = NoAlert
              /\ \E id \in RowId : \/ alerts'[a] = NewAlert(id, "device_down", {"ALERT_TRIGGERED"})
                                   \/ alerts'[a] = NewAlert(id, "device.down", {})
                                   \/ /\ Operator # {}
                                      /\ alerts'[a] = NewAlert(id, "device_down", {})
           \/ alerts[a] \in Alert /\ Keeps(alerts[a], alerts'[a])
<1>1. alerts[a] = NoAlert \/ alerts[a] \in Alert
  BY DEF TypeOK
<1>2. Active(a) => alerts[a] # NoAlert
  BY DEF Active, NoAlert
<1>3. Rewrites(a, alerts'[a])
  BY AlertSteps
<1>4. ASSUME alerts[a] \in Alert, alerts[a] # NoAlert PROVE Keeps(alerts[a], alerts'[a])
  BY <1>3, <1>4, KeepsFields DEF Rewrites
<1>5. QED
  BY <1>1, <1>2, <1>3, <1>4 DEF Rewrites

(* Only the deletion of a device removes an alert.                         *)
LEMMA AlertStays ==
    ASSUME TypeOK, [Next]_vars, NEW a \in AlertId, alerts[a] # NoAlert,
           ~\E h \in Host : DeleteDevice(h)
    PROVE  alerts'[a] # NoAlert
<1>1. alerts[a] \in Alert
  BY DEF TypeOK
<1>2. \A r \in Alert : r # NoAlert
  BY NewAlertType
<1>3. QED
  BY <1>1, <1>2, AlertSteps, AlertUpdates DEF Rewrites
-----------------------------------------------------------------------------
(* Nothing reopens an alert or takes its resolution time away.             *)
THEOREM ResolvedAlertsStay == Spec => ResolvedForGood
<1>1. TypeOK /\ [Next]_vars =>
          [\A a \in AlertId : alerts'[a] # NoAlert =>
              /\ alerts[a].status = "resolved" => alerts'[a].status = "resolved"
              /\ alerts[a].resolved_at => alerts'[a].resolved_at]_vars
  <2> SUFFICES ASSUME TypeOK, [Next]_vars, NEW a \in AlertId, alerts'[a] # NoAlert
               PROVE  /\ alerts[a].status = "resolved" => alerts'[a].status = "resolved"
                      /\ alerts[a].resolved_at => alerts'[a].resolved_at
    OBVIOUS
  <2>1. CASE alerts[a] = NoAlert
    BY <2>1 DEF NoAlert
  <2>2. CASE alerts[a] \in Alert /\ Keeps(alerts[a], alerts'[a])
    BY <2>2 DEF Keeps
  <2>3. QED
    BY <2>1, <2>2, AlertKept
<1>2. QED
  BY <1>1, TypeCorrect, PTL DEF Spec, ResolvedForGood

(* An alert without a resolution time is active.                           *)
THEOREM UnresolvedAlertsActive == Spec => []UnresolvedIsActive
<1>1. Init => UnresolvedIsActive
  BY DEF Init, UnresolvedIsActive
<1>2. TypeOK /\ UnresolvedIsActive /\ [Next]_vars => UnresolvedIsActive'
  <2> SUFFICES ASSUME TypeOK, UnresolvedIsActive, [Next]_vars, NEW a \in AlertId,
                      alerts'[a] # NoAlert, ~alerts'[a].resolved_at
               PROVE  alerts'[a].status = "active"
    BY DEF UnresolvedIsActive, Active
  <2>1. \A id \in RowId : /\ NewAlert(id, "device_down", {"ALERT_TRIGGERED"}).status = "active"
                          /\ NewAlert(id, "device_down", {}).status = "active"
                          /\ NewAlert(id, "device.down", {}).status = "active"
    BY DEF NewAlert
  <2>2. CASE alerts[a] \in Alert /\ Keeps(alerts[a], alerts'[a])
    BY <2>2, NewAlertType DEF Keeps, UnresolvedIsActive, Active
  <2>3. QED
    BY <2>1, <2>2, AlertKept
<1>3. QED
  BY <1>1, <1>2, TypeCorrect, PTL DEF Spec

(* As long as nobody simulates, every incident's audit timeline agrees     *)
(* with the incident.                                                      *)
THEOREM TimelineTrue == ASSUME Operator = {} PROVE Spec => []TimelineTruthful
<1>1. Init => TimelineTruthful
  BY DEF Init, TimelineTruthful, NoAlert
<1>2. TypeOK /\ TimelineTruthful /\ [Next]_vars => TimelineTruthful'
  <2> DEFINE Told(r) == /\ r.category = "device_down" => "ALERT_TRIGGERED" \in r.timeline
                        /\ "ALERT_CLEARED" \in r.timeline =>
                               r.status = "resolved" /\ r.resolved_at
  <2> SUFFICES ASSUME TypeOK, TimelineTruthful, [Next]_vars, NEW a \in AlertId
               PROVE  Told(alerts'[a])
    BY DEF TimelineTruthful
  <2>1. Told(NoAlert) /\ \A id \in RowId :
            /\ Told(NewAlert(id, "device_down", {"ALERT_TRIGGERED"}))
            /\ Told(NewAlert(id, "device.down", {}))
    BY DEF NoAlert, NewAlert
  <2>2. Told(alerts[a])
    BY DEF TimelineTruthful
  <2>3. ASSUME Keeps(alerts[a], alerts'[a]) PROVE Told(alerts'[a])
    BY <2>2, <2>3 DEF Keeps
  <2>4. QED
    BY <2>1, <2>3, AlertKept
<1>3. QED
  BY <1>1, <1>2, TypeCorrect, PTL DEF Spec

(* The first statement of a simulated recovery writes a row or nothing.    *)
LEMMA RecoverState ==
    ASSUME TypeOK, NEW o, NEW id \in RowId, SimulateRecoverState(o, id)
    PROVE  \/ UNCHANGED device_state
           \/ /\ device_state[id] # NoState
              /\ device_state' = [device_state EXCEPT ![id] =
                     [current_state |-> "UP", failures |-> 0, successes |-> 1]]
<1>1. CASE device_state[id] = NoState
  <2>1. device_state' = [device_state EXCEPT ![id] = device_state[id]]
    BY <1>1 DEF SimulateRecoverState
  <2>2. QED
    BY <2>1 DEF TypeOK
<1>2. CASE device_state[id] # NoState
  BY <1>2 DEF SimulateRecoverState
<1>3. QED
  BY <1>1, <1>2

(* An active alert is there.                                               *)
LEMMA ActiveIsAlert == \A id : \A a \in ActiveOf(id) : alerts[a] # NoAlert
BY DEF ActiveOf, Active, NoAlert

(* Two active alerts of one device never coexist, whoever races: every     *)
(* insert is guarded by the absence of an active one.                      *)
THEOREM AtMostOneIncident == Spec => []OneActiveIncident
<1>1. Init => OneActiveIncident
  BY DEF Init, OneActiveIncident, Active, NoAlert
<1>2. TypeOK /\ OneActiveIncident /\ [Next]_vars => OneActiveIncident'
  <2> SUFFICES ASSUME TypeOK, OneActiveIncident, [Next]_vars
               PROVE  OneActiveIncident'
    OBVIOUS
  <2>1. ASSUME \A a \in AlertId : alerts'[a].status = "active" =>
                   Active(a) /\ alerts'[a].device = alerts[a].device
        PROVE  OneActiveIncident'
    BY <2>1 DEF OneActiveIncident, Active
  <2>2. ASSUME NEW id \in RowId, NEW a \in AlertId, NEW new, ActiveOf(id) = {},
               new.device = id, alerts' = [alerts EXCEPT ![a] = new]
        PROVE  OneActiveIncident'
    BY <2>2 DEF OneActiveIncident, Active, ActiveOf, TypeOK
  <2>3. ASSUME NEW a \in AlertId, alerts'[a].status = "active",
               alerts[a] \in Alert, Keeps(alerts[a], alerts'[a])
        PROVE  Active(a) /\ alerts'[a].device = alerts[a].device
    BY <2>3 DEF Keeps, Active
  <2>4. ASSUME \A a \in AlertId : alerts[a] = NoAlert => alerts'[a] = NoAlert
        PROVE  OneActiveIncident'
    <3>1. ASSUME NEW a \in AlertId, alerts'[a].status = "active"
          PROVE  Active(a) /\ alerts'[a].device = alerts[a].device
      <4>1. alerts'[a] # NoAlert
        BY <3>1 DEF NoAlert
      <4>2. alerts[a] # NoAlert
        BY <2>4, <4>1
      <4>3. QED
        BY <2>3, <3>1, <4>1, <4>2, AlertKept
    <3>2. QED
      BY <2>1, <3>1
  <2>5. \A id \in RowId : /\ NewAlert(id, "device_down", {"ALERT_TRIGGERED"}).device = id
                          /\ NewAlert(id, "device_down", {}).device = id
                          /\ NewAlert(id, "device.down", {}).device = id
    BY DEF NewAlert
  <2>6. ASSUME NEW id \in RowId, RaiseIncident(id) PROVE OneActiveIncident'
    <3>1. CASE ActiveOf(id) # {}
      BY <2>4, <2>6, <3>1, ActiveIsAlert DEF RaiseIncident
    <3>2. CASE ActiveOf(id) = {}
      BY <2>2, <2>5, <2>6, <3>2 DEF RaiseIncident
    <3>3. QED
      BY <3>1, <3>2
  <2>61. ASSUME NEW id \in RowId, RaiseUntold(id) PROVE OneActiveIncident'
    <3>1. PICK b \in AlertId :
              LET told == [alerts[b] EXCEPT !.timeline = @ \cup {"ALERT_TRIGGERED"}] IN
              /\ alerts[b] \in Alert /\ alerts[b].status = "resolved"
              /\ \/ UNCHANGED alerts
                 \/ alerts' = [alerts EXCEPT ![b] = told]
                 \/ /\ ActiveOf(id) = {}
                    /\ \E a \in AlertId \ {b} :
                          alerts' = [c \in AlertId |->
                              IF c = a THEN NewAlert(id, "device_down", {})
                              ELSE IF c = b THEN told ELSE alerts[c]]
      BY <2>61, UntoldCases
    <3> DEFINE told == [alerts[b] EXCEPT !.timeline = @ \cup {"ALERT_TRIGGERED"}]
    <3>2. told.status = "resolved"
      BY <3>1 DEF Alert
    <3>3. CASE UNCHANGED alerts \/ alerts' = [alerts EXCEPT ![b] = told]
      <4>1. \A a \in AlertId : alerts'[a].status = "active" => alerts'[a] = alerts[a]
        BY <3>2, <3>3 DEF TypeOK
      <4>2. QED
        BY <2>1, <4>1 DEF Active
    <3>4. ASSUME ActiveOf(id) = {}, NEW a \in AlertId,
                 alerts' = [c \in AlertId |-> IF c = a THEN NewAlert(id, "device_down", {})
                                             ELSE IF c = b THEN told ELSE alerts[c]]
          PROVE  OneActiveIncident'
      <4>1. \A c \in AlertId : alerts'[c].status = "active" =>
                \/ c = a /\ alerts'[c].device = id
                \/ Active(c) /\ alerts'[c].device = alerts[c].device /\ alerts[c].device # id
        <5> HIDE DEF told
        <5>1. QED
          BY <2>5, <3>2, <3>4 DEF Active, ActiveOf
      <4>2. QED
        BY <4>1 DEF OneActiveIncident, Active
    <3>5. QED
      BY <3>1, <3>3, <3>4
  <2>7. ASSUME NEW w \in Worker, Processed(w) PROVE OneActiveIncident'
    <3> DEFINE id == worker[w].id
               ok == worker[w].ok
    <3>1. id \in RowId /\ Commit(id, ok)
      BY <2>7 DEF Processed
    <3> HIDE DEF id, ok
    <3>2. ASSUME CloseIncident(id) \/ RefreshIncident(id) \/ UNCHANGED alerts
          PROVE  OneActiveIncident'
      BY <2>4, <3>2, ActiveIsAlert DEF CloseIncident, RefreshIncident
    <3>3. QED
      BY <2>6, <2>61, <3>1, <3>2 DEF Commit
  <2>8. ASSUME NEW o \in Operator, SimulateStep(o) PROVE OneActiveIncident'
    <3>1. CASE SimulateDownAlert(o)
      <4>1. CASE UNCHANGED alerts
        BY <2>4, <4>1
      <4>2. ASSUME NEW a \in AlertId, FkHolds(request[o].id), ActiveOf(request[o].id) = {},
                   alerts' = [alerts EXCEPT ![a] =
                                 NewAlert(request[o].id, "device.down", {})]
            PROVE  OneActiveIncident'
        BY <2>2, <2>5, <4>2, FkHoldsRow
      <4>3. QED
        BY <3>1, <4>1, <4>2 DEF SimulateDownAlert, NoneExisting
    <3>2. CASE SimulateRecoverAlert(o)
      BY <2>4, <3>2, ActiveIsAlert DEF SimulateRecoverAlert
    <3>3. QED
      BY <2>4, <2>8, <3>1, <3>2 DEF SimulateStep, SimulateDownState, SimulateRecoverState
  <2>9. ASSUME NEW w \in Worker, Cleared(worker[w].id) PROVE OneActiveIncident'
    <3>1. \A a \in AlertId : alerts[a] = NoAlert => a \notin Unresolved(worker[w].id)
      BY DEF Unresolved, NoAlert
    <3>2. \A a \in AlertId : alerts[a] = NoAlert => alerts'[a] = NoAlert
      BY <2>9, <3>1 DEF Cleared, ResolveAlert
    <3>3. QED
      BY <2>4, <3>2
  <2>10. ASSUME NEW h \in Host, DeleteDevice(h) PROVE OneActiveIncident'
    BY <2>4, <2>10 DEF DeleteDevice
  <2>11. ASSUME NEW a \in AlertId, ResolveAlertByID(a) PROVE OneActiveIncident'
    BY <2>4, <2>11 DEF ResolveAlertByID, TypeOK
  <2>12. ASSUME NEW a \in AlertId, NEW n \in Note, Annotate(a, n) PROVE OneActiveIncident'
    BY <2>4, <2>12 DEF Annotate, TypeOK
  <2>13. CASE Quiet
    BY <2>4, <2>13 DEF Quiet
  <2>14. QED
    BY <2>7, <2>8, <2>9, <2>10, <2>11, <2>12, <2>13, Effects
<1>3. QED
  BY <1>1, <1>2, TypeCorrect, PTL DEF Spec

(* No row of device_state has a threshold passed and not acted on, even    *)
(* when simulate requests overwrite rows between polls.                    *)
THEOREM ThresholdsAreKept == Spec => []ThresholdsKept
<1> DEFINE Kept(s) == /\ s.current_state # "DOWN" => s.failures < FailThreshold
                      /\ s.current_state = "DOWN" => s.successes < ClearThreshold
                      /\ s.failures = 0 \/ s.successes = 0
<1>1. Kept(NoState) /\ Kept(NewState)
  BY DEF NoState, NewState, FailThreshold, ClearThreshold
<1>2. Init => ThresholdsKept
  BY <1>1 DEF Init, ThresholdsKept
<1>3. TypeOK /\ ThresholdsKept /\ [Next]_vars => ThresholdsKept'
  <2> SUFFICES ASSUME TypeOK, ThresholdsKept, [Next]_vars, NEW i \in RowId
               PROVE  Kept(device_state'[i])
    BY DEF ThresholdsKept
  <2>1. \A id \in RowId : Kept(device_state[id]) /\ Kept(Stored(id))
    BY <1>1 DEF ThresholdsKept, Stored
  <2>2. ASSUME UNCHANGED device_state PROVE Kept(device_state'[i])
    BY <2>1, <2>2
  <2>3. ASSUME NEW w \in Worker, Processed(w) PROVE Kept(device_state'[i])
    <3> DEFINE id == worker[w].id
               ok == worker[w].ok
               t  == device_state'[id]
    <3>1. id \in RowId /\ ok \in BOOLEAN /\ Commit(id, ok)
      BY <2>3 DEF Processed
    <3> HIDE DEF id, ok
    <3>2. Kept(t)
      <4> DEFINE s == Stored(id)
      <4>1. /\ s \in StateRow
            /\ t.failures  = IF ok THEN 0 ELSE Cap(s.failures + 1)
            /\ t.successes = IF ok THEN Cap(s.successes + 1) ELSE 0
            /\ \/ t.current_state = "DOWN" /\ ~ok
               \/ t.current_state = "UP" /\ ok
               \/ t.current_state # "DOWN" /\ (ok \/ s.failures + 1 < FailThreshold)
               \/ t.current_state = "DOWN" /\ ok /\ s.successes + 1 < ClearThreshold
        BY <3>1, CommitCases
      <4>2. /\ s.failures + 1 < FailThreshold => Cap(s.failures + 1) < FailThreshold
            /\ s.successes + 1 < ClearThreshold => Cap(s.successes + 1) < ClearThreshold
        BY <4>1, BoundAssumption DEF Cap, StateRow, FailThreshold, ClearThreshold
      <4> HIDE DEF s, t
      <4>3. QED
        BY <4>1, <4>2 DEF FailThreshold, ClearThreshold
    <3>3. \A j \in RowId \ {id} : device_state'[j] = device_state[j]
      BY <3>1 DEF Commit, TypeOK
    <3>4. QED
      BY <2>1, <3>2, <3>3
  <2>4. ASSUME NEW h \in Host, DeleteDevice(h) PROVE Kept(device_state'[i])
    BY <1>1, <2>1, <2>4 DEF DeleteDevice, TypeOK
  <2>5. ASSUME NEW o \in Operator, SimulateStep(o) PROVE Kept(device_state'[i])
    <3>1. \A id \in RowId : Kept(SimulatedDown(id))
      BY DEF SimulatedDown, FailThreshold, ClearThreshold
    <3>2. Kept([current_state |-> "UP", failures |-> 0, successes |-> 1])
      BY DEF FailThreshold
    <3>3. ASSUME NEW id \in RowId, NEW s, Kept(s),
                 device_state' = [device_state EXCEPT ![id] = s]
          PROVE  Kept(device_state'[i])
      BY <2>1, <3>3 DEF TypeOK
    <3>4. ASSUME NEW id \in RowId, SimulateRecoverState(o, id)
          PROVE  Kept(device_state'[i])
      BY <2>2, <3>2, <3>3, <3>4, RecoverState
    <3>5. QED
      BY <2>2, <2>5, <3>1, <3>3, <3>4
         DEF SimulateStep, SimulateDownState, SimulateDownAlert, SimulateRecoverAlert
  <2>6. QED
    BY <2>2, <2>3, <2>4, <2>5, Effects
       DEF Quiet, Cleared, ResolveAlertByID, Annotate
<1>4. QED
  BY <1>2, <1>3, TypeCorrect, PTL DEF Spec

(* An incident's end is announced at most once and only if it has one.     *)
THEOREM AnnouncedAtMostOnce == Spec => []AnnouncedOnce
<1>1. Init => AnnouncedOnce
  BY DEF Init, AnnouncedOnce
<1>2. TypeOK /\ AnnouncedOnce /\ [Next]_vars => AnnouncedOnce'
  <2> SUFFICES ASSUME TypeOK, AnnouncedOnce, [Next]_vars, NEW a \in AlertId
               PROVE  announced'[a] <= 1 /\ (announced'[a] > 0 => alerts'[a].resolved_at)
    BY DEF AnnouncedOnce
  <2>1. /\ announced[a] \in Nat /\ announced[a] <= 1
        /\ announced[a] > 0 => alerts[a].resolved_at
    BY DEF TypeOK, AnnouncedOnce
  <2>2. ~NoAlert.resolved_at
    BY DEF NoAlert
  <2>3. ASSUME NEW w \in Worker, Cleared(worker[w].id)
        PROVE  announced'[a] <= 1 /\ (announced'[a] > 0 => alerts'[a].resolved_at)
    <3>1. CASE a \in Unresolved(worker[w].id)
      <4>1. alerts[a] \in Alert /\ ~alerts[a].resolved_at
        BY <3>1 DEF Unresolved, TypeOK, NoAlert
      <4>2. [alerts[a] EXCEPT !.resolved_at = TRUE].resolved_at
        BY <4>1 DEF Alert
      <4>3. announced'[a] = announced[a] + 1 /\ alerts'[a].resolved_at
        BY <2>3, <3>1, <4>2 DEF Cleared, ResolveAlert
      <4>4. QED
        BY <2>1, <4>1, <4>3
    <3>2. CASE a \notin Unresolved(worker[w].id)
      BY <2>1, <2>3, <3>2 DEF Cleared, ResolveAlert
    <3>3. QED
      BY <3>1, <3>2
  <2>4. ASSUME NEW h \in Host, DeleteDevice(h)
        PROVE  announced'[a] <= 1 /\ (announced'[a] > 0 => alerts'[a].resolved_at)
    BY <2>1, <2>4 DEF DeleteDevice
  <2>5. ASSUME UNCHANGED announced, alerts[a] = NoAlert \/ alerts'[a] # NoAlert
        PROVE  announced'[a] <= 1 /\ (announced'[a] > 0 => alerts'[a].resolved_at)
    <3>1. CASE alerts[a] = NoAlert
      BY <2>1, <2>2, <2>5, <3>1
    <3>2. CASE alerts'[a] # NoAlert /\ alerts[a] # NoAlert
      BY <2>1, <2>5, <3>2, AlertKept DEF Keeps
    <3>3. QED
      BY <2>5, <3>1, <3>2
  <2>6. ASSUME ~\E h \in Host : DeleteDevice(h)
        PROVE  alerts[a] = NoAlert \/ alerts'[a] # NoAlert
    BY <2>6, AlertStays
  <2>7. QED
    <3>1. ASSUME NEW o \in Operator, SimulateStep(o) PROVE UNCHANGED announced
      BY <3>1 DEF SimulateStep, SimulateDownState, SimulateDownAlert,
                  SimulateRecoverState, SimulateRecoverAlert
    <3>2. QED
      BY <2>3, <2>4, <2>5, <2>6, <3>1, Effects
         DEF Quiet, Processed, ResolveAlertByID, Annotate
<1>3. QED
  BY <1>1, <1>2, TypeCorrect, PTL DEF Spec

(* Deleting a device while polls and requests for it are under way leaves  *)
(* nothing behind: every write of a state or an alert meets the foreign    *)
(* key, and the rows that are there go with the device.                    *)
THEOREM NothingOrphaned == Spec => []NoOrphans
<1>1. Init => NoOrphans
  BY DEF Init, NoOrphans
<1>2. TypeOK /\ NoOrphans /\ [Next]_vars => NoOrphans'
  <2> SUFFICES ASSUME TypeOK, NoOrphans, [Next]_vars
               PROVE  NoOrphans'
    OBVIOUS
  <2>1. ASSUME \A id \in RowId : Exists(id) => Exists(id)',
               \A a \in AlertId : alerts'[a] # NoAlert =>
                   Exists(alerts'[a].device) \/ alerts[a] # NoAlert,
               \A id \in RowId : device_state'[id] # NoState =>
                   Exists(id) \/ device_state[id] # NoState
        PROVE  NoOrphans'
    <3>1. ASSUME NEW a \in AlertId, alerts'[a] # NoAlert
          PROVE  Exists(alerts[a].device)'
      <4>1. CASE alerts[a] = NoAlert
        <5>1. alerts'[a].device \in RowId
          BY <3>1, <4>1, <2>1, FkHoldsRow DEF FkHolds
        <5>2. QED
          BY <2>1, <3>1, <4>1, <5>1 DEF Exists
      <4>2. CASE alerts[a] # NoAlert
        <5>1. alerts[a] \in Alert /\ Exists(alerts[a].device)
          BY <4>2 DEF NoOrphans, TypeOK
        <5>2. alerts'[a].device = alerts[a].device /\ alerts[a].device \in RowId
          BY <3>1, <4>2, <5>1, AlertKept DEF Keeps, Alert
        <5>3. QED
          BY <2>1, <5>1, <5>2 DEF Exists
      <4>3. QED
        BY <4>1, <4>2
    <3>2. ASSUME NEW id \in RowId, device_state'[id] # NoState
          PROVE  Exists(id)'
      BY <2>1, <3>2 DEF NoOrphans
    <3>3. QED
      BY <3>1, <3>2 DEF NoOrphans
  <2>2. ASSUME UNCHANGED devices PROVE \A id \in RowId : Exists(id) => Exists(id)'
    BY <2>2 DEF Exists
  <2>3. \A id : /\ NewAlert(id, "device_down", {"ALERT_TRIGGERED"}).device = id
                /\ NewAlert(id, "device_down", {}).device = id
                /\ NewAlert(id, "device.down", {}).device = id
    BY DEF NewAlert
  <2>4. CASE Quiet
    BY <2>1, <2>4 DEF Quiet
  <2>5. ASSUME NEW w \in Worker, Cleared(worker[w].id) PROVE NoOrphans'
    <3>1. \A a \in AlertId : a \in Unresolved(worker[w].id) => alerts[a] # NoAlert
      BY DEF Unresolved, NoAlert
    <3>2. QED
      BY <2>1, <2>2, <2>5, <3>1 DEF Cleared, ResolveAlert
  <2>6. ASSUME NEW w \in Worker, Processed(w) PROVE NoOrphans'
    <3> DEFINE id == worker[w].id
               ok == worker[w].ok
    <3>1. id \in RowId /\ Commit(id, ok) /\ UNCHANGED devices
      BY <2>6 DEF Processed
    <3> HIDE DEF id, ok
    <3>2. Exists(id)
      BY <3>1 DEF Commit, FkHolds
    <3>3. \A i \in RowId : device_state'[i] # NoState => Exists(i) \/ device_state[i] # NoState
      BY <3>1, <3>2 DEF Commit, TypeOK
    <3>4. ASSUME NEW a \in AlertId, alerts'[a] # NoAlert, alerts[a] = NoAlert
          PROVE  Exists(alerts'[a].device)
      <4>1. CASE RaiseIncident(id)
        <5>1. CASE ActiveOf(id) # {}
          BY <3>4, <4>1, <5>1, ActiveIsAlert DEF RaiseIncident
        <5>2. CASE ActiveOf(id) = {}
          <6>1. PICK b \in AlertId : alerts' = [alerts EXCEPT ![b] =
                                         NewAlert(id, "device_down", {"ALERT_TRIGGERED"})]
            BY <4>1, <5>2 DEF RaiseIncident
          <6>2. a = b
            BY <3>4, <6>1 DEF TypeOK
          <6>3. alerts'[a].device = id
            BY <2>3, <6>1, <6>2 DEF TypeOK
          <6>4. QED
            BY <3>2, <6>3
        <5>3. QED
          BY <5>1, <5>2
      <4>2. CASE CloseIncident(id) \/ RefreshIncident(id) \/ UNCHANGED alerts
        BY <3>4, <4>2, ActiveIsAlert DEF CloseIncident, RefreshIncident
      <4>3. CASE RaiseUntold(id)
        <5>1. alerts'[a].device = id
          BY <2>3, <3>1, <3>4, <4>3, UntoldAlert, NewAlertType
        <5>2. QED
          BY <3>2, <5>1
      <4>4. QED
        BY <3>1, <4>1, <4>2, <4>3 DEF Commit
    <3>5. QED
      BY <2>1, <2>2, <3>1, <3>3, <3>4
  <2>7. ASSUME NEW h \in Host, DeleteDevice(h) PROVE NoOrphans'
    <3> DEFINE id == devices[h].id
    <3>1. \A i : Exists(i) /\ i # id => Exists(i)'
      BY <2>7 DEF Exists, DeleteDevice, TypeOK
    <3>2. id \in RowId
      BY <2>7 DEF DeleteDevice, TypeOK, NoDevice, DeviceRow
    <3>3. ASSUME NEW a \in AlertId, alerts'[a] # NoAlert PROVE Exists(alerts[a].device)'
      <4>1. alerts'[a] = alerts[a] /\ alerts[a].device # id
        BY <2>7, <3>3 DEF DeleteDevice
      <4>2. QED
        BY <3>1, <3>3, <4>1 DEF NoOrphans, Exists
    <3>4. ASSUME NEW i \in RowId, device_state'[i] # NoState PROVE Exists(i)'
      <4>1. i # id /\ device_state[i] # NoState
        BY <2>7, <3>2, <3>4 DEF DeleteDevice, TypeOK
      <4>2. QED
        BY <3>1, <4>1 DEF NoOrphans
    <3>5. QED
      BY <3>3, <3>4 DEF NoOrphans
  <2>8. ASSUME NEW a \in AlertId, ResolveAlertByID(a) PROVE NoOrphans'
    BY <2>1, <2>2, <2>8 DEF ResolveAlertByID, TypeOK
  <2>9. ASSUME NEW a \in AlertId, NEW n \in Note, Annotate(a, n) PROVE NoOrphans'
    BY <2>1, <2>2, <2>9 DEF Annotate, TypeOK
  <2>10. ASSUME NEW o \in Operator, SimulateStep(o) PROVE NoOrphans'
    <3>1. ASSUME NEW id \in RowId, NEW s, Exists(id) \/ device_state[id] # NoState,
                 device_state' = [device_state EXCEPT ![id] = s],
                 UNCHANGED alerts, UNCHANGED devices
          PROVE  NoOrphans'
      BY <2>1, <2>2, <3>1 DEF TypeOK
    <3>2. CASE SimulateDownAlert(o)
      <4>1. ASSUME NEW a \in AlertId, FkHolds(request[o].id),
                   alerts' = [alerts EXCEPT ![a] =
                                 NewAlert(request[o].id, "device.down", {})]
            PROVE  \A b \in AlertId : alerts'[b] # NoAlert =>
                       Exists(alerts'[b].device) \/ alerts[b] # NoAlert
        BY <2>3, <4>1 DEF FkHolds, TypeOK
      <4>2. \A b \in AlertId : alerts'[b] # NoAlert =>
                Exists(alerts'[b].device) \/ alerts[b] # NoAlert
        BY <3>2, <4>1 DEF SimulateDownAlert
      <4>3. UNCHANGED device_state /\ UNCHANGED devices
        BY <3>2 DEF SimulateDownAlert
      <4>4. QED
        BY <2>1, <2>2, <4>2, <4>3
    <3>3. CASE SimulateRecoverAlert(o)
      BY <2>1, <2>2, <3>3, ActiveIsAlert DEF SimulateRecoverAlert
    <3>4. ASSUME NEW id \in RowId, SimulateRecoverState(o, id) PROVE NoOrphans'
      <4>1. UNCHANGED alerts /\ UNCHANGED devices
        BY <3>4 DEF SimulateRecoverState
      <4>2. CASE UNCHANGED device_state
        BY <2>1, <2>2, <4>1, <4>2
      <4>3. QED
        BY <3>1, <3>4, <4>1, <4>2, RecoverState
    <3>5. QED
      BY <2>10, <3>1, <3>2, <3>3, <3>4 DEF SimulateStep, SimulateDownState, FkHolds
  <2>11. QED
    BY <2>4, <2>5, <2>6, <2>7, <2>8, <2>9, <2>10, Effects
<1>3. QED
  BY <1>1, <1>2, TypeCorrect, PTL DEF Spec
-----------------------------------------------------------------------------
(* Incidents and states agree, as long as nobody simulates: the theorems   *)
(* from here on assume Operator = {}, because a simulate request writes    *)
(* the two tables in two statements (see the violation run silent_outage). *)
(* They end in the refinement of Incident.                                 *)

(* What is left of Effects, with the result that was processed spelt out.  *)
Processes(id, ok) ==
    /\ id \in RowId /\ ok \in BOOLEAN
    /\ Stored(id) \in StateRow /\ device_state'[id] \in StateRow
    /\ Stored(id).current_state = "DOWN" => device_state[id].current_state = "DOWN"
    /\ device_state' = [device_state EXCEPT ![id] = device_state'[id]]
    /\ device_state'[id].failures = IF ok THEN 0 ELSE Cap(Stored(id).failures + 1)
    /\ \/ /\ Stored(id).current_state # "DOWN" /\ device_state'[id].current_state = "DOWN"
          /\ ~ok /\ Stored(id).failures + 1 >= FailThreshold /\ RaiseIncident(id)
       \/ /\ device_state[id].current_state = "DOWN" /\ device_state'[id].current_state = "UP"
          /\ ok /\ Stored(id).successes + 1 >= ClearThreshold /\ CloseIncident(id)
       \/ /\ device_state[id].current_state = "DOWN" /\ device_state'[id].current_state = "DOWN"
          /\ ~ok /\ RefreshIncident(id)
       \/ /\ device_state'[id].current_state = Stored(id).current_state
          /\ UNCHANGED alerts

(* Without simulate requests a step that touches either table resolves or  *)
(* annotates an alert, deletes a device, or processes a poll result.       *)
LEMMA PollEffects ==
    ASSUME Operator = {}, TypeOK, [Next]_vars
    PROVE  \/ Quiet
           \/ \E w \in Worker : Cleared(worker[w].id)
           \/ \E w \in Worker : Processes(worker[w].id, worker[w].ok)
           \/ \E h \in Host : DeleteDevice(h)
           \/ \E a \in AlertId : ResolveAlertByID(a) \/ \E n \in Note : Annotate(a, n)
<1>1. ASSUME NEW w \in Worker, Processed(w) PROVE Processes(worker[w].id, worker[w].ok)
  <2> DEFINE id == worker[w].id
             ok == worker[w].ok
  <2>1. id \in RowId /\ ok \in BOOLEAN /\ Commit(id, ok)
    BY <1>1 DEF Processed
  <2> HIDE DEF id, ok
  <2>2. Stored(id).current_state = "DOWN" => Stored(id) = device_state[id]
    BY DEF Stored, NewState
  <2>3. ~RaiseUntold(id)
    BY DEF RaiseUntold
  <2>4. Processes(id, ok)
    BY <2>1, <2>2, <2>3, CommitCases DEF Processes
  <2>5. QED
    BY <2>4 DEF id, ok
<1>2. QED
  BY <1>1, Effects

(* The alerts a statement of ProcessPollResult leaves active.              *)
LEMMA ActiveAfter ==
    ASSUME TypeOK, NEW id \in RowId, NEW a \in AlertId
    PROVE  /\ RaiseIncident(id) /\ Active(a)' =>
                  \/ Active(a) /\ alerts'[a].device = alerts[a].device
                  \/ alerts'[a].device = id
           /\ CloseIncident(id) /\ Active(a)' =>
                  Active(a) /\ alerts[a].device # id /\ alerts'[a] = alerts[a]
           /\ RefreshIncident(id) /\ Active(a)' =>
                  Active(a) /\ alerts'[a].device = alerts[a].device
<1>1. Active(a) => alerts[a] \in Alert
  BY DEF TypeOK, Active, NoAlert
<1>2. \A r \in Alert :
          /\ [r EXCEPT !.timeline = @ \cup {"ALERT_TRIGGERED"}].device = r.device
          /\ [r EXCEPT !.details = {}].device = r.device
          /\ [r EXCEPT !.status = "resolved", !.resolved_at = TRUE,
                       !.timeline = @ \cup {"ALERT_CLEARED"}].status = "resolved"
  BY DEF Alert
<1>3. ASSUME RaiseIncident(id), Active(a)'
      PROVE  \/ Active(a) /\ alerts'[a].device = alerts[a].device
             \/ alerts'[a].device = id
  <2>1. CASE ActiveOf(id) # {}
    <3>1. CASE a \in ActiveOf(id)
      BY <1>1, <1>2, <1>3, <2>1, <3>1 DEF RaiseIncident, ActiveOf
    <3>2. CASE a \notin ActiveOf(id)
      BY <1>3, <2>1, <3>2 DEF RaiseIncident, Active
    <3>3. QED
      BY <3>1, <3>2
  <2>2. CASE ActiveOf(id) = {}
    BY <1>3, <2>2 DEF RaiseIncident, NewAlert, Active, TypeOK
  <2>3. QED
    BY <2>1, <2>2
<1>4. ASSUME CloseIncident(id), Active(a)'
      PROVE  Active(a) /\ alerts[a].device # id /\ alerts'[a] = alerts[a]
  <2>1. CASE a \in ActiveOf(id)
    BY <1>1, <1>2, <1>4, <2>1 DEF CloseIncident, ActiveOf, Active
  <2>2. CASE a \notin ActiveOf(id)
    BY <1>4, <2>2 DEF CloseIncident, ActiveOf, Active
  <2>3. QED
    BY <2>1, <2>2
<1>5. ASSUME RefreshIncident(id), Active(a)'
      PROVE  Active(a) /\ alerts'[a].device = alerts[a].device
  <2>1. CASE a \in ActiveOf(id)
    BY <1>1, <1>2, <1>5, <2>1 DEF RefreshIncident, ActiveOf
  <2>2. CASE a \notin ActiveOf(id)
    BY <1>5, <2>2 DEF RefreshIncident, Active
  <2>3. QED
    BY <2>1, <2>2
<1>6. QED
  BY <1>3, <1>4, <1>5
-----------------------------------------------------------------------------
(* An active incident means the device is DOWN.                            *)
THEOREM ActiveIncidentMeansDown ==
    ASSUME Operator = {} PROVE Spec => []IncidentMeansDown
<1>1. Init => IncidentMeansDown
  BY DEF Init, IncidentMeansDown, Active, NoAlert
<1>2. TypeOK /\ IncidentMeansDown /\ [Next]_vars => IncidentMeansDown'
  <2> SUFFICES ASSUME TypeOK, IncidentMeansDown, [Next]_vars, NEW a \in AlertId, Active(a)'
               PROVE  device_state'[alerts'[a].device].current_state = "DOWN"
    BY DEF IncidentMeansDown
  <2>1. ASSUME Active(a), alerts'[a].device = alerts[a].device, UNCHANGED device_state
        PROVE  device_state'[alerts'[a].device].current_state = "DOWN"
    BY <2>1 DEF IncidentMeansDown
  <2>2. ASSUME alerts[a] # NoAlert, UNCHANGED device_state
        PROVE  device_state'[alerts'[a].device].current_state = "DOWN"
    <3>1. Active(a) /\ alerts'[a].device = alerts[a].device
      <4>1. alerts'[a] # NoAlert
        BY DEF Active, NoAlert
      <4>2. QED
        BY <2>2, <4>1, AlertKept DEF Keeps, Active
    <3>2. QED
      BY <2>1, <2>2, <3>1
  <2>3. Active(a) => alerts[a] # NoAlert /\ alerts[a].device \in RowId
    BY DEF Active, NoAlert, TypeOK, Alert
  <2>4. ASSUME NEW w \in Worker, Processes(worker[w].id, worker[w].ok)
        PROVE  device_state'[alerts'[a].device].current_state = "DOWN"
    <3> DEFINE id == worker[w].id
               ok == worker[w].ok
    <3>1. Processes(id, ok) /\ id \in RowId
      BY <2>4 DEF Processes
    <3> HIDE DEF id, ok
    <3>2. \A i \in RowId : i # id => device_state'[i] = device_state[i]
      BY <3>1 DEF Processes, TypeOK
    <3>3. CASE RaiseIncident(id) /\ device_state'[id].current_state = "DOWN"
      BY <2>3, <3>1, <3>2, <3>3, ActiveAfter DEF IncidentMeansDown
    <3>4. CASE CloseIncident(id)
      BY <2>3, <3>1, <3>2, <3>4, ActiveAfter DEF IncidentMeansDown
    <3>5. CASE RefreshIncident(id) /\ device_state'[id].current_state = "DOWN"
      BY <2>3, <3>1, <3>2, <3>5, ActiveAfter DEF IncidentMeansDown
    <3>6. CASE /\ device_state'[id].current_state = Stored(id).current_state
               /\ UNCHANGED alerts
      <4>1. Active(a) /\ alerts'[a].device = alerts[a].device
        BY <3>6 DEF Active
      <4>2. device_state[id].current_state = "DOWN" =>
                device_state'[id].current_state = "DOWN"
        BY <3>6 DEF Stored, NoState
      <4>3. QED
        BY <2>3, <3>1, <3>2, <4>1, <4>2 DEF IncidentMeansDown
    <3>7. QED
      BY <3>1, <3>3, <3>4, <3>5, <3>6 DEF Processes
  <2>5. ASSUME NEW h \in Host, DeleteDevice(h)
        PROVE  device_state'[alerts'[a].device].current_state = "DOWN"
    <3>1. alerts'[a] = alerts[a] /\ alerts[a].device # devices[h].id
      BY <2>5 DEF DeleteDevice, Active, NoAlert
    <3>2. Active(a)
      BY <3>1 DEF Active
    <3>3. QED
      BY <2>3, <2>5, <3>1, <3>2 DEF DeleteDevice, IncidentMeansDown, TypeOK
  <2>6. ASSUME NEW w \in Worker, Cleared(worker[w].id)
        PROVE  device_state'[alerts'[a].device].current_state = "DOWN"
    <3>1. alerts[a] # NoAlert
      <4>1. alerts[a] = NoAlert => a \notin Unresolved(worker[w].id)
        BY DEF Unresolved, NoAlert
      <4>2. alerts[a] = NoAlert => alerts'[a] = NoAlert
        BY <2>6, <4>1 DEF Cleared, ResolveAlert
      <4>3. QED
        BY <4>2 DEF Active, NoAlert
    <3>2. QED
      BY <2>2, <2>6, <3>1 DEF Cleared
  <2>7. ASSUME NEW b \in AlertId, ResolveAlertByID(b) \/ \E n \in Note : Annotate(b, n)
        PROVE  device_state'[alerts'[a].device].current_state = "DOWN"
    <3>1. UNCHANGED device_state
      BY <2>7 DEF ResolveAlertByID, Annotate
    <3>2. alerts[a] # NoAlert
      <4>1. alerts[b] # NoAlert
        BY <2>7 DEF ResolveAlertByID, Annotate
      <4>2. a # b => alerts'[a] = alerts[a]
        BY <2>7 DEF ResolveAlertByID, Annotate, TypeOK
      <4>3. Active(a)' => alerts'[a] # NoAlert
        BY DEF Active, NoAlert
      <4>4. QED
        BY <4>1, <4>2, <4>3
    <3>3. QED
      BY <2>2, <3>1, <3>2
  <2>8. CASE Quiet
    BY <2>1, <2>8 DEF Quiet, Active
  <2>9. QED
    BY <2>4, <2>5, <2>6, <2>7, <2>8, PollEffects
<1>3. QED
  BY <1>1, <1>2, TypeCorrect, PTL DEF Spec

(* The poller leaves DOWN only with the second success in a row: a stored  *)
(* success, and never two of them on a DOWN row (ThresholdsKept), plus the *)
(* one being processed.                                                    *)
THEOREM OutageEndsOnlyBySuccesses ==
    ASSUME Operator = {} PROVE Spec => OutageEndsBySuccesses
<1> DEFINE Ends(id) ==
        device_state[id].current_state = "DOWN" /\ device_state'[id] # NoState
        /\ device_state'[id].current_state # "DOWN"
<1>1. TypeOK /\ ThresholdsKept /\ [Next]_vars =>
          [\A id \in RowId :
              device_state[id].current_state = "DOWN" /\ device_state'[id] # NoState
              /\ device_state'[id].current_state # "DOWN" =>
                  device_state[id].successes = ClearThreshold - 1
                  /\ \E w \in Worker : worker[w].id = id /\ worker[w].ok]_vars
  <2> SUFFICES ASSUME TypeOK, ThresholdsKept, [Next]_vars, NEW id \in RowId, Ends(id)
               PROVE  /\ device_state[id].successes = ClearThreshold - 1
                      /\ \E w \in Worker : worker[w].id = id /\ worker[w].ok
    OBVIOUS
  <2>1. ASSUME NEW w \in Worker, Processes(worker[w].id, worker[w].ok)
        PROVE  /\ device_state[id].successes = ClearThreshold - 1
               /\ \E v \in Worker : worker[v].id = id /\ worker[v].ok
    <3>1. worker[w].id = id
      BY <2>1 DEF Processes, TypeOK
    <3>2. Stored(id) = device_state[id]
      BY DEF Stored, NoState
    <3>3. /\ worker[w].ok
          /\ device_state[id].successes + 1 >= ClearThreshold
      BY <2>1, <3>1, <3>2 DEF Processes
    <3>4. device_state[id].successes \in Nat /\ device_state[id].successes < ClearThreshold
      BY <2>1, <3>1, <3>2 DEF ThresholdsKept, Processes, StateRow
    <3>5. QED
      BY <3>1, <3>3, <3>4 DEF ClearThreshold
  <2>2. ASSUME NEW h \in Host, DeleteDevice(h) PROVE FALSE
    BY <2>2 DEF DeleteDevice, TypeOK
  <2>3. ASSUME UNCHANGED device_state PROVE FALSE
    BY <2>3
  <2>4. QED
    BY <2>1, <2>2, <2>3, PollEffects DEF Quiet, Cleared, ResolveAlertByID, Annotate
<1>2. QED
  BY <1>1, TypeCorrect, ThresholdsAreKept, PTL DEF Spec, OutageEndsBySuccesses

(* No silent outage.  An alert found active when the device falls counts,  *)
(* because TimelineTruthful says an active alert was never cleared.        *)
THEOREM NoSilentOutage ==
    ASSUME Operator = {} PROVE Spec => []OutageHasIncident
<1> DEFINE Told(id) == \E a \in AlertId : /\ alerts[a].device = id
                                          /\ "ALERT_CLEARED" \notin alerts[a].timeline
<1>1. Init => OutageHasIncident
  BY DEF Init, OutageHasIncident, NoState
<1>2. TypeOK /\ TimelineTruthful /\ OutageHasIncident /\ [Next]_vars => OutageHasIncident'
  <2> SUFFICES ASSUME TypeOK, TimelineTruthful, OutageHasIncident, [Next]_vars,
                      NEW id \in RowId, device_state'[id].current_state = "DOWN"
               PROVE  Told(id)'
    BY DEF OutageHasIncident
  <2>1. device_state[id].current_state = "DOWN" => Told(id)
    BY DEF OutageHasIncident
  <2>2. ASSUME Told(id), \A a \in AlertId :
                   alerts[a].device = id /\ "ALERT_CLEARED" \notin alerts[a].timeline =>
                       /\ alerts'[a].device = id
                       /\ "ALERT_CLEARED" \notin alerts'[a].timeline
        PROVE  Told(id)'
    BY <2>2
  <2>3. ASSUME UNCHANGED device_state, UNCHANGED alerts PROVE Told(id)'
    BY <2>1, <2>2, <2>3
  <2>4. \A a \in AlertId : alerts[a].device = id => alerts[a] \in Alert
    BY DEF TypeOK, NoAlert, RowId
  <2>5. \A r \in Alert :
            /\ [r EXCEPT !.timeline = @ \cup {"ALERT_TRIGGERED"}].device = r.device
            /\ [r EXCEPT !.timeline = @ \cup {"ALERT_TRIGGERED"}].timeline
                   = r.timeline \cup {"ALERT_TRIGGERED"}
            /\ [r EXCEPT !.details = {}].device = r.device
            /\ [r EXCEPT !.details = {}].timeline = r.timeline
            /\ [r EXCEPT !.resolved_at = TRUE].device = r.device
            /\ [r EXCEPT !.resolved_at = TRUE].timeline = r.timeline
            /\ [r EXCEPT !.status = "resolved", !.resolved_at = TRUE].device = r.device
            /\ [r EXCEPT !.status = "resolved", !.resolved_at = TRUE].timeline = r.timeline
            /\ \A n \in Note : /\ [r EXCEPT !.details = @ \cup {n}].device = r.device
                               /\ [r EXCEPT !.details = @ \cup {n}].timeline = r.timeline
    BY DEF Alert
  <2>6. ASSUME NEW w \in Worker, Processes(worker[w].id, worker[w].ok) PROVE Told(id)'
    <3> DEFINE i == worker[w].id
               ok == worker[w].ok
    <3>1. Processes(i, ok) /\ i \in RowId
      BY <2>6 DEF Processes
    <3> HIDE DEF i, ok
    <3>2. i # id => device_state'[id] = device_state[id]
      BY <3>1 DEF Processes, TypeOK
    <3>3. CASE RaiseIncident(i)
      <4>1. CASE ActiveOf(i) # {}
        <5>1. ASSUME NEW a \in AlertId, alerts[a].device = id,
                     "ALERT_CLEARED" \notin alerts[a].timeline
              PROVE  alerts'[a].device = id /\ "ALERT_CLEARED" \notin alerts'[a].timeline
          <6>1. \/ alerts'[a] = alerts[a]
                \/ alerts'[a] = [alerts[a] EXCEPT !.timeline = @ \cup {"ALERT_TRIGGERED"}]
            BY <3>3, <4>1 DEF RaiseIncident
          <6>2. alerts[a] \in Alert
            BY <2>4, <5>1
          <6>3. /\ alerts'[a].device = alerts[a].device
                /\ alerts'[a].timeline \subseteq alerts[a].timeline \cup {"ALERT_TRIGGERED"}
            BY <6>1, <6>2 DEF Alert
          <6>4. QED
            BY <5>1, <6>3
        <5>2. CASE i = id
          <6>1. PICK a \in AlertId : Active(a) /\ alerts[a].device = id
            BY <4>1, <5>2 DEF ActiveOf
          <6>2. "ALERT_CLEARED" \notin alerts[a].timeline
            BY <6>1 DEF TimelineTruthful, Active
          <6>3. QED
            BY <5>1, <6>1, <6>2
        <5>3. CASE i # id
          BY <2>1, <2>2, <3>2, <5>1, <5>3
        <5>4. QED
          BY <5>2, <5>3
      <4>2. CASE ActiveOf(i) = {}
        <5>1. PICK b \in AlertId : /\ alerts[b] = NoAlert
                                   /\ alerts' = [alerts EXCEPT ![b] =
                                          NewAlert(i, "device_down", {"ALERT_TRIGGERED"})]
          BY <3>3, <4>2 DEF RaiseIncident
        <5>2. alerts'[b].device = i /\ "ALERT_CLEARED" \notin alerts'[b].timeline
          BY <5>1 DEF TypeOK, NewAlert
        <5>3. ASSUME i # id PROVE Told(id)'
          <6>1. alerts[b].device # id
            BY <5>1 DEF NoAlert, RowId
          <6>2. \A a \in AlertId : a # b => alerts'[a] = alerts[a]
            BY <5>1 DEF TypeOK
          <6>3. QED
            BY <2>1, <3>2, <5>3, <6>1, <6>2
        <5>4. QED
          BY <5>2, <5>3
      <4>3. QED
        BY <4>1, <4>2
    <3>4. CASE CloseIncident(i) /\ device_state'[i].current_state = "UP"
      <4>1. i # id
        BY <3>4
      <4>2. \A a \in AlertId : alerts[a].device = id => alerts'[a] = alerts[a]
        BY <3>4, <4>1 DEF CloseIncident, ActiveOf
      <4>3. QED
        BY <2>1, <3>2, <4>1, <4>2
    <3>5. CASE RefreshIncident(i) /\ device_state[i].current_state = "DOWN"
      <4>1. \A a \in AlertId : alerts[a].device = id =>
                alerts'[a].device = id /\ alerts'[a].timeline = alerts[a].timeline
        BY <2>4, <2>5, <3>5 DEF RefreshIncident
      <4>2. QED
        BY <2>1, <3>2, <3>5, <4>1
    <3>6. CASE device_state'[i].current_state = Stored(i).current_state /\ UNCHANGED alerts
      <4>1. device_state[id].current_state = "DOWN"
        BY <3>1, <3>2, <3>6 DEF Processes
      <4>2. QED
        BY <2>1, <3>6, <4>1
    <3>7. QED
      BY <3>1, <3>3, <3>4, <3>5, <3>6 DEF Processes
  <2>7. ASSUME NEW w \in Worker, Cleared(worker[w].id) PROVE Told(id)'
    <3>1. \A a \in AlertId : alerts[a].device = id =>
              alerts'[a].device = id /\ alerts'[a].timeline = alerts[a].timeline
      BY <2>4, <2>5, <2>7 DEF Cleared, ResolveAlert
    <3>2. QED
      BY <2>1, <2>7, <3>1 DEF Cleared
  <2>8. ASSUME NEW h \in Host, DeleteDevice(h) PROVE Told(id)'
    <3>1. devices[h].id # id
      BY <2>8 DEF DeleteDevice, TypeOK, NoState
    <3>2. \A a \in AlertId : alerts[a].device = id => alerts'[a] = alerts[a]
      BY <2>8, <3>1 DEF DeleteDevice
    <3>3. device_state'[id] = device_state[id]
      BY <2>8, <3>1 DEF DeleteDevice, TypeOK
    <3>4. QED
      BY <2>1, <3>2, <3>3
  <2>9. ASSUME NEW b \in AlertId, NEW new, alerts' = [alerts EXCEPT ![b] = new],
               alerts[b].device = id => new.device = id /\ new.timeline = alerts[b].timeline,
               UNCHANGED device_state
        PROVE  Told(id)'
    <3>1. \A a \in AlertId : alerts[a].device = id =>
              alerts'[a].device = id /\ alerts'[a].timeline = alerts[a].timeline
      BY <2>9 DEF TypeOK
    <3>2. QED
      BY <2>1, <2>9, <3>1
  <2>10. ASSUME NEW b \in AlertId, ResolveAlertByID(b) PROVE Told(id)'
    <3>1. /\ alerts' = [alerts EXCEPT ![b] =
                           [alerts[b] EXCEPT !.status = "resolved", !.resolved_at = TRUE]]
          /\ UNCHANGED device_state
      BY <2>10 DEF ResolveAlertByID
    <3>2. QED
      BY <2>4, <2>5, <2>9, <3>1
  <2>11. ASSUME NEW b \in AlertId, NEW n \in Note, Annotate(b, n) PROVE Told(id)'
    <3>1. /\ alerts' = [alerts EXCEPT ![b] = [alerts[b] EXCEPT !.details = @ \cup {n}]]
          /\ UNCHANGED device_state
      BY <2>11 DEF Annotate
    <3>2. QED
      BY <2>4, <2>5, <2>9, <3>1
  <2>12. QED
    BY <2>3, <2>6, <2>7, <2>8, <2>10, <2>11, PollEffects DEF Quiet
<1>3. QED
  BY <1>1, <1>2, TypeCorrect, TimelineTrue, PTL DEF Spec

(* Annotations are lost only to another failure of a DOWN device.          *)
THEOREM AnnotationsAreKept ==
    ASSUME Operator = {} PROVE Spec => AnnotationsKept
<1> DEFINE Kept(a) ==
        \/ alerts'[a] = NoAlert
        \/ alerts[a].details \subseteq alerts'[a].details
        \/ /\ Active(a) /\ alerts'[a].status = "active"
           /\ device_state[alerts[a].device].current_state = "DOWN"
           /\ device_state'[alerts[a].device].failures > 0
<1>1. TypeOK /\ [Next]_vars =>
          [\A a \in AlertId :
              \/ alerts'[a] = NoAlert
              \/ alerts[a].details \subseteq alerts'[a].details
              \/ /\ Active(a) /\ alerts'[a].status = "active"
                 /\ device_state[alerts[a].device].current_state = "DOWN"
                 /\ device_state'[alerts[a].device].failures > 0]_vars
  <2> SUFFICES ASSUME TypeOK, [Next]_vars, NEW a \in AlertId
               PROVE  Kept(a)
    OBVIOUS
  <2>1. NoAlert.details = {}
    BY DEF NoAlert
  <2>2. \A r \in Alert :
            /\ [r EXCEPT !.timeline = @ \cup {"ALERT_TRIGGERED"}].details = r.details
            /\ [r EXCEPT !.status = "resolved", !.resolved_at = TRUE,
                         !.timeline = @ \cup {"ALERT_CLEARED"}].details = r.details
            /\ [r EXCEPT !.details = {}].status = r.status
            /\ [r EXCEPT !.resolved_at = TRUE].details = r.details
            /\ [r EXCEPT !.status = "resolved", !.resolved_at = TRUE].details = r.details
            /\ \A n \in Note : [r EXCEPT !.details = @ \cup {n}].details = r.details \cup {n}
    BY DEF Alert
  <2>3. CASE alerts[a] = NoAlert
    BY <2>1, <2>3
  <2>5. ASSUME NEW w \in Worker, Processes(worker[w].id, worker[w].ok), alerts[a] \in Alert
        PROVE  Kept(a)
    <3> DEFINE id == worker[w].id
               ok == worker[w].ok
    <3>1. Processes(id, ok)
      BY <2>5
    <3> HIDE DEF id, ok
    <3>2. CASE RaiseIncident(id)
      <4>1. \/ alerts'[a] = alerts[a]
            \/ alerts'[a] = [alerts[a] EXCEPT !.timeline = @ \cup {"ALERT_TRIGGERED"}]
            \/ alerts[a] = NoAlert
        BY <3>2 DEF RaiseIncident, TypeOK
      <4>2. \/ alerts'[a].details = alerts[a].details
            \/ alerts[a].details = {}
        BY <2>1, <2>5, <4>1 DEF Alert
      <4>3. QED
        BY <4>2
    <3>3. CASE CloseIncident(id)
      BY <2>2, <2>5, <3>3 DEF CloseIncident
    <3>4. CASE ~ok /\ RefreshIncident(id) /\ device_state[id].current_state = "DOWN"
      <4>1. CASE a \in ActiveOf(id)
        <5>1. Active(a) /\ alerts[a].device = id /\ alerts'[a].status = "active"
          BY <2>2, <2>5, <3>4, <4>1 DEF RefreshIncident, ActiveOf, Active
        <5>2. device_state'[id].failures = Cap(Stored(id).failures + 1)
          BY <3>1, <3>4 DEF Processes
        <5>3. Stored(id).failures \in Nat
          BY <3>1 DEF Processes, StateRow
        <5>4. Cap(Stored(id).failures + 1) > 0
          BY <5>3, BoundAssumption DEF Cap, FailThreshold
        <5>5. QED
          BY <3>4, <5>1, <5>2, <5>4
      <4>2. CASE a \notin ActiveOf(id)
        BY <3>4, <4>2 DEF RefreshIncident
      <4>3. QED
        BY <4>1, <4>2
    <3>5. CASE UNCHANGED alerts
      BY <3>5
    <3>6. QED
      BY <3>1, <3>2, <3>3, <3>4, <3>5 DEF Processes
  <2>6. ASSUME alerts[a] \in Alert PROVE Kept(a)
    <3>1. CASE Quiet
      BY <3>1 DEF Quiet
    <3>2. ASSUME NEW w \in Worker, Cleared(worker[w].id) PROVE Kept(a)
      BY <2>2, <2>6, <3>2 DEF Cleared, ResolveAlert
    <3>3. ASSUME NEW h \in Host, DeleteDevice(h) PROVE Kept(a)
      BY <3>3 DEF DeleteDevice
    <3>4. ASSUME NEW b \in AlertId, ResolveAlertByID(b) PROVE Kept(a)
      <4>1. alerts' = [alerts EXCEPT ![b] =
                          [alerts[b] EXCEPT !.status = "resolved", !.resolved_at = TRUE]]
        BY <3>4 DEF ResolveAlertByID
      <4>2. QED
        BY <2>2, <2>6, <4>1 DEF TypeOK
    <3>5. ASSUME NEW b \in AlertId, NEW n \in Note, Annotate(b, n) PROVE Kept(a)
      <4>1. alerts' = [alerts EXCEPT ![b] = [alerts[b] EXCEPT !.details = @ \cup {n}]]
        BY <3>5 DEF Annotate
      <4>2. QED
        BY <2>2, <2>6, <4>1 DEF TypeOK
    <3>6. QED
      BY <2>5, <2>6, <3>1, <3>2, <3>3, <3>4, <3>5, PollEffects
  <2>7. QED
    BY <2>3, <2>6 DEF TypeOK
<1>2. QED
  BY <1>1, TypeCorrect, PTL DEF Spec, AnnotationsKept
-----------------------------------------------------------------------------
(* The incidents that are open after each kind of statement.               *)
Open(id) == ActiveOf(id) # {}

(* Which incidents are open after each statement, in terms of which were   *)
(* open before it.                                                         *)
LEMMA OpenAfter ==
    ASSUME TypeOK, NEW id \in RowId, NEW i \in RowId
    PROVE  /\ RaiseIncident(id)   => (Open(i)' <=> i = id \/ Open(i))
           /\ CloseIncident(id)   => (Open(i)' <=> i # id /\ Open(i))
           /\ RefreshIncident(id) => (Open(i)' <=> Open(i))
<1>1. \A a \in AlertId : Active(a) => alerts[a] \in Alert
  BY DEF TypeOK, Active, NoAlert
<1>2. \A r \in Alert :
          /\ [r EXCEPT !.timeline = @ \cup {"ALERT_TRIGGERED"}].device = r.device
          /\ [r EXCEPT !.timeline = @ \cup {"ALERT_TRIGGERED"}].status = r.status
          /\ [r EXCEPT !.details = {}].device = r.device
          /\ [r EXCEPT !.details = {}].status = r.status
  BY DEF Alert
<1>3. ASSUME RaiseIncident(id) PROVE Open(i)' <=> i = id \/ Open(i)
  <2>1. CASE ActiveOf(id) # {}
    <3>1. \A a \in AlertId : /\ Active(a)' <=> Active(a)
                             /\ Active(a) => alerts'[a].device = alerts[a].device
      <4> SUFFICES ASSUME NEW a \in AlertId
                   PROVE  /\ Active(a)' <=> Active(a)
                          /\ Active(a) => alerts'[a].device = alerts[a].device
        OBVIOUS
      <4>1. CASE a \in ActiveOf(id)
        BY <1>1, <1>2, <1>3, <2>1, <4>1 DEF RaiseIncident, ActiveOf, Active
      <4>2. CASE a \notin ActiveOf(id)
        BY <1>3, <2>1, <4>2 DEF RaiseIncident, Active
      <4>3. QED
        BY <4>1, <4>2
    <3>2. QED
      BY <2>1, <3>1 DEF Open, ActiveOf
  <2>2. CASE ActiveOf(id) = {}
    <3>1. PICK b \in AlertId : /\ alerts[b] = NoAlert
                               /\ alerts' = [alerts EXCEPT ![b] =
                                      NewAlert(id, "device_down", {"ALERT_TRIGGERED"})]
      BY <1>3, <2>2 DEF RaiseIncident
    <3>2. Active(b)' /\ alerts'[b].device = id /\ ~Active(b)
      BY <3>1 DEF TypeOK, NewAlert, Active, NoAlert
    <3>3. \A a \in AlertId : a # b => alerts'[a] = alerts[a]
      BY <3>1 DEF TypeOK
    <3>4. QED
      BY <3>2, <3>3 DEF Open, ActiveOf, Active
  <2>3. QED
    BY <2>1, <2>2
<1>4. ASSUME CloseIncident(id) PROVE Open(i)' <=> i # id /\ Open(i)
  <2>1. ASSUME NEW a \in AlertId
        PROVE  Active(a)' /\ alerts'[a].device = i <=>
                   i # id /\ Active(a) /\ alerts[a].device = i
    <3>1. Active(a)' => Active(a) /\ alerts[a].device # id /\ alerts'[a] = alerts[a]
      BY <1>4, ActiveAfter
    <3>2. alerts[a].device # id => alerts'[a] = alerts[a]
      BY <1>4 DEF CloseIncident, ActiveOf
    <3>3. QED
      BY <3>1, <3>2 DEF Active
  <2>2. QED
    BY <2>1 DEF Open, ActiveOf
<1>5. ASSUME RefreshIncident(id) PROVE Open(i)' <=> Open(i)
  <2>1. ASSUME NEW a \in AlertId
        PROVE  /\ Active(a)' <=> Active(a)
               /\ Active(a) => alerts'[a].device = alerts[a].device
    <3>1. CASE a \in ActiveOf(id)
      BY <1>1, <1>2, <1>5, <3>1 DEF RefreshIncident, ActiveOf, Active
    <3>2. CASE a \notin ActiveOf(id)
      BY <1>5, <3>2 DEF RefreshIncident, Active
    <3>3. QED
      BY <3>1, <3>2
  <2>2. QED
    BY <2>1 DEF Open, ActiveOf
<1>6. QED
  BY <1>3, <1>4, <1>5

(* What the abstract specification sees.                                   *)
Avail  == [id \in RowId |-> device_state[id].current_state]
IsOpen == [id \in RowId |-> Open(id)]

(* Each step of the poller, the API or a deletion is one of Incident's     *)
(* five, or invisible to it.                                               *)
LEMMA StepRefines ==
    ASSUME Operator = {}, TypeOK, OneActiveIncident, IncidentMeansDown, [Next]_vars
    PROVE  [Abstract!Next]_(Abstract!vars)
<1>1. \A d \in RowId :
            /\ Abstract!Track(d) <=> /\ Avail[d] = "NONE"
                                     /\ Avail' = [Avail EXCEPT ![d] = "UNKNOWN"]
                                     /\ UNCHANGED IsOpen
            /\ Abstract!Fall(d) <=> /\ Avail[d] \in {"UNKNOWN", "UP"}
                                    /\ Avail' = [Avail EXCEPT ![d] = "DOWN"]
                                    /\ IsOpen' = [IsOpen EXCEPT ![d] = TRUE]
            /\ Abstract!Rise(d) <=> /\ Avail[d] = "DOWN"
                                    /\ Avail' = [Avail EXCEPT ![d] = "UP"]
                                    /\ IsOpen' = [IsOpen EXCEPT ![d] = FALSE]
            /\ Abstract!Dismiss(d) <=> /\ IsOpen[d]
                                       /\ IsOpen' = [IsOpen EXCEPT ![d] = FALSE]
                                       /\ UNCHANGED Avail
            /\ Abstract!Forget(d) <=> /\ Avail[d] # "NONE"
                                      /\ Avail' = [Avail EXCEPT ![d] = "NONE"]
                                      /\ IsOpen' = [IsOpen EXCEPT ![d] = FALSE]
  BY DEF Abstract!Track, Abstract!Fall, Abstract!Rise, Abstract!Dismiss,
         Abstract!Forget, Open, Avail, IsOpen
<1>2. ASSUME NEW d \in RowId, \/ Abstract!Track(d) \/ Abstract!Fall(d) \/ Abstract!Rise(d)
                              \/ Abstract!Dismiss(d) \/ Abstract!Forget(d)
      PROVE  Abstract!Next
  BY <1>2 DEF Abstract!Next
<1>3. ASSUME Avail' = Avail, IsOpen' = IsOpen PROVE UNCHANGED Abstract!vars
  BY <1>3 DEF Abstract!vars, Avail, IsOpen, Open
<1>4. /\ Avail' = [i \in RowId |-> device_state'[i].current_state]
      /\ IsOpen' = [i \in RowId |-> Open(i)']
  BY DEF Avail, IsOpen
<1>5. /\ Avail \in [RowId -> {"NONE"} \cup States] /\ IsOpen \in [RowId -> BOOLEAN]
      /\ \A i \in RowId : /\ Avail[i] = device_state[i].current_state
                          /\ Avail'[i] = device_state'[i].current_state
                          /\ IsOpen[i] = Open(i)
                          /\ IsOpen'[i] = Open(i)'
                          /\ Avail[i] = "NONE" <=> device_state[i] = NoState
  <2>1. \A s \in {NoState} \cup StateRow : /\ s.current_state \in {"NONE"} \cup States
                                           /\ s.current_state = "NONE" <=> s = NoState
    BY DEF StateRow, NoState, States
  <2>2. \A i \in RowId : device_state[i] \in {NoState} \cup StateRow
    BY DEF TypeOK
  <2>3. \A i \in RowId : Open(i) \in BOOLEAN
    BY DEF Open
  <2>4. \A i \in RowId : /\ Avail[i] = device_state[i].current_state
                         /\ Avail'[i] = device_state'[i].current_state
                         /\ IsOpen[i] = Open(i)
                         /\ IsOpen'[i] = Open(i)'
    BY <1>4 DEF Avail, IsOpen
  <2>5. Avail \in [RowId -> {"NONE"} \cup States]
    BY <2>1, <2>2 DEF Avail
  <2>6. IsOpen \in [RowId -> BOOLEAN]
    BY <2>3 DEF IsOpen
  <2>7. QED
    BY <2>1, <2>2, <2>4, <2>5, <2>6
<1>6. ASSUME \A i \in RowId : Open(i)' <=> Open(i) PROVE IsOpen' = IsOpen
  BY <1>4, <1>6 DEF IsOpen, Open
<1>7. ASSUME NEW id \in RowId, \A i \in RowId \ {id} : Open(i)' <=> Open(i)
      PROVE  /\ ~Open(id)' => IsOpen' = [IsOpen EXCEPT ![id] = FALSE]
             /\ Open(id)'  => IsOpen' = [IsOpen EXCEPT ![id] = TRUE]
  BY <1>4, <1>7 DEF IsOpen, Open
<1>8. ASSUME NEW id \in RowId, NEW s, device_state' = [device_state EXCEPT ![id] = s]
      PROVE  Avail' = [Avail EXCEPT ![id] = s.current_state]
  BY <1>4, <1>8 DEF Avail, TypeOK
<1>9. ASSUME UNCHANGED device_state PROVE Avail' = Avail
  BY <1>9 DEF Avail
<1>10. ASSUME NEW id \in RowId, NEW ok \in BOOLEAN, Processes(id, ok)
       PROVE  [Abstract!Next]_(Abstract!vars)
  <2> DEFINE t == device_state'[id].current_state
  <2>1. Processes(id, ok)
    BY <1>10
  <2>2. Avail' = [Avail EXCEPT ![id] = t]
    BY <1>8, <2>1 DEF Processes
  <2>3. Stored(id).current_state \in {"UNKNOWN", Avail[id]} /\ Stored(id).current_state \in States
    BY <1>5, <2>1 DEF Stored, NewState, Processes, StateRow
  <2>4. CASE /\ Stored(id).current_state # "DOWN" /\ t = "DOWN"
             /\ Stored(id).failures + 1 >= FailThreshold /\ RaiseIncident(id)
    <3>1. Avail[id] \in {"UNKNOWN", "UP"}
      BY <1>5, <2>1, <2>4 DEF Stored, NewState, FailThreshold, States
    <3>2. IsOpen' = [IsOpen EXCEPT ![id] = TRUE]
      BY <1>7, <2>1, <2>4, OpenAfter
    <3>3. Abstract!Fall(id)
      BY <1>1, <2>1, <2>2, <2>4, <3>1, <3>2
    <3>4. QED
      BY <1>2, <2>1, <3>3
  <2>5. CASE /\ device_state[id].current_state = "DOWN" /\ t = "UP" /\ CloseIncident(id)
    <3>1. IsOpen' = [IsOpen EXCEPT ![id] = FALSE]
      BY <1>7, <2>1, <2>5, OpenAfter
    <3>2. Abstract!Rise(id)
      BY <1>1, <1>5, <2>1, <2>2, <2>5, <3>1
    <3>3. QED
      BY <1>2, <2>1, <3>2
  <2>6. CASE /\ device_state[id].current_state = "DOWN" /\ t = "DOWN" /\ RefreshIncident(id)
    <3>1. IsOpen' = IsOpen
      BY <1>6, <2>1, <2>6, OpenAfter
    <3>2. Avail' = Avail
      BY <1>5, <2>1, <2>2, <2>6
    <3>3. QED
      BY <1>3, <3>1, <3>2
  <2>7. CASE t = Stored(id).current_state /\ UNCHANGED alerts
    <3>1. IsOpen' = IsOpen
      BY <2>7 DEF IsOpen, Open, ActiveOf, Active
    <3>2. CASE Avail[id] = "NONE"
      <4>1. t = "UNKNOWN"
        BY <1>5, <2>1, <2>7, <3>2 DEF Stored, NewState
      <4>2. Abstract!Track(id)
        BY <1>1, <2>1, <2>2, <3>1, <3>2, <4>1
      <4>3. QED
        BY <1>2, <2>1, <4>2
    <3>3. CASE Avail[id] # "NONE"
      <4>1. Avail' = Avail
        BY <1>5, <2>1, <2>2, <2>7, <3>3 DEF Stored
      <4>2. QED
        BY <1>3, <3>1, <4>1
    <3>4. QED
      BY <3>2, <3>3
  <2>8. QED
    BY <2>1, <2>4, <2>5, <2>6, <2>7 DEF Processes
<1>11. ASSUME NEW h \in Host, NEW id \in RowId, id = devices[h].id, DeleteDevice(h)
       PROVE  [Abstract!Next]_(Abstract!vars)
  <2>1. device_state' = [device_state EXCEPT ![id] = NoState]
    BY <1>11 DEF DeleteDevice
  <2>2. Avail' = [Avail EXCEPT ![id] = "NONE"]
    <3>1. NoState.current_state = "NONE"
      BY DEF NoState
    <3>2. QED
      BY <1>8, <2>1, <3>1
  <2>3. \A a \in AlertId : alerts'[a] = IF alerts[a].device = id THEN NoAlert ELSE alerts[a]
    BY <1>11 DEF DeleteDevice
  <2>4. ~Open(id)' /\ \A i \in RowId \ {id} : Open(i)' <=> Open(i)
    <3>1. \A a \in AlertId : /\ alerts[a].device = id => ~Active(a)'
                             /\ alerts[a].device # id => (Active(a)' <=> Active(a))
                             /\ alerts[a].device # id => alerts'[a] = alerts[a]
      BY <2>3 DEF Active, NoAlert
    <3>2. QED
      BY <3>1 DEF Open, ActiveOf
  <2>5. IsOpen' = [IsOpen EXCEPT ![id] = FALSE]
    BY <1>7, <2>1, <2>4
  <2>6. CASE Avail[id] # "NONE"
    BY <1>1, <1>2, <2>1, <2>2, <2>5, <2>6
  <2>7. CASE Avail[id] = "NONE"
    <3>1. ~Open(id)
      BY <1>5, <2>1, <2>7 DEF Open, ActiveOf, IncidentMeansDown
    <3>2. IsOpen' = IsOpen
      BY <1>6, <2>4, <3>1
    <3>3. Avail' = Avail
      BY <1>5, <2>1, <2>2, <2>7
    <3>4. QED
      BY <1>3, <3>2, <3>3
  <2>8. QED
    BY <2>6, <2>7
<1>12. ASSUME NEW a \in AlertId, NEW id \in RowId, id = alerts[a].device,
              ResolveAlertByID(a)
       PROVE  [Abstract!Next]_(Abstract!vars)
  <2>1. /\ alerts[a] \in Alert
        /\ alerts'[a].status = "resolved"
        /\ \A b \in AlertId \ {a} : alerts'[b] = alerts[b]
        /\ UNCHANGED device_state
    BY <1>12 DEF ResolveAlertByID, TypeOK, Alert
  <2>2. CASE Active(a)
    <3>1. \A b \in AlertId : Active(b) /\ alerts[b].device = id => b = a
      BY <1>12, <2>2 DEF OneActiveIncident
    <3>2. ~Open(id)'
      BY <2>1, <3>1 DEF Open, ActiveOf, Active
    <3>3. \A i \in RowId \ {id} : Open(i)' <=> Open(i)
      <4>1. alerts'[a].device = id
        <5>1. alerts' = [alerts EXCEPT ![a] =
                  [alerts[a] EXCEPT !.status = "resolved", !.resolved_at = TRUE]]
          BY <1>12 DEF ResolveAlertByID
        <5>2. [alerts[a] EXCEPT !.status = "resolved", !.resolved_at = TRUE].device = id
          BY <1>12, <2>1 DEF Alert
        <5>3. QED
          BY <5>1, <5>2 DEF TypeOK
      <4>2. QED
        BY <1>12, <2>1, <4>1 DEF Open, ActiveOf, Active
    <3>4. Open(id)
      BY <1>12, <2>2 DEF Open, ActiveOf
    <3>5. Abstract!Dismiss(id)
      BY <1>1, <1>5, <1>7, <1>9, <2>1, <3>2, <3>3, <3>4
    <3>6. QED
      BY <1>2, <2>1, <3>5
  <2>3. CASE ~Active(a)
    <3>1. \A i \in RowId : Open(i)' <=> Open(i)
      BY <2>1, <2>3 DEF Open, ActiveOf, Active
    <3>2. QED
      BY <1>3, <1>6, <1>9, <2>1, <3>1
  <2>4. QED
    BY <2>2, <2>3
<1>13. ASSUME \A a \in AlertId : /\ alerts'[a].status = alerts[a].status
                                 /\ alerts'[a].device = alerts[a].device,
              UNCHANGED device_state
       PROVE  [Abstract!Next]_(Abstract!vars)
  <2>1. \A i \in RowId : Open(i)' <=> Open(i)
    BY <1>13 DEF Open, ActiveOf, Active
  <2>2. QED
    BY <1>3, <1>6, <1>9, <1>13, <2>1
<1>14. \A r \in Alert :
           /\ [r EXCEPT !.resolved_at = TRUE].status = r.status
           /\ [r EXCEPT !.resolved_at = TRUE].device = r.device
           /\ \A n \in Note : /\ [r EXCEPT !.details = @ \cup {n}].status = r.status
                              /\ [r EXCEPT !.details = @ \cup {n}].device = r.device
  BY DEF Alert
<1>15. ASSUME NEW w \in Worker, Cleared(worker[w].id) PROVE [Abstract!Next]_(Abstract!vars)
  <2>1. \A a \in Unresolved(worker[w].id) : alerts[a] \in Alert
    BY DEF Unresolved, TypeOK, NoAlert
  <2>2. \A a \in AlertId : /\ alerts'[a].status = alerts[a].status
                           /\ alerts'[a].device = alerts[a].device
    BY <1>14, <1>15, <2>1 DEF Cleared, ResolveAlert
  <2>3. QED
    BY <1>13, <1>15, <2>2 DEF Cleared
<1>16. ASSUME NEW a \in AlertId, NEW n \in Note, Annotate(a, n)
       PROVE  [Abstract!Next]_(Abstract!vars)
  <2>1. alerts[a] \in Alert /\ UNCHANGED device_state
    BY <1>16 DEF Annotate, TypeOK
  <2>2. alerts' = [alerts EXCEPT ![a] = [alerts[a] EXCEPT !.details = @ \cup {n}]]
    BY <1>16 DEF Annotate
  <2>3. \A b \in AlertId : /\ alerts'[b].status = alerts[b].status
                           /\ alerts'[b].device = alerts[b].device
    BY <1>14, <2>1, <2>2 DEF TypeOK
  <2>4. QED
    BY <1>13, <2>1, <2>3
<1>17. CASE Quiet
  BY <1>13, <1>17 DEF Quiet
<1>18. ASSUME NEW w \in Worker, Processes(worker[w].id, worker[w].ok)
       PROVE  [Abstract!Next]_(Abstract!vars)
  <2>1. \E id \in RowId, ok \in BOOLEAN : id = worker[w].id /\ ok = worker[w].ok
    BY <1>18 DEF Processes
  <2>2. QED
    BY <1>10, <1>18, <2>1
<1>19. ASSUME NEW h \in Host, DeleteDevice(h) PROVE [Abstract!Next]_(Abstract!vars)
  <2>1. devices[h].id \in RowId
    BY <1>19 DEF DeleteDevice, TypeOK, NoDevice, DeviceRow
  <2>2. QED
    BY <1>11, <1>19, <2>1
<1>20. ASSUME NEW a \in AlertId, ResolveAlertByID(a) PROVE [Abstract!Next]_(Abstract!vars)
  <2>1. alerts[a].device \in RowId
    BY <1>20 DEF ResolveAlertByID, TypeOK, Alert
  <2>2. QED
    BY <1>12, <1>20, <2>1
<1>21. QED
  BY <1>15, <1>16, <1>17, <1>18, <1>19, <1>20, PollEffects

(* The poller with its workers, database and faults implements Incident.   *)
THEOREM PollerImplementsIncident ==
    ASSUME Operator = {} PROVE Spec => ImplementsIncident
<1>1. Init => Abstract!Init
  <2>1. Init => \A id \in RowId : /\ device_state[id].current_state = "NONE"
                                  /\ ActiveOf(id) = {}
    BY DEF Init, NoState, ActiveOf, Active, NoAlert
  <2>2. QED
    BY <2>1 DEF Abstract!Init
<1>2. QED
  BY <1>1, StepRefines, TypeCorrect, AtMostOneIncident, ActiveIncidentMeansDown, PTL
     DEF Spec, ImplementsIncident, Abstract!Spec
-----------------------------------------------------------------------------
(* A device that answers every probe, where no statement fails and nobody  *)
(* simulates.  Ids are not used twice, so that what a worker has in its    *)
(* hands belongs to the host it polls.                                     *)
Issued ==
    /\ \A h \in Host : devices[h].id <= lastId
    /\ \A g, h \in Host : g # h /\ devices[g].id # 0 => devices[g].id # devices[h].id
    /\ \A w \in Worker :
          /\ worker[w].sw <= lastId /\ worker[w].id <= lastId
          /\ worker[w].pc # "idle" =>
                \A h \in Host : h # worker[w].host /\ devices[h].id # 0 =>
                    devices[h].id # worker[w].sw /\ devices[h].id # worker[w].id

(* The network at the addresses that answer, and polls past their probe.   *)
Answered ==
    /\ \A i \in Addr \ Silent : net[i]
    /\ \A w \in Worker : worker[w].pc \in {"interfaces", "clear"} => worker[w].ok

(* A poll of h that may still charge a failure to the row of h: one that   *)
(* upserted an earlier row, and one that has failed already.               *)
MayCharge(w, h) ==
    /\ worker[w].host = h
    /\ \/ worker[w].pc = "interfaces" /\ worker[w].id # devices[h].id
       \/ worker[w].pc = "failed"
       \/ worker[w].pc = "process" /\ ~worker[w].ok /\ worker[w].id = devices[h].id

Late(h) == {w \in Worker : MayCharge(w, h)}

ChargedOnce(h) ==
    devices[h].id # 0 /\ Address[h] \notin Silent =>
        LET s == device_state[devices[h].id] IN
        /\ s.failures + Cardinality(Late(h)) <= Cardinality(Worker)
        /\ Cardinality(Worker) < FailThreshold => s.current_state # "DOWN"

AnswerInv == Issued /\ Answered /\ \A h \in Host : ChargedOnce(h)

(* Each is needed: a simulation, an upsert that fails, and an address      *)
(* shared by two rows (see the violation run alias) take down a device     *)
(* that answers.                                                           *)
Conditions == /\ Operator = {} /\ Faults = FALSE /\ IsFiniteSet(Worker)
              /\ \A g, h \in Host : Address[g] = Address[h] => g = h

LEMMA LateCount ==
    ASSUME IsFiniteSet(Worker)
    PROVE  /\ Cardinality(Worker) \in Nat
           /\ \A h : /\ Cardinality(Late(h)) \in Nat
                     /\ Cardinality(Late(h)) <= Cardinality(Worker)
                     /\ Cardinality(Late(h))' \in Nat
                     /\ Cardinality(Late(h))' <= Cardinality(Worker)
           /\ \A h : Late(h)' \subseteq Late(h) => Cardinality(Late(h))' <= Cardinality(Late(h))
           /\ \A h : \A w \in Late(h) : Late(h)' \subseteq Late(h) \ {w} =>
                 Cardinality(Late(h))' <= Cardinality(Late(h)) - 1
<1>1. \A h : IsFiniteSet(Late(h)) /\ Cardinality(Late(h)) <= Cardinality(Worker)
  BY FS_Subset DEF Late
<1>2. \A h : Late(h)' \subseteq Worker
  BY DEF Late
<1>3. \A h : IsFiniteSet(Late(h)') /\ Cardinality(Late(h)') <= Cardinality(Worker)
  BY <1>2, FS_Subset
<1>4. \A h : Late(h)' \subseteq Late(h) => Cardinality(Late(h)') <= Cardinality(Late(h))
  BY <1>1, FS_Subset
<1>5. ASSUME NEW h, NEW w \in Late(h), Late(h)' \subseteq Late(h) \ {w}
      PROVE  Cardinality(Late(h)') <= Cardinality(Late(h)) - 1
  <2>1. /\ IsFiniteSet(Late(h) \ {w})
        /\ Cardinality(Late(h) \ {w}) = Cardinality(Late(h)) - 1
    BY <1>1, FS_RemoveElement
  <2>2. QED
    BY <1>5, <2>1, FS_Subset
<1>6. QED
  BY <1>1, <1>3, <1>4, <1>5, FS_CardinalityType

(* A row that stays, with no further late poll.                            *)
LEMMA ChargedStays ==
    ASSUME TypeOK, Conditions, NEW h \in Host, ChargedOnce(h), devices[h].id # 0,
           devices'[h].id = devices[h].id,
           device_state'[devices[h].id] = device_state[devices[h].id],
           Address[h] \notin Silent => Late(h)' \subseteq Late(h)
    PROVE  ChargedOnce(h)'
<1> SUFFICES ASSUME Address[h] \notin Silent PROVE ChargedOnce(h)'
  BY DEF ChargedOnce
<1>1. devices[h].id \in RowId
  BY DEF TypeOK, DeviceRow, NoDevice
<1>2. device_state[devices[h].id].failures \in Nat
  BY <1>1, BoundAssumption DEF TypeOK, StateRow, NoState
<1>3. Cardinality(Late(h))' <= Cardinality(Late(h)) /\ Cardinality(Late(h)) \in Nat
      /\ Cardinality(Late(h))' \in Nat /\ Cardinality(Worker) \in Nat
  BY LateCount DEF Conditions
<1>4. /\ device_state[devices[h].id].failures + Cardinality(Late(h)) <= Cardinality(Worker)
      /\ Cardinality(Worker) < FailThreshold => device_state[devices[h].id].current_state # "DOWN"
  BY DEF ChargedOnce
<1>5. device_state[devices[h].id].failures + Cardinality(Late(h))' <= Cardinality(Worker)
  BY <1>2, <1>3, <1>4
<1>6. QED
  BY <1>4, <1>5 DEF ChargedOnce

(* A step of one worker that changes neither the ids nor the states.       *)
LEMMA WorkerMoves ==
    ASSUME TypeOK, Conditions, AnswerInv, NEW w \in Worker, NEW r,
           worker' = [worker EXCEPT ![w] = r],
           \A h \in Host : devices'[h].id = devices[h].id, UNCHANGED <<lastId, device_state, net>>,
           r.sw <= lastId, r.id <= lastId,
           r.pc # "idle" => \A h \in Host : h # r.host /\ devices[h].id # 0 =>
                                devices[h].id # r.sw /\ devices[h].id # r.id,
           r.pc \in {"interfaces", "clear"} => r.ok,
           \A h \in Host : devices[h].id # 0 /\ Address[h] \notin Silent =>
               (MayCharge(w, h)' => MayCharge(w, h))
    PROVE  AnswerInv'
<1>1. worker'[w] = r /\ \A v \in Worker \ {w} : worker'[v] = worker[v]
  BY DEF TypeOK
<1>2. Issued'
  BY <1>1 DEF AnswerInv, Issued
<1>3. Answered'
  BY <1>1 DEF AnswerInv, Answered
<1>4. ASSUME NEW h \in Host PROVE ChargedOnce(h)'
  <2>1. CASE devices[h].id = 0
    BY <2>1 DEF ChargedOnce
  <2>2. CASE devices[h].id # 0
    <3>1. Address[h] \notin Silent => Late(h)' \subseteq Late(h)
      BY <1>1, <2>2 DEF Late, MayCharge
    <3>2. QED
      BY <2>2, <3>1, ChargedStays DEF AnswerInv
  <2>3. QED
    BY <2>1, <2>2
<1>5. QED
  BY <1>2, <1>3, <1>4 DEF AnswerInv

(* A new row.                                                              *)
LEMMA RowInserted ==
    ASSUME TypeOK, NoOrphans, Conditions, AnswerInv, NEW g \in Host, NEW inserted, inserted.id = lastId + 1,
           devices[g].id = 0, CanInsert(g), devices' = [devices EXCEPT ![g] = inserted], lastId' = lastId + 1,
           UNCHANGED <<device_state, net>>,
           \/ UNCHANGED worker
           \/ \E w \in Worker : \E r :
                 /\ worker[w].host = g /\ worker[w].pc # "idle" /\ worker' = [worker EXCEPT ![w] = r]
                 /\ r.host = g /\ r.sw = worker[w].sw /\ r.id = lastId + 1 /\ r.ok = TRUE
                 /\ r.pc \in {"interfaces", "process"}
    PROVE  AnswerInv'
<1>1. devices'[g].id = lastId + 1 /\ \A h \in Host \ {g} : devices'[h] = devices[h]
  BY DEF TypeOK
<1>2. /\ lastId \in Nat /\ lastId + 1 \in RowId
      /\ \A h \in Host : devices[h].id \in Nat /\ devices[h].id <= lastId
  <2>1. \A h \in Host : devices[h].id \in Nat
    BY BoundAssumption DEF TypeOK, RowId, DeviceRow, NoDevice
  <2>2. lastId \in Nat /\ lastId + 1 \in RowId
    BY BoundAssumption DEF TypeOK, CanInsert, RowId
  <2>3. QED
    BY <2>1, <2>2 DEF AnswerInv, Issued
<1>3. device_state[lastId + 1] = NoState
  <2>1. ~Exists(lastId + 1)
    BY <1>2 DEF Exists
  <2>2. QED
    BY <1>2, <2>1 DEF NoOrphans
<1>4. \A v \in Worker :
          /\ worker[v].sw \in Nat /\ worker[v].id \in Nat
          /\ \/ worker'[v] = worker[v]
             \/ /\ worker[v].host = g /\ worker[v].pc # "idle"
                /\ worker'[v].host = g /\ worker'[v].sw = worker[v].sw
                /\ worker'[v].id = lastId + 1 /\ worker'[v].ok = TRUE
                /\ worker'[v].pc \in {"interfaces", "process"}
  <2>1. \A v \in Worker : worker[v] \in BusyWorker \cup {IdleWorker}
    BY DEF TypeOK
  <2>2. \A v \in Worker : worker[v].sw \in Nat /\ worker[v].id \in Nat
    BY <2>1, BoundAssumption DEF BusyWorker, IdleWorker
  <2>3. QED
    BY <2>2 DEF TypeOK
<1>5. Issued'
  <2>1. \A h \in Host : devices'[h].id <= lastId'
    BY <1>1, <1>2
  <2>2. \A h, k \in Host : h # k /\ devices'[h].id # 0 => devices'[h].id # devices'[k].id
    BY <1>1, <1>2 DEF AnswerInv, Issued
  <2>3. ASSUME NEW v \in Worker
        PROVE  /\ worker'[v].sw <= lastId' /\ worker'[v].id <= lastId'
               /\ worker'[v].pc # "idle" =>
                     \A h \in Host : h # worker'[v].host /\ devices'[h].id # 0 =>
                         devices'[h].id # worker'[v].sw /\ devices'[h].id # worker'[v].id
    <3>1. worker[v].sw <= lastId /\ worker[v].id <= lastId /\ worker[v].sw \in Nat /\ worker[v].id \in Nat
      BY <1>4 DEF AnswerInv, Issued
    <3>2. worker[v].pc # "idle" =>
              \A h \in Host : h # worker[v].host /\ devices[h].id # 0 =>
                  devices[h].id # worker[v].sw /\ devices[h].id # worker[v].id
      BY DEF AnswerInv, Issued
    <3>3. CASE worker'[v] = worker[v]
      BY <1>1, <1>2, <3>1, <3>2, <3>3
    <3>4. CASE worker'[v] # worker[v]
      BY <1>1, <1>2, <1>4, <3>1, <3>2, <3>4
    <3>5. QED
      BY <3>3, <3>4
  <2>4. QED
    BY <2>1, <2>2, <2>3 DEF Issued
<1>6. Answered'
  BY <1>4 DEF AnswerInv, Answered
<1>7. ASSUME NEW h \in Host PROVE ChargedOnce(h)'
  <2>1. CASE h = g
    <3>1. device_state'[devices'[h].id] = NoState
      BY <1>1, <1>3, <2>1
    <3>2. Cardinality(Late(h))' <= Cardinality(Worker) /\ Cardinality(Late(h))' \in Nat
      BY LateCount DEF Conditions
    <3>3. QED
      BY <3>1, <3>2 DEF ChargedOnce, NoState
  <2>2. CASE h # g /\ devices[h].id = 0
    BY <1>1, <2>2 DEF ChargedOnce
  <2>3. CASE h # g /\ devices[h].id # 0
    <3>1. Late(h)' \subseteq Late(h)
      BY <1>1, <1>4, <2>3 DEF Late, MayCharge
    <3>2. QED
      BY <1>1, <2>3, <3>1, ChargedStays DEF AnswerInv
  <2>4. QED
    BY <2>1, <2>2, <2>3
<1>8. QED
  BY <1>5, <1>6, <1>7 DEF AnswerInv

LEMMA AnswerPolls ==
    ASSUME TypeOK, NoOrphans, Conditions, AnswerInv, NEW w \in Worker, NEW g \in Host, Poll(w, g)
    PROVE  AnswerInv'
<1>1. PICK sw \in JobIds(g), pc \in ProbeOutcomes(Address[g]) :
          worker' = [worker EXCEPT ![w] = [pc |-> pc, host |-> g, sw |-> sw, id |-> 0, ok |-> FALSE]]
  BY DEF Poll
<1> DEFINE r == [pc |-> pc, host |-> g, sw |-> sw, id |-> 0, ok |-> FALSE]
<1>2. UNCHANGED <<devices, lastId, device_state, net>> /\ lastId \in Nat
  BY BoundAssumption DEF Poll, db, TypeOK
<1>3. sw = 0 \/ sw = devices[g].id
  BY DEF JobIds
<1>4. Address[g] \notin Silent => pc # "failed"
  BY HostAssumption DEF ProbeOutcomes, AnswerInv, Answered
<1>5. pc \in {"upsert", "upsert_partial", "failed"}
  BY DEF ProbeOutcomes
<1>6. /\ r.sw <= lastId /\ r.id <= lastId
      /\ \A h \in Host : h # r.host /\ devices[h].id # 0 => devices[h].id # r.sw /\ devices[h].id # r.id
  BY <1>2, <1>3 DEF AnswerInv, Issued
<1>7. \A h \in Host : Address[h] \notin Silent => ~MayCharge(w, h)'
  <2>1. worker'[w] = r
    BY <1>1 DEF TypeOK
  <2>2. QED
    BY <1>4, <1>5, <2>1 DEF MayCharge
<1>8. worker' = [worker EXCEPT ![w] = r] /\ r.pc \notin {"interfaces", "clear"}
  BY <1>1, <1>5
<1> HIDE DEF r
<1>9. QED
  BY <1>2, <1>6, <1>7, <1>8, WorkerMoves

(* The steps of a poll that keep its row and its id.                       *)
LEMMA PollGoesOn ==
    ASSUME TypeOK, Conditions, AnswerInv, NEW w \in Worker, NEW pc, worker[w].pc # "idle",
           worker' = [worker EXCEPT ![w].pc = pc], UNCHANGED <<devices, lastId, device_state, net>>,
           pc \in {"interfaces", "clear"} => worker[w].ok,
           \A h \in Host : worker[w].host = h /\ devices[h].id # 0 =>
               \/ pc \notin {"interfaces", "failed", "process"}
               \/ pc = "process" /\ worker[w].ok
               \/ MayCharge(w, h) /\ pc # "process"
    PROVE  AnswerInv'
<1> DEFINE r == [worker[w] EXCEPT !.pc = pc]
<1>1. worker[w] \in BusyWorker
  BY Busy
<1>2. /\ worker' = [worker EXCEPT ![w] = r]
      /\ r.pc = pc /\ r.host = worker[w].host /\ r.sw = worker[w].sw /\ r.id = worker[w].id /\ r.ok = worker[w].ok
  BY <1>1 DEF BusyWorker
<1> HIDE DEF r
<1>3. /\ r.sw <= lastId /\ r.id <= lastId
      /\ \A h \in Host : h # r.host /\ devices[h].id # 0 => devices[h].id # r.sw /\ devices[h].id # r.id
  BY <1>2 DEF AnswerInv, Issued
<1>4. ASSUME NEW h \in Host, devices[h].id # 0, MayCharge(w, h)' PROVE MayCharge(w, h)
  BY <1>2, <1>4 DEF MayCharge, TypeOK
<1>5. QED
  BY <1>2, <1>3, <1>4, WorkerMoves

(* A poll ends.                                                            *)
LEMMA PollEnds ==
    ASSUME TypeOK, Conditions, AnswerInv, NEW w \in Worker, worker' = [worker EXCEPT ![w] = IdleWorker],
           \A h \in Host : devices'[h].id = devices[h].id, UNCHANGED <<lastId, device_state, net>>
    PROVE  AnswerInv'
<1>1. lastId \in Nat
  BY BoundAssumption DEF TypeOK
<1>2. worker'[w] = IdleWorker
  BY DEF TypeOK
<1>3. \A h \in Host : ~MayCharge(w, h)'
  BY <1>2 DEF MayCharge, IdleWorker
<1>4. /\ IdleWorker.sw <= lastId /\ IdleWorker.id <= lastId
      /\ IdleWorker.pc = "idle"
  BY <1>1 DEF IdleWorker
<1>5. QED
  BY <1>3, <1>4, WorkerMoves

LEMMA AnswerUpserts ==
    ASSUME TypeOK, NoOrphans, Conditions, AnswerInv, NEW w \in Worker, PollUpsert(w)
    PROVE  AnswerInv'
<1> DEFINE g   == worker[w].host
           old == worker[w]
<1>1. old.pc \in {"upsert", "upsert_partial"} /\ old \in BusyWorker /\ g \in Host
      /\ UNCHANGED <<device_state, net>>
  BY Busy DEF PollUpsert
<1>2. Faults = FALSE /\ lastId \in Nat /\ old.sw <= lastId /\ old.id <= lastId
      /\ \A h \in Host : h # g /\ devices[h].id # 0 => devices[h].id # old.sw /\ devices[h].id # old.id
  BY <1>1, BoundAssumption DEF Conditions, AnswerInv, Issued, TypeOK
<1>3. ASSUME NEW id \in RowId, UpsertDevice(g, id),
             worker' = [worker EXCEPT ![w].id = id, ![w].ok = TRUE,
                                      ![w].pc = IF old.pc = "upsert" THEN "interfaces" ELSE "process"]
      PROVE  AnswerInv'
  <2> DEFINE r == [old EXCEPT !.id = id, !.ok = TRUE,
                              !.pc = IF old.pc = "upsert" THEN "interfaces" ELSE "process"]
  <2>1. worker' = [worker EXCEPT ![w] = r]
    BY <1>3
  <2>2. /\ r.host = g /\ r.sw = old.sw /\ r.id = id /\ r.ok = TRUE
        /\ r.pc \in {"interfaces", "process"}
    BY <1>1 DEF BusyWorker
  <2> HIDE DEF r, g
  <2>3. CASE devices[g].id # 0
    <3>1. id = devices[g].id /\ lastId' = lastId /\ devices' = [devices EXCEPT ![g].status = "active"]
      BY <1>3, <2>3 DEF UpsertDevice
    <3>2. \A h \in Host : devices'[h].id = devices[h].id
      BY <3>1 DEF TypeOK, DeviceRow, NoDevice
    <3>3. id <= lastId /\ \A h \in Host : h # g /\ devices[h].id # 0 => devices[h].id # id
      BY <1>1, <3>1 DEF AnswerInv, Issued
    <3>4. \A h \in Host : ~MayCharge(w, h)'
      BY <2>1, <2>2, <3>1, <3>2 DEF MayCharge, TypeOK
    <3>5. QED
      <4>1. /\ r.sw <= lastId /\ r.id <= lastId
            /\ \A h \in Host : h # r.host /\ devices[h].id # 0 => devices[h].id # r.sw /\ devices[h].id # r.id
        BY <1>2, <2>2, <3>1, <3>3 DEF g
      <4>2. UNCHANGED <<lastId, device_state, net>> /\ r.ok
        BY <1>1, <2>2, <3>1
      <4>3. QED
        BY <2>1, <3>2, <3>4, <4>1, <4>2, WorkerMoves
  <2>4. CASE devices[g].id = 0
    <3>1. PICK inserted : /\ CanInsert(g) /\ id = lastId + 1 /\ lastId' = lastId + 1
                     /\ inserted.id = lastId + 1 /\ devices' = [devices EXCEPT ![g] = inserted]
      BY <1>3, <2>4 DEF UpsertDevice
    <3>2. worker[w].host = g /\ worker[w].pc # "idle"
      BY <1>1 DEF g
    <3>3. QED
      BY <1>1, <2>1, <2>2, <2>4, <3>1, <3>2, RowInserted
  <2>5. QED
    BY <2>3, <2>4
<1>4. ASSUME devices[g].id = 0, UNCHANGED <<devices, lastId>>,
             worker' = [worker EXCEPT ![w].pc = "failed"] \/ worker' = [worker EXCEPT ![w] = IdleWorker]
      PROVE  AnswerInv'
  <2>1. CASE worker' = [worker EXCEPT ![w].pc = "failed"]
    BY <1>1, <1>4, <2>1, PollGoesOn
  <2>2. CASE worker' = [worker EXCEPT ![w] = IdleWorker]
    BY <1>1, <1>4, <2>2, PollEnds
  <2>3. QED
    BY <1>4, <2>1, <2>2
<1>5. QED
  BY <1>1, <1>2, <1>3, <1>4 DEF PollUpsert, Goto, Finish

LEMMA AnswerGoesOn ==
    ASSUME TypeOK, Conditions, AnswerInv, NEW w \in Worker, PollInterfaces(w) \/ PollClearAlert(w)
    PROVE  AnswerInv'
<1>1. CASE PollInterfaces(w)
  <2>1. worker[w].pc = "interfaces" /\ worker[w].ok /\ UNCHANGED <<devices, lastId, device_state, net>>
    BY <1>1 DEF PollInterfaces, db, AnswerInv, Answered
  <2>2. CASE Goto(w, "clear")
    <3> DEFINE pc == "clear"
    <3>1. worker' = [worker EXCEPT ![w].pc = pc] /\ worker[w].pc # "idle"
      BY <2>1, <2>2 DEF Goto
    <3>2. pc \notin {"interfaces", "failed", "process"}
      OBVIOUS
    <3> HIDE DEF pc
    <3>3. QED
      BY <2>1, <3>1, <3>2, PollGoesOn
  <2>3. CASE ~FkHolds(worker[w].id) /\ Goto(w, "failed")
    <3>1. \A h \in Host : worker[w].host = h /\ devices[h].id # 0 => MayCharge(w, h)
      BY <2>1, <2>3 DEF FkHolds, Exists, MayCharge
    <3>2. QED
      BY <2>1, <2>3, <3>1, PollGoesOn DEF Goto
  <2>4. QED
    BY <1>1, <2>2, <2>3 DEF PollInterfaces, Conditions
<1>2. CASE PollClearAlert(w)
  <2>1. /\ worker[w].pc = "clear" /\ worker[w].ok /\ UNCHANGED <<devices, lastId, device_state, net>>
        /\ worker' = [worker EXCEPT ![w].pc = "process"]
    BY <1>2 DEF PollClearAlert, Goto, AnswerInv, Answered
  <2>2. QED
    BY <2>1, PollGoesOn
<1>3. QED
  BY <1>1, <1>2

LEMMA AnswerFails ==
    ASSUME TypeOK, Conditions, AnswerInv, NEW w \in Worker, PollFailed(w)
    PROVE  AnswerInv'
<1> DEFINE g == worker[w].host
<1>1. worker[w].pc = "failed" /\ worker[w] \in BusyWorker /\ g \in Host
      /\ UNCHANGED <<devices, lastId, device_state, net>>
  BY Busy DEF PollFailed, db
<1>2. PICK id \in (IF worker[w].sw # 0 THEN {worker[w].sw} ELSE LookupIds(g)) :
          worker' = [worker EXCEPT ![w].id = id, ![w].ok = FALSE,
                                   ![w].pc = IF id # 0 THEN "process" ELSE "status"]
  BY DEF PollFailed, Conditions
<1>3. id = worker[w].sw \/ id = devices[g].id \/ id = 0
  <2>1. ASSUME devices[g].id = 0 PROVE AtAddress(g) = {}
    BY <1>1, <2>1 DEF AtAddress, Conditions
  <2>2. QED
    BY <1>2, <2>1 DEF LookupIds
<1>4. /\ id <= lastId /\ worker[w].sw <= lastId
      /\ \A h \in Host : h # g /\ devices[h].id # 0 => devices[h].id # worker[w].sw /\ devices[h].id # id
  <2>1. lastId \in Nat
    BY BoundAssumption DEF TypeOK
  <2>2. QED
    BY <1>1, <1>3, <2>1 DEF AnswerInv, Issued
<1> DEFINE r == [worker[w] EXCEPT !.id = id, !.ok = FALSE, !.pc = IF id # 0 THEN "process" ELSE "status"]
<1>5. /\ worker' = [worker EXCEPT ![w] = r]
      /\ r.host = g /\ r.sw = worker[w].sw /\ r.id = id /\ r.pc \in {"process", "status"}
  BY <1>1, <1>2 DEF BusyWorker
<1> HIDE DEF r
<1>6. \A h \in Host : MayCharge(w, h)' => MayCharge(w, h)
  BY <1>1, <1>5 DEF MayCharge, TypeOK
<1>7. QED
  BY <1>1, <1>4, <1>5, <1>6, WorkerMoves

(* A result is charged to the row of the host that was polled, and a       *)
(* failure by a poll that counts no longer as late.                        *)
LEMMA AnswerProcesses ==
    ASSUME TypeOK, Conditions, AnswerInv, NEW w \in Worker, ProcessPollResult(w)
    PROVE  AnswerInv'
<1>1. worker[w].pc = "process" /\ worker[w] \in BusyWorker
  BY Busy DEF ProcessPollResult
<1>2. PICK g \in Host, id \in 0..MaxRow, ok \in BOOLEAN :
          worker[w].host = g /\ worker[w].id = id /\ worker[w].ok = ok
  BY <1>1 DEF BusyWorker
<1>3. /\ worker[w].pc = "process" /\ worker[w] \in BusyWorker
      /\ worker[w].host = g /\ worker[w].id = id /\ worker[w].ok = ok
      /\ UNCHANGED <<devices, lastId, net>>
      /\ IF ok THEN worker' = [worker EXCEPT ![w] = IdleWorker]
               ELSE worker' = [worker EXCEPT ![w].pc = "status"]
  BY <1>1, <1>2 DEF ProcessPollResult, Finish, Goto
<1>4. CASE Rollback(id, ok)
  <2>1. UNCHANGED <<devices, lastId, device_state, net>>
    BY <1>3, <1>4 DEF Rollback
  <2>2. CASE ok
    BY <1>3, <2>1, <2>2, PollEnds
  <2>3. CASE ~ok
    <3> DEFINE pc == "status"
    <3>1. worker' = [worker EXCEPT ![w].pc = pc] /\ worker[w].pc # "idle"
      BY <1>3, <2>3
    <3>2. pc \notin {"interfaces", "failed", "process", "clear"}
      OBVIOUS
    <3> HIDE DEF pc
    <3>3. QED
      BY <2>1, <3>1, <3>2, PollGoesOn
  <2>4. QED
    BY <2>2, <2>3
<1>5. CASE Commit(id, ok)
  <2>1. FkHolds(id) /\ id # 0 /\ id = devices[g].id
    BY <1>3, <1>5 DEF Commit, FkHolds, Exists, AnswerInv, Issued
  <2>2. id \in RowId
    BY <2>1, FkHoldsRow
  <2>3. /\ worker'[w].pc \in {"idle", "status"} /\ (worker'[w].pc # "idle" => ~ok)
        /\ worker'[w].pc # "idle" => worker'[w].host = g /\ worker'[w].sw = worker[w].sw /\ worker'[w].id = id
        /\ worker'[w].pc = "idle" => worker'[w].sw = 0 /\ worker'[w].id = 0
        /\ \A v \in Worker \ {w} : worker'[v] = worker[v]
    BY <1>3 DEF TypeOK, BusyWorker, IdleWorker
  <2>4. lastId \in Nat
    BY BoundAssumption DEF TypeOK
  <2>5. Issued'
    BY <1>3, <2>3, <2>4 DEF AnswerInv, Issued
  <2>6. Answered'
    BY <1>3, <2>3 DEF AnswerInv, Answered
  <2>7. \A h \in Host : Late(h)' \subseteq Late(h) \ {w}
    BY <1>3, <2>3 DEF Late, MayCharge
  <2> DEFINE s == Stored(id)
             t == device_state'[id]
             f == device_state[id].failures
  <2>8. /\ device_state' = [device_state EXCEPT ![id] = t]
        /\ t.failures = IF ok THEN 0 ELSE Cap(s.failures + 1)
        /\ \/ t.current_state = s.current_state
           \/ t.current_state = "UP"
           \/ ~ok /\ s.failures + 1 >= FailThreshold
    BY <1>3, <1>5, <2>2, CommitCases
  <2>9. s.failures = f /\ f \in Nat
        /\ (device_state[id].current_state # "DOWN" => s.current_state # "DOWN")
    BY <2>2, BoundAssumption DEF Stored, NoState, NewState, TypeOK, StateRow
  <2>10. ASSUME NEW h \in Host, devices[h].id # 0, h # g PROVE ChargedOnce(h)'
    <3>1. devices[h].id # id
      BY <1>3, <2>1, <2>10 DEF AnswerInv, Issued
    <3>2. devices[h].id \in RowId
      BY <2>10 DEF TypeOK, DeviceRow, NoDevice
    <3>3. device_state'[devices[h].id] = device_state[devices[h].id]
      BY <2>8, <3>1, <3>2 DEF TypeOK
    <3>4. QED
      BY <1>3, <2>7, <2>10, <3>3, ChargedStays DEF AnswerInv
  <2>11. ASSUME Address[g] \notin Silent PROVE ChargedOnce(g)'
    <3> DEFINE n == Cardinality(Worker)
               k == Cardinality(Late(g))
               l == Cardinality(Late(g))'
    <3>1. n \in Nat /\ k \in Nat /\ l \in Nat /\ l <= k /\ l <= n
      BY <2>7, LateCount DEF Conditions
    <3>2. f + k <= n /\ (n < FailThreshold => device_state[id].current_state # "DOWN")
      BY <1>3, <2>1, <2>11 DEF AnswerInv, ChargedOnce
    <3>3. ~ok => l <= k - 1
      <4>1. ~ok => w \in Late(g)
        BY <1>3, <2>1 DEF Late, MayCharge
      <4>2. QED
        BY <1>3, <2>7, <4>1, LateCount DEF Conditions
    <3>4. Cap(f + 1) <= f + 1
      BY <2>9, BoundAssumption DEF Cap
    <3>5. devices'[g].id = id
      BY <1>3, <2>1
    <3> HIDE DEF n, k, l, s, f
    <3>6. t.failures + l <= n
      <4>1. CASE ok
        BY <2>8, <3>1, <4>1
      <4>2. CASE ~ok
        <5>1. t.failures <= f + 1 /\ t.failures = Cap(f + 1) /\ Cap(f + 1) \in Int
          BY <2>8, <2>9, <3>4, <4>2, BoundAssumption DEF Cap
        <5>2. QED
          BY <2>9, <3>1, <3>2, <3>3, <4>2, <5>1
      <4>3. QED
        BY <4>1, <4>2
    <3>7. n < FailThreshold => t.current_state # "DOWN"
      <4>1. ~ok => f + 1 <= n
        BY <2>9, <3>1, <3>2, <3>3
      <4>2. n < FailThreshold => ~(~ok /\ s.failures + 1 >= FailThreshold)
        BY <2>9, <3>1, <4>1 DEF FailThreshold
      <4>3. QED
        BY <2>8, <2>9, <3>2, <4>2
    <3>8. QED
      BY <3>5, <3>6, <3>7 DEF ChargedOnce, n, l
  <2>12. ASSUME NEW h \in Host PROVE ChargedOnce(h)'
    <3>1. CASE devices[h].id = 0 \/ Address[h] \in Silent
      BY <1>3, <3>1 DEF ChargedOnce
    <3>2. QED
      BY <2>10, <2>11, <3>1
  <2>13. QED
    BY <2>5, <2>6, <2>12 DEF AnswerInv
<1>6. QED
  BY <1>3, <1>4, <1>5 DEF ProcessPollResult

LEMMA AnswerMarksError ==
    ASSUME TypeOK, Conditions, AnswerInv, NEW w \in Worker, PollMarkError(w)
    PROVE  AnswerInv'
<1>1. worker' = [worker EXCEPT ![w] = IdleWorker] /\ UNCHANGED <<lastId, device_state, net>>
  BY DEF PollMarkError, Finish
<1>2. \A h \in Host : devices'[h].id = devices[h].id
  <2>1. \A r \in {NoDevice} \cup DeviceRow : [r EXCEPT !.status = "error"].id = r.id
    BY DEF NoDevice, DeviceRow
  <2>2. QED
    BY <2>1 DEF PollMarkError, UpdateDeviceStatus, TypeOK
<1>3. QED
  BY <1>1, <1>2, PollEnds

(* A row that is deleted is no longer charged, and no poll becomes late    *)
(* for another one.                                                        *)
LEMMA AnswerApi ==
    ASSUME TypeOK, NoOrphans, Conditions, AnswerInv, ApiStep
    PROVE  AnswerInv'
<1>1. ASSUME NEW g \in Host, RegisterDevice(g) PROVE AnswerInv'
  <2> DEFINE inserted == [id |-> lastId + 1, status |-> "pending", config |-> TRUE]
  <2>1. /\ devices[g].id = 0 /\ CanInsert(g) /\ lastId' = lastId + 1 /\ inserted.id = lastId + 1
        /\ devices' = [devices EXCEPT ![g] = inserted] /\ UNCHANGED <<device_state, net>> /\ UNCHANGED worker
    BY <1>1 DEF RegisterDevice
  <2> HIDE DEF inserted
  <2>2. QED
    BY <2>1, RowInserted
<1>2. ASSUME NEW g \in Host, DeleteDevice(g) PROVE AnswerInv'
  <2> DEFINE id == devices[g].id
  <2>1. /\ id # 0 /\ UNCHANGED <<lastId, worker, net>>
        /\ devices'[g].id = 0 /\ \A h \in Host \ {g} : devices'[h] = devices[h]
        /\ device_state' = [device_state EXCEPT ![id] = NoState]
    BY <1>2 DEF DeleteDevice, TypeOK, NoDevice
  <2>2. lastId \in Nat
    BY BoundAssumption DEF TypeOK
  <2>3. Issued'
    BY <2>1, <2>2 DEF AnswerInv, Issued
  <2>4. Answered'
    BY <2>1 DEF AnswerInv, Answered
  <2>5. ASSUME NEW h \in Host PROVE ChargedOnce(h)'
    <3>1. CASE h = g \/ devices[h].id = 0
      BY <2>1, <3>1 DEF ChargedOnce
    <3>2. CASE h # g /\ devices[h].id # 0
      <4>1. devices[h].id \in RowId /\ devices[h].id # id
        BY <2>1, <3>2 DEF AnswerInv, Issued, TypeOK, DeviceRow, NoDevice
      <4>2. device_state'[devices[h].id] = device_state[devices[h].id]
        BY <2>1, <4>1 DEF TypeOK
      <4>3. Late(h)' \subseteq Late(h)
        BY <2>1, <3>2 DEF Late, MayCharge
      <4>4. QED
        BY <2>1, <3>2, <4>2, <4>3, ChargedStays DEF AnswerInv
    <3>3. QED
      BY <3>1, <3>2
  <2>6. QED
    BY <2>3, <2>4, <2>5 DEF AnswerInv
<1>3. ASSUME UNCHANGED <<devices, lastId, device_state, worker, net>> PROVE AnswerInv'
  BY <1>3 DEF AnswerInv, Issued, Answered, ChargedOnce, Late, MayCharge
<1>4. QED
  BY <1>1, <1>2, <1>3 DEF ApiStep, ResolveAlertByID, Annotate

(* Every step keeps the invariant.                                         *)
LEMMA AnswerStep ==
    ASSUME TypeOK, NoOrphans, Conditions, AnswerInv, [Next]_vars
    PROVE  AnswerInv'
<1>1. ASSUME NEW w \in Worker, NEW h \in Host, Poll(w, h) PROVE AnswerInv'
  BY <1>1, AnswerPolls
<1>2. ASSUME NEW w \in Worker, WorkerStep(w) PROVE AnswerInv'
  BY <1>2, AnswerUpserts, AnswerGoesOn, AnswerFails, AnswerProcesses, AnswerMarksError DEF WorkerStep
<1>3. ASSUME NEW i \in Silent, Network(i) PROVE AnswerInv'
  <2>1. \A j \in Addr \ Silent : net'[j] = net[j]
    BY <1>3, SilentAssumption DEF Network, TypeOK
  <2>2. UNCHANGED <<devices, lastId, device_state, worker>>
    BY <1>3 DEF Network, db
  <2>3. QED
    BY <2>1, <2>2 DEF AnswerInv, Issued, Answered, ChargedOnce, Late, MayCharge
<1>4. CASE UNCHANGED vars
  BY <1>4 DEF vars, AnswerInv, Issued, Answered, ChargedOnce, Late, MayCharge
<1>5. QED
  <2>1. Operator = {} /\ \A w \in Worker : ~Abort(w)
    BY DEF Conditions, Abort
  <2>2. QED
    BY <1>1, <1>2, <1>3, <1>4, <2>1, AnswerApi DEF Next

LEMMA AnswerInit == ASSUME Init PROVE AnswerInv
<1>1. \A h \in Host : devices[h].id = 0
  BY DEF Init, NoDevice
<1>2. \A w \in Worker : worker[w].sw = 0 /\ worker[w].id = 0 /\ worker[w].pc = "idle"
  BY DEF Init, IdleWorker
<1>3. lastId = 0 /\ \A i \in Addr : net[i]
  BY DEF Init
<1>4. QED
  BY <1>1, <1>2, <1>3 DEF AnswerInv, Issued, Answered, ChargedOnce

(* What the invariant says without the polls that may still come.          *)
LEMMA ChargedBelow ==
    ASSUME TypeOK, Conditions, AnswerInv, NEW h \in Host, devices[h].id # 0, Address[h] \notin Silent
    PROVE  /\ device_state[devices[h].id].failures <= Cardinality(Worker)
           /\ Cardinality(Worker) < FailThreshold =>
                  device_state[devices[h].id].current_state # "DOWN"
<1>1. devices[h].id \in RowId
  BY DEF TypeOK, DeviceRow, NoDevice
<1>2. device_state[devices[h].id].failures \in Nat
  BY <1>1, BoundAssumption DEF TypeOK, StateRow, NoState
<1>3. Cardinality(Late(h)) \in Nat /\ Cardinality(Worker) \in Nat
  BY LateCount DEF Conditions
<1>4. QED
  BY <1>2, <1>3 DEF AnswerInv, ChargedOnce

(* A device that answers every probe is charged with a failure at most     *)
(* once by each worker after it was registered, and with fewer workers     *)
(* than the threshold it is never taken DOWN (service.go: an interface     *)
(* statement that finds its row deleted, and markDeviceFailure, which      *)
(* finds the new row by its hostname).                                     *)
FailuresPerWorker ==
    \A h \in Host : devices[h].id # 0 /\ Address[h] \notin Silent =>
        LET s == device_state[devices[h].id] IN
        /\ s.failures <= Cardinality(Worker)
        /\ Cardinality(Worker) < FailThreshold => s.current_state # "DOWN"

THEOREM ChargedOncePerWorker == ASSUME Conditions PROVE Spec => []FailuresPerWorker
<1>1. Init => AnswerInv
  BY AnswerInit
<1>2. TypeOK /\ NoOrphans /\ AnswerInv /\ [Next]_vars => AnswerInv'
  BY AnswerStep
<1>3. TypeOK /\ AnswerInv => FailuresPerWorker
  BY ChargedBelow DEF FailuresPerWorker
<1>4. QED
  BY <1>1, <1>2, <1>3, TypeCorrect, NothingOrphaned, PTL DEF Spec

(* The same of the condition explored beside the others.                   *)
THEOREM AnsweringDevicesStayUp == ASSUME Conditions PROVE EitherSpec => []AnsweringStaysUp
<1> DEFINE A == condition = "answering"
<1>1. EitherInit /\ A => Init
  BY DEF EitherInit
<1>2. A /\ [EitherNext]_<<condition, vars, historyVars>> => A' /\ [Next]_vars
  BY DEF EitherNext, vars
<1>3. ~A /\ [EitherNext]_<<condition, vars, historyVars>> => ~A'
  BY DEF EitherNext
<1>4. FailuresPerWorker \/ ~A => AnsweringStaysUp
  BY DEF FailuresPerWorker, AnsweringStaysUp
<1> HIDE DEF A
<1>5. QED
  BY <1>1, <1>2, <1>3, <1>4, ChargedOncePerWorker, PTL DEF EitherSpec, Spec
=============================================================================
