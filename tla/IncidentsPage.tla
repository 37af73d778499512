--------------------------- MODULE IncidentsPage ---------------------------
(***************************************************************************)
(* The page /incidents (web/src/app/components/Incidents.tsx) over         *)
(* incidentAPI (web/src/app/lib/api.ts).  A handler runs without           *)
(* interruption up to its next await; between its requests the user clicks *)
(* on, other handlers run and the poller changes the alerts.  What a       *)
(* handler took from its render (the tab, the open timelines) stays what   *)
(* it was when the user clicked.                                           *)
(***************************************************************************)
EXTENDS Naturals, FiniteSets

CONSTANTS
    Alert,        \* alerts, numbered in the order they were triggered
    Limit,        \* the most alerts an answer holds
    Call,         \* bound: handlers with a request in flight
    Tabs,         \* the tabs the user visits
    Buttons,      \* the buttons the user presses
    Faults        \* BOOLEAN: requests may fail

IncidentsPageAssumption ==
    /\ Alert \subseteq Nat \ {0} /\ Limit \in Nat \ {0}
    /\ Tabs \subseteq {"open", "resolved", "all"} /\ "open" \in Tabs
    /\ Buttons \subseteq {"acknowledge", "resolve", "assign", "mute", "comment",
                          "simulateDown", "simulateRecover", "timeline"}
    /\ Faults \in BOOLEAN

VARIABLES
    alerts,       \* the rows, as GET /api/alerts shows them
    tab, incidents, loading, submitting, dialog, draft,
    timeline,     \* per incident: shown, being loaded, in the cache
    calls         \* the handlers waiting for an answer

page == <<tab, incidents, loading, submitting, dialog, draft, timeline>>
vars == <<alerts, page, calls>>

NoAlert == 0
Dialogs == {"assign", "mute", "comment"}
Closed  == [kind |-> "none", id |-> NoAlert]
Idle    == [op |-> "none"]
-----------------------------------------------------------------------------
(* incidentAPI.list.                                                       *)
With(status)  == {a \in Alert : alerts[a].status = status}
Existing      == {a \in Alert : alerts[a].status # "none"}
mapIncidentByOpen(a) == \* mutant
    [id |-> a, status |-> IF alerts[a].status = "open" THEN "open" ELSE "resolved", ack |-> alerts[a].ack]
mapIncident(a) == [id |-> a, status |-> IF alerts[a].status = "active" THEN "open" ELSE "resolved",
                   ack |-> alerts[a].ack]
Listed(rows) == {mapIncident(a) : a \in rows}

(* The rows of a status, newest first, up to the limit (ListAlertsAPI).    *)
Answers(status) == {rows \in SUBSET With(status) : /\ Cardinality(rows) <= Limit
    /\ \A a \in With(status) \ rows : Cardinality(rows) = Limit /\ \A b \in rows : a < b}

(* The first query takes the resolved alerts for that tab and the active   *)
(* ones for every other; "all" goes on with the resolved ones.             *)
FirstQueryByOpen(t) == IF t = "open" THEN "active" ELSE "resolved" \* mutant
FirstQuery(t) == IF t = "resolved" THEN "resolved" ELSE "active"
SecondQuery   == "resolved"

(* An empty answer for the open tab is asked again of the overview, whose  *)
(* rows count as acknowledged by the system.                               *)
Fallback == {[id |-> a, status |-> "open", ack |-> TRUE] : a \in With("active")}

NewLoad(t, submit) == [op |-> "load", tab |-> t, phase |-> "first", got |-> {},
                       known |-> Existing, submit |-> submit]

loadIncidents(c, t) == calls' = [calls EXCEPT ![c] = NewLoad(t, FALSE)]

AnswerFirst(c) ==
    /\ calls[c].op = "load" /\ calls[c].phase = "first"
    /\ \E rows \in Answers(FirstQuery(calls[c].tab)) :
          LET again == calls[c].tab = "all" \/ (calls[c].tab = "open" /\ rows = {})
          IN calls' = [calls EXCEPT ![c].got = Listed(rows),
                                    ![c].phase = IF again THEN "second" ELSE "answered"]
    /\ UNCHANGED <<alerts, page>>

AnswerSecond(c) ==
    /\ calls[c].op = "load" /\ calls[c].phase = "second"
    /\ \E got \in (IF calls[c].tab = "all" THEN {calls[c].got \cup Listed(rows) : rows \in Answers(SecondQuery)}
                                           ELSE {Fallback})
                  \cup (IF Faults /\ calls[c].tab = "open" THEN {{}} ELSE {}) :
          calls' = [calls EXCEPT ![c].got = got, ![c].phase = "answered"]
    /\ UNCHANGED <<alerts, page>>

(* The rest of loadIncidents; "shown" is FALSE in its catch block.         *)
Loaded(c, shown) ==
    /\ IF shown THEN incidents' = calls[c].got ELSE UNCHANGED incidents
    /\ loading' = FALSE
    /\ submitting' = (submitting /\ ~calls[c].submit)
    /\ calls' = [calls EXCEPT ![c] = Idle]
    /\ UNCHANGED <<alerts, tab, dialog, draft, timeline>>

DeliverLoad(c) == calls[c].op = "load" /\ calls[c].phase = "answered" /\ Loaded(c, TRUE)
FailLoad(c)    == Faults /\ calls[c].op = "load" /\ Loaded(c, FALSE)
-----------------------------------------------------------------------------
(* What the page shows and offers.                                         *)
resolvedIncidents == {i \in incidents : i.status = "resolved"}
Screen == IF loading THEN "loading" ELSE IF incidents = {} THEN "empty" ELSE "list"

Offered(i) ==
    IF i.status = "open"
    THEN {"resolve"} \cup Dialogs \cup (IF i.ack THEN {} ELSE {"acknowledge"})
    ELSE {}
Reachable(op, a) ==
    /\ Screen = "list" /\ dialog = Closed /\ op \in Buttons
    /\ \E i \in incidents : i.id = a /\ op \in Offered(i)
MaySubmitAgain(kind) == dialog.kind = kind /\ draft[kind] \* mutant
MaySubmit(kind) == dialog.kind = kind /\ ~submitting /\ draft[kind]
-----------------------------------------------------------------------------
(* Handlers up to their first await.                                       *)
Free(c) == calls[c] = Idle
Start(c, op, a) ==
    calls' = [calls EXCEPT ![c] = [op |-> op, id |-> a, tab |-> tab, done |-> FALSE,
                                   reread |-> a \in Alert /\ timeline[a].open]]

SelectTab(c, t) ==
    /\ Free(c) /\ dialog = Closed /\ t # tab
    /\ tab' = t
    /\ loadIncidents(c, t)
    /\ UNCHANGED <<alerts, incidents, loading, submitting, dialog, draft, timeline>>

handleAcknowledge(c, a) ==
    Free(c) /\ Reachable("acknowledge", a) /\ Start(c, "acknowledge", a) /\ UNCHANGED <<alerts, page>>
handleResolve(c, a) ==
    Free(c) /\ Reachable("resolve", a) /\ Start(c, "resolve", a) /\ UNCHANGED <<alerts, page>>
handleSimulate(c, op) ==
    Free(c) /\ dialog = Closed /\ op \in Buttons /\ Start(c, op, NoAlert) /\ UNCHANGED <<alerts, page>>

OpenDialog(kind, a) ==
    /\ Reachable(kind, a)
    /\ dialog' = [kind |-> kind, id |-> a]
    /\ UNCHANGED <<alerts, tab, incidents, loading, submitting, draft, timeline, calls>>

(* Cancel, or a click outside: what was typed stays in the field.          *)
CancelDialog ==
    /\ dialog # Closed
    /\ dialog' = Closed
    /\ UNCHANGED <<alerts, tab, incidents, loading, submitting, draft, timeline, calls>>

EditDraft(kind) ==
    /\ dialog.kind = kind
    /\ draft' = [draft EXCEPT ![kind] = ~@]
    /\ UNCHANGED <<alerts, tab, incidents, loading, submitting, dialog, timeline, calls>>

(* submitAssign, submitMute and submitComment.                             *)
Submit(c, kind) ==
    /\ Free(c) /\ MaySubmit(kind)
    /\ submitting' = TRUE
    /\ Start(c, kind, dialog.id)
    /\ UNCHANGED <<alerts, tab, incidents, loading, dialog, draft, timeline>>

toggleTimeline(c, a) ==
    /\ Screen = "list" /\ dialog = Closed /\ "timeline" \in Buttons /\ \E i \in incidents : i.id = a
    /\ LET load == ~timeline[a].open /\ ~timeline[a].cached
       IN /\ timeline' = [timeline EXCEPT ![a].open = ~@, ![a].loading = @ \/ load]
          /\ IF load
             THEN /\ Free(c)
                  /\ calls' = [calls EXCEPT ![c] = [op |-> "timeline", id |-> a, submit |-> FALSE]]
             ELSE UNCHANGED calls
    /\ UNCHANGED <<alerts, tab, incidents, loading, submitting, dialog, draft>>
-----------------------------------------------------------------------------
(* The server executes a request; its answer is on the way.                *)
Execute(c) ==
    /\ calls[c].op \in {"acknowledge", "resolve", "assign", "mute", "comment",
                        "simulateDown", "simulateRecover"}
    /\ ~calls[c].done
    /\ calls' = [calls EXCEPT ![c].done = TRUE]
    /\ LET a == calls[c].id IN
       CASE calls[c].op = "acknowledge" -> alerts' = [alerts EXCEPT ![a].ack = TRUE]
         [] calls[c].op = "resolve"     -> alerts' = [alerts EXCEPT ![a].status = "resolved"]
         [] calls[c].op = "simulateDown" ->
              \/ UNCHANGED alerts
              \/ \E n \in With("none") : alerts' = [alerts EXCEPT ![n].status = "active"]
         [] calls[c].op = "simulateRecover" ->
              \/ UNCHANGED alerts
              \/ \E n \in With("active") : alerts' = [alerts EXCEPT ![n].status = "resolved"]
         [] OTHER -> UNCHANGED alerts
    /\ UNCHANGED page

(* The poller raises an alert, or resolves one.                            *)
Poller ==
    /\ \E a \in Alert :
          \/ alerts[a].status = "none" /\ alerts' = [alerts EXCEPT ![a].status = "active"]
          \/ alerts[a].status = "active" /\ alerts' = [alerts EXCEPT ![a].status = "resolved"]
    /\ UNCHANGED <<page, calls>>
-----------------------------------------------------------------------------
(* Handlers after their first await.                                       *)
Clear(kind) ==
    /\ dialog' = IF dialog.kind = kind THEN Closed ELSE dialog
    /\ draft' = [draft EXCEPT ![kind] = (kind = "mute")]

(* Acknowledge, resolve, simulate: reload the tab the user clicked in.     *)
Acted(c) ==
    /\ calls[c].op \in {"acknowledge", "resolve", "simulateDown", "simulateRecover"} /\ calls[c].done
    /\ calls' = [calls EXCEPT ![c] = NewLoad(calls[c].tab, FALSE)]
    /\ UNCHANGED <<alerts, page>>

(* Assign and mute close the dialog, whichever incident it shows, and      *)
(* reload; the buttons stay disabled meanwhile.                            *)
Assigned(c) ==
    /\ calls[c].op \in {"assign", "mute"} /\ calls[c].done
    /\ Clear(calls[c].op)
    /\ calls' = [calls EXCEPT ![c] = NewLoad(calls[c].tab, TRUE)]
    /\ UNCHANGED <<alerts, tab, incidents, loading, submitting, timeline>>

(* A comment reloads an open timeline first and closes its dialog then.    *)
Commented(c) ==
    /\ calls[c].op = "comment" /\ calls[c].done
    /\ IF calls[c].reread
       THEN /\ timeline' = [timeline EXCEPT ![calls[c].id].loading = TRUE]
            /\ calls' = [calls EXCEPT ![c] = [op |-> "timeline", id |-> calls[c].id, submit |-> TRUE]]
            /\ UNCHANGED <<dialog, draft, submitting>>
       ELSE /\ Clear("comment")
            /\ submitting' = FALSE
            /\ calls' = [calls EXCEPT ![c] = Idle]
            /\ UNCHANGED timeline
    /\ UNCHANGED <<alerts, tab, incidents, loading>>

(* The rest of loadTimeline; a failed one leaves the cache as it is.       *)
TimelineLoaded(c) ==
    /\ calls[c].op = "timeline"
    /\ \E ok \in {TRUE, ~Faults} :
          timeline' = [timeline EXCEPT ![calls[c].id].loading = FALSE, ![calls[c].id].cached = @ \/ ok]
    /\ IF calls[c].submit THEN Clear("comment") /\ submitting' = FALSE
                          ELSE UNCHANGED <<dialog, draft, submitting>>
    /\ calls' = [calls EXCEPT ![c] = Idle]
    /\ UNCHANGED <<alerts, tab, incidents, loading>>

(* A request fails, executed or not: the catch block, then finally.        *)
Failed(c) ==
    /\ Faults /\ "done" \in DOMAIN calls[c]
    /\ submitting' = (submitting /\ calls[c].op \notin Dialogs)
    /\ calls' = [calls EXCEPT ![c] = Idle]
    /\ UNCHANGED <<alerts, tab, incidents, loading, dialog, draft, timeline>>
-----------------------------------------------------------------------------
Init ==
    /\ alerts \in [Alert -> [status: {"none", "active"}, ack: {FALSE}]]
    /\ tab = "open" /\ incidents = {} /\ loading = TRUE /\ submitting = FALSE
    /\ dialog = Closed
    /\ draft = [k \in Dialogs |-> k = "mute"]
    /\ timeline = [a \in Alert |-> [open |-> FALSE, loading |-> FALSE, cached |-> FALSE]]
    /\ \E c \in Call : calls = [d \in Call |-> IF d = c THEN NewLoad("open", FALSE) ELSE Idle]

User ==
    \/ \E c \in Call : \/ \E t \in Tabs : SelectTab(c, t)
                       \/ \E a \in Alert : \/ handleAcknowledge(c, a)
                                           \/ handleResolve(c, a)
                                           \/ toggleTimeline(c, a)
                       \/ \E op \in {"simulateDown", "simulateRecover"} : handleSimulate(c, op)
                       \/ \E k \in Dialogs : Submit(c, k)
    \/ \E k \in Dialogs : EditDraft(k) \/ \E a \in Alert : OpenDialog(k, a)
    \/ CancelDialog

Arrival(c) ==
    \/ AnswerFirst(c) \/ AnswerSecond(c) \/ DeliverLoad(c) \/ FailLoad(c)
    \/ Execute(c)
    \/ Acted(c) \/ Assigned(c) \/ Commented(c) \/ TimelineLoaded(c) \/ Failed(c)

Next == User \/ Poller \/ \E c \in Call : Arrival(c)
Spec == Init /\ [][Next]_vars
-----------------------------------------------------------------------------
(* Whatever order the answers arrive in, a card that says resolved belongs *)
(* to a resolved alert: nothing is shown as over before it is.             *)
ResolvedShownIsResolved == \A i \in resolvedIncidents : alerts[i.id].status = "resolved"

(* Although alerts are resolved between its two queries, the tab "all"     *)
(* misses, of the alerts that existed when it was loaded, only some that   *)
(* are older than all the alerts of an answer that was full.               *)
Shown(cards, status) == {i.id : i \in {j \in cards : j.status = status}}
CutOff(cards, a) == \E status \in {"open", "resolved"} :
    Cardinality(Shown(cards, status)) = Limit /\ \A b \in Shown(cards, status) : a < b
AllMissesOnlyOlder ==
    \A c \in Call : calls[c].op = "load" /\ calls[c].tab = "all" /\ calls[c].phase = "answered"
        => \A a \in calls[c].known : (\E i \in calls[c].got : i.id = a) \/ CutOff(calls[c].got, a)

(* The three dialogs share one flag, which outlives the dialog it was set  *)
(* in: as long as a submission, the reload it ends with included, waits    *)
(* for an answer, no other can be sent, and no other handler's end takes   *)
(* the flag back.                                                          *)
Submission(c) == \/ calls[c].op \in Dialogs
                 \/ calls[c].op \in {"load", "timeline"} /\ calls[c].submit
OneSubmission ==
    /\ \A c, d \in Call : Submission(c) /\ Submission(d) => c = d
    /\ submitting <=> \E c \in Call : Submission(c)
=============================================================================
