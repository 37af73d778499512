------------------------------ MODULE Webhooks ------------------------------
(***************************************************************************)
(* The webhook page (app/components/Webhooks.tsx), the destinations the    *)
(* server keeps (internal/server/alert_destinations.go) and the senders    *)
(* that a poll starts (internal/notification/service.go).  A sender runs   *)
(* beside the poll, with the poll's context: when the poll returns, the    *)
(* requests, the waits and the statements of its senders are cancelled.    *)
(***************************************************************************)
EXTENDS Naturals, FiniteSets

CONSTANTS
    Webhook,
    Event,        \* what the form offers to subscribe to
    Existing,     \* destinations there are at the start, all enabled
    Link,         \* alerts about an interface
    Outage,       \* device-down incidents
    MaxAttempts,
    Polls,        \* bound: polls
    Call,         \* bound: handlers of the page in progress
    Faults        \* BOOLEAN: requests of the page, and the poller's statements, may fail

None  == "none"
Alert == Link \cup Outage
Task  == Alert \X {"alert.created", "alert.resolved"} \X Webhook

ASSUME WebhooksAssumption ==
    /\ MaxAttempts \in Nat \ {0} /\ Polls \in Nat /\ Faults \in BOOLEAN
    /\ Existing \subseteq Webhook /\ Link \cap Outage = {} /\ None \notin Webhook

VARIABLES
    stored, enabled,    \* rows of alert_destinations
    malformed,          \* those whose URL passes the check and yet does not parse
    drawn,              \* ids given out
    shown,              \* webhooks listed: id -> events listed
    draft, dialogOpen,  \* the form: the events ticked
    calls,              \* handlers of the page in progress
    poll, live,         \* number of the last poll, and whether it runs
    device,             \* is the row of the polled device there?
    alert,              \* its alerts: none yet, open, resolved, gone with the device
    senders,            \* one per notification and destination
    recorded            \* alert_deliveries: attempts of senders

page == <<shown, draft, dialogOpen, calls>>
rows == <<stored, enabled, malformed, drawn>>
pollerVars == <<poll, live, device, alert>>
vars == <<page, rows, pollerVars, senders, recorded>>

Lists    == [Webhook -> SUBSET Event]
Idle     == [op |-> None]
Handler  == [op: {"list", "create", "delete", "test"}, of: Webhook \cup {None},
             stage: {"sent", "ok", "refused"}, read: SUBSET Webhook]
NoSender == [pc |-> None]
Sender   == [pc: {"attempt", "record", "pause", "ended"}, i: 1..MaxAttempts, of: 1..Polls, success: BOOLEAN]

TypeOK ==
    /\ enabled \subseteq stored /\ stored \subseteq drawn /\ drawn \subseteq Webhook
    /\ malformed \subseteq drawn
    /\ shown \in Lists /\ draft \subseteq Event /\ dialogOpen \in BOOLEAN
    /\ calls \in [Call -> Handler \cup {Idle}]
    /\ poll \in 0..Polls /\ live \in BOOLEAN /\ device \in BOOLEAN
    /\ alert \in [Alert -> {None, "open", "resolved", "gone"}]
    /\ senders \in [Task -> Sender \cup {NoSender}]
    /\ recorded \subseteq Task \X (1..MaxAttempts)
-----------------------------------------------------------------------------
(* The page.  None of its buttons is held while its handler runs.          *)
Free(c) == calls[c] = Idle
Listed(w) == shown[w] # {}        \* every webhook listed is given events
New(op, w) == [op |-> op, of |-> w, stage |-> "sent", read |-> {}]
Start(c, op, w) ==
    /\ Free(c) /\ calls' = [calls EXCEPT ![c] = New(op, w)]
    /\ UNCHANGED <<shown, rows, pollerVars, senders, recorded>>

(* A visit of the page mounts it anew.  Bound: nothing of an earlier visit *)
(* is in progress.                                                         *)
Visit(c) ==
    /\ \A d \in Call : Free(d)
    /\ calls' = [calls EXCEPT ![c] = New("list", None)]
    /\ shown' = [w \in Webhook |-> {}] /\ draft' = {} /\ dialogOpen' = FALSE
    /\ UNCHANGED <<rows, pollerVars, senders, recorded>>

OpenDialog(open) ==
    /\ Call # {} /\ dialogOpen' = open /\ open # dialogOpen
    /\ UNCHANGED <<shown, draft, calls, rows, pollerVars, senders, recorded>>

toggleEvent(e) ==
    /\ dialogOpen
    /\ draft' = IF e \in draft THEN draft \ {e} ELSE draft \cup {e}
    /\ UNCHANGED <<shown, dialogOpen, calls, rows, pollerVars, senders, recorded>>

handleSubmit(c) == dialogOpen /\ draft # {} /\ Start(c, "create", None) /\ UNCHANGED <<draft, dialogOpen>>
handleDelete(c, w) == Listed(w) /\ Start(c, "delete", w) /\ UNCHANGED <<draft, dialogOpen>>
handleTest(c, w)   == Listed(w) /\ Start(c, "test", w) /\ UNCHANGED <<draft, dialogOpen>>
-----------------------------------------------------------------------------
(* The server.                                                             *)
Sent(c, op) == calls[c] # Idle /\ calls[c].op = op /\ calls[c].stage = "sent"
Respond(c, stage) == calls' = [calls EXCEPT ![c].stage = stage]

ListDestinations(c) ==
    /\ Sent(c, "list")
    /\ calls' = [calls EXCEPT ![c].stage = "ok", ![c].read = stored]
    /\ UNCHANGED <<shown, draft, dialogOpen, rows, pollerVars, senders, recorded>>

(* The events chosen are not part of the request.  Of the URL only the     *)
(* scheme is looked at.                                                    *)
CreateDestination(c) ==
    /\ Sent(c, "create")
    /\ \E w \in Webhook \ drawn :
          /\ drawn' = drawn \cup {w} /\ stored' = stored \cup {w} /\ enabled' = enabled \cup {w}
          /\ malformed' \in {malformed, malformed \cup {w}}
    /\ Respond(c, "ok")
    /\ UNCHANGED <<shown, draft, dialogOpen, pollerVars, senders, recorded>>

(* Its deliveries go with it (ON DELETE CASCADE).                          *)
CascadesDeliveries(w) == {r \in recorded : r[1][3] # w}

DeleteDestination(c) ==
    /\ Sent(c, "delete") /\ calls[c].of \in stored
    /\ LET w == calls[c].of IN
       /\ stored' = stored \ {w} /\ enabled' = enabled \ {w}
       /\ recorded' = CascadesDeliveries(w)
    /\ Respond(c, "ok")
    /\ UNCHANGED <<malformed, drawn, shown, draft, dialogOpen, pollerVars, senders>>

(* The test asks the destination and answers ok or a 502.  It records the  *)
(* attempt for alert 0, which no row of alerts has: the insert is refused  *)
(* and its error dropped.                                                  *)
TestDestination(c) ==
    /\ Sent(c, "test") /\ calls[c].of \in stored
    /\ \E stage \in {"ok", "refused"} : Respond(c, stage)
    /\ UNCHANGED <<shown, draft, dialogOpen, rows, pollerVars, senders, recorded>>

Refuse(c) ==
    /\ \E op \in {"list", "create", "delete", "test"} : Sent(c, op)
    /\ Faults \/ (calls[c].op \in {"delete", "test"} /\ calls[c].of \notin stored)
    /\ Respond(c, "refused")
    /\ UNCHANGED <<shown, draft, dialogOpen, rows, pollerVars, senders, recorded>>

(* The page of the legacy application enables and disables.                *)
UpdateDestination(w) ==
    /\ w \in stored
    /\ enabled' = IF w \in enabled THEN enabled \ {w} ELSE enabled \cup {w}
    /\ UNCHANGED <<page, stored, malformed, drawn, pollerVars, senders, recorded>>
-----------------------------------------------------------------------------
(* What the page does with the answers.                                    *)
Done(c, op) == calls[c] # Idle /\ calls[c].op = op /\ calls[c].stage # "sent"

(* Every webhook is listed with every event (api.ts:318).                  *)
loadWebhooks(c) ==
    /\ Done(c, "list")
    /\ IF calls[c].stage = "ok"
       THEN shown' = [w \in Webhook |-> IF w \in calls[c].read THEN Event ELSE {}]
       ELSE UNCHANGED shown
    /\ calls' = [calls EXCEPT ![c] = Idle]
    /\ UNCHANGED <<draft, dialogOpen, rows, pollerVars, senders, recorded>>

(* A creation closes the dialog and empties the form, whatever they are    *)
(* being used for by then.                                                 *)
Answered(c) ==
    /\ \E op \in {"create", "delete", "test"} : Done(c, op)
    /\ LET done == calls[c].stage = "ok"  closes == done /\ calls[c].op = "create" IN
       /\ calls' = [calls EXCEPT ![c] = IF done THEN New("list", None) ELSE Idle]
       /\ dialogOpen' = (dialogOpen /\ ~closes)
       /\ draft' = IF closes THEN {} ELSE draft
    /\ UNCHANGED <<shown, rows, pollerVars, senders, recorded>>
-----------------------------------------------------------------------------
(* The poller.  A poll writes the device's row, or writes it anew.         *)
StartPoll ==
    /\ ~live /\ poll < Polls
    /\ poll' = poll + 1 /\ live' = TRUE /\ device' = TRUE
    /\ UNCHANGED <<page, rows, alert, senders, recorded>>

EndPoll ==
    /\ live /\ live' = FALSE
    /\ UNCHANGED <<page, rows, poll, device, alert, senders, recorded>>

(* DELETE /devices/{id}: the alerts go with the row and the deliveries     *)
(* with the alerts (ON DELETE CASCADE).                                    *)
DeleteDevice ==
    /\ device /\ device' = FALSE
    /\ alert' = [a \in Alert |-> IF alert[a] = None THEN None ELSE "gone"]
    /\ recorded' = {}
    /\ UNCHANGED <<page, rows, poll, live, senders>>

Begun == [pc |-> "attempt", i |-> 1, of |-> poll, success |-> FALSE]
Dispatch(a, event) ==
    \/ senders' = [t \in Task |-> IF t[1] = a /\ t[2] = event /\ t[3] \in enabled THEN Begun ELSE senders[t]]
    \/ Faults /\ UNCHANGED senders

(* Without the device's row the insert of an alert is refused.             *)
raiseAlert(a) ==
    /\ live /\ device /\ a \in Link /\ alert[a] = None
    /\ alert' = [alert EXCEPT ![a] = "open"]
    /\ Dispatch(a, "alert.created")
    /\ UNCHANGED <<page, rows, poll, live, device, recorded>>

clearAlert(a) ==
    /\ live /\ alert[a] = "open"
    /\ alert' = [alert EXCEPT ![a] = "resolved"]
    /\ Dispatch(a, "alert.resolved")
    /\ UNCHANGED <<page, rows, poll, live, device, recorded>>

(* The incident of a device that is down is opened by ProcessPollResult,   *)
(* which has no notifier.                                                  *)
RaiseIncident(a) ==
    /\ live /\ device /\ a \in Outage /\ alert[a] = None
    /\ alert' = [alert EXCEPT ![a] = "open"]
    /\ UNCHANGED <<page, rows, poll, live, device, senders, recorded>>
-----------------------------------------------------------------------------
(* sendWebhook.                                                            *)
At(t, pc)   == senders[t] # NoSender /\ senders[t].pc = pc
Context(t)  == live /\ senders[t].of = poll

Parses(t) == t[3] \notin malformed

(* A request of a cancelled context fails; of a URL that does not parse    *)
(* none is made.                                                           *)
Attempt(t) ==
    /\ At(t, "attempt")
    /\ \E success \in {Context(t) /\ Parses(t), FALSE} :
          senders' = [senders EXCEPT ![t].pc = "record", ![t].success = success]
    /\ UNCHANGED <<page, rows, pollerVars, recorded>>

TriesFour(s) == ~s.success /\ s.i < MaxAttempts - 1 \* mutant
Retries(s)   == ~s.success /\ s.i < MaxAttempts

(* Mutant of Recordable: alert_deliveries without its two foreign keys.    *)
Connected(t) == Context(t)

(* Both foreign keys of alert_deliveries (migration 011:4).                *)
Recordable(t) == Context(t) /\ t[3] \in stored /\ alert[t[1]] \in {"open", "resolved"}

(* After a request that could not be made there is no retry.               *)
RecordAlertDelivery(t) ==
    /\ At(t, "record")
    /\ \/ Recordable(t) /\ recorded' = recorded \cup {<<t, senders[t].i>>}
       \/ (Faults \/ ~Recordable(t)) /\ UNCHANGED recorded
    /\ senders' = [senders EXCEPT ![t].pc = IF Parses(t) /\ Retries(senders[t]) THEN "pause" ELSE "ended"]
    /\ UNCHANGED <<page, rows, pollerVars>>

SameAttempt(i) == i \* mutant
NextAttempt(i) == i + 1

(* select: the timer, or the context, or either when both are ready.       *)
Backoff(t) ==
    /\ At(t, "pause")
    /\ \/ senders' = [senders EXCEPT ![t].pc = "attempt", ![t].i = NextAttempt(@)]
       \/ ~Context(t) /\ senders' = [senders EXCEPT ![t].pc = "ended"]
    /\ UNCHANGED <<page, rows, pollerVars, recorded>>

sendWebhook(t) == Attempt(t) \/ RecordAlertDelivery(t) \/ Backoff(t)
-----------------------------------------------------------------------------
Init ==
    /\ stored = Existing /\ enabled = Existing /\ drawn = Existing
    /\ malformed \in SUBSET Existing
    /\ shown = [w \in Webhook |-> {}]
    /\ draft = {} /\ dialogOpen = FALSE /\ recorded = {}
    /\ calls = [c \in Call |-> Idle]
    /\ poll = 0 /\ live = FALSE /\ device = TRUE
    /\ alert = [a \in Alert |-> None] /\ senders = [t \in Task |-> NoSender]

Next ==
    \/ \E open \in BOOLEAN : OpenDialog(open)
    \/ \E e \in Event : toggleEvent(e)
    \/ \E w \in Webhook : UpdateDestination(w) \/ \E c \in Call : handleDelete(c, w) \/ handleTest(c, w)
    \/ \E c \in Call :
          \/ Visit(c) \/ handleSubmit(c) \/ loadWebhooks(c) \/ Answered(c)
          \/ ListDestinations(c) \/ CreateDestination(c) \/ DeleteDestination(c) \/ TestDestination(c) \/ Refuse(c)
    \/ StartPoll \/ EndPoll \/ DeleteDevice
    \/ \E a \in Alert : raiseAlert(a) \/ clearAlert(a) \/ RaiseIncident(a)
    \/ \E t \in Task : sendWebhook(t)

Spec == Init /\ [][Next]_vars

(* The deadline of the poll, the timeout of the request and the timer of   *)
(* the wait end what a sender waits for.                                   *)
FairSpec == Spec /\ \A t \in Task : WF_vars(sendWebhook(t))
-----------------------------------------------------------------------------
(* The attempts a sender has gone through.                                 *)
Past(t) == IF senders[t] = NoSender THEN {}
           ELSE 1..(IF senders[t].pc \in {"attempt", "record"} THEN senders[t].i - 1 ELSE senders[t].i)

(* While its poll runs a sender of a URL that parses gives up only after a *)
(* success or the last attempt, whatever happens to the device, the        *)
(* destination and the page meanwhile, and each attempt is recorded        *)
(* (service.go:94) unless the destination or the alert was deleted, which  *)
(* takes the records too.                                                  *)
LiveSendersPersist == \A t \in Task : senders[t] # NoSender /\ Context(t) =>
    /\ senders[t].pc = "ended" => senders[t].success \/ senders[t].i = MaxAttempts \/ ~Parses(t)
    /\ t[3] \in stored /\ alert[t[1]] # "gone" => \A n \in Past(t) : <<t, n>> \in recorded

(* DEPLOYMENT.md:181, "Webhook sender uses exponential backoff retries (up *)
(* to 5 attempts)": a failed attempt is repeated until the last.  It is    *)
(* not: when the poll that began the sender returns, its context ends the  *)
(* wait for the next attempt.                                              *)
FailuresAreRetried == \A t \in Task :
    At(t, "ended") /\ Parses(t) => senders[t].success \/ senders[t].i = MaxAttempts

(* No delivery is kept of a destination or of an alert that was deleted,   *)
(* however late its senders are.                                           *)
DeliveriesHaveOwners ==
    \A r \in recorded : r[1][3] \in stored /\ alert[r[1][1]] \in {"open", "resolved"}

(* Every sender ends: none outlives its attempts.                          *)
SendersEnd == \A t \in Task : At(t, "attempt") ~> At(t, "ended")
=============================================================================
