---------------------------- MODULE ReportsPage -----------------------------
(***************************************************************************)
(* The reports page (app/components/Reports.tsx), the page it prints       *)
(* (ReportPrint.tsx), and the server's reports, recipients and deliveries  *)
(* (handleReportSLA to handleSendReportNow).  A report is of a window of   *)
(* days chosen before it was asked for; the list of incidents beside it is *)
(* asked for without one, on the page as in print.  Handlers overlap.      *)
(***************************************************************************)
EXTENDS Naturals

CONSTANTS
    Window,       \* the windows offered, in days
    Age,          \* the ages, in days, an incident can have
    Target,       \* SLA targets
    Recipient,
    Call,         \* bound: handlers in progress
    Sends,        \* bound: reports sent
    Faults        \* BOOLEAN: requests may fail

None == 0
Default == 30     \* days of the list of incidents, and of a report sent

ReportsPageAssumption ==
    /\ Window \subseteq Nat \ {None} /\ Default \in Window /\ Age \subseteq Nat
    /\ Target \subseteq Nat \ {None} /\ Target # {} /\ Sends \in Nat
    /\ Faults \in BOOLEAN

VARIABLES
    incidents,    \* ages of the tenant's incidents
    target,       \* tenants.sla_target_percent
    stored,       \* report_recipients
    deliveries,   \* report_delivery_history: number of the report, recipient, status
    sends,        \* reports sent so far
    days,         \* the window selected
    sla,          \* the report shown
    listed,       \* the incidents listed
    slaTarget,    \* the target typed
    recipients, history,         \* as shown
    loading, savingTarget,
    printed,      \* the page printed last: the days of its title, its report, its incidents
    failed,       \* history: a report could not be loaded or saved since the last that was
    overtaken,    \* history: a target was saved while a report read before it was on its way
    calls

server == <<incidents, target, stored, deliveries, sends>>
report == <<sla, listed, slaTarget>>
screen == <<days, report, recipients, history, loading, savingTarget, printed, failed, overtaken>>
vars   == <<server, screen, calls>>

NoReport == [window |-> None]
Idle     == [op |-> None]
NoRead   == [sla |-> NoReport, listed |-> {}, recipients |-> {}, history |-> {}]
-----------------------------------------------------------------------------
(* Handlers, up to their first await.  Each keeps the window that was      *)
(* selected when it was clicked.                                           *)
Free(c) == calls[c] = Idle
New(op, stage, left) == [op |-> op, stage |-> stage, days |-> days, who |-> {}, n |-> 0,
                         target |-> IF op = "saveTarget" THEN slaTarget ELSE None,
                         read |-> NoRead, left |-> left]
AtRest == \A c \in Call : Free(c)
Begin(c, call) == Free(c) /\ calls' = [calls EXCEPT ![c] = call] /\ UNCHANGED server

generate(c) ==
    /\ ~loading /\ loading' = TRUE
    /\ Begin(c, New("generate", "reading", {"sla", "listed"}))
    /\ UNCHANGED <<days, report, recipients, history, savingTarget, printed, failed, overtaken>>

saveTarget(c) ==
    /\ ~savingTarget /\ slaTarget # None /\ savingTarget' = TRUE
    /\ Begin(c, New("saveTarget", "sent", {}))
    /\ UNCHANGED <<days, report, recipients, history, loading, printed, failed, overtaken>>

addRecipient(c, r)    == Begin(c, [New("add", "sent", {}) EXCEPT !.who = {r}]) /\ UNCHANGED screen
removeRecipient(c, r) == r \in recipients /\ Begin(c, [New("remove", "sent", {}) EXCEPT !.who = {r}]) /\ UNCHANGED screen
sendNow(c)            == sends < Sends /\ Begin(c, New("send", "sent", {})) /\ UNCHANGED screen
ReportPrint(c)        == Begin(c, New("print", "reading", {"sla", "listed"})) /\ UNCHANGED screen

kept         == <<server, recipients, history, loading, savingTarget, printed, failed, overtaken, calls>>
setDays(d)   == days' = d /\ UNCHANGED <<kept, report>>
setTarget(t) == slaTarget' = t /\ UNCHANGED <<kept, days, sla, listed>>
-----------------------------------------------------------------------------
(* The server.                                                             *)
Sent(c, op) == calls[c] # Idle /\ calls[c].op = op /\ calls[c].stage = "sent"
Respond(c, stage) == calls' = [calls EXCEPT ![c].stage = stage]

(* A report that another handler has read, and not shown yet, is by the    *)
(* target as it was.                                                       *)
Generates == {"generate", "saveTarget"}
OnItsWay(d) == calls[d] # Idle /\ calls[d].op \in Generates /\ calls[d].stage = "reading" /\ "sla" \notin calls[d].left

UpdateSLATarget(c) ==
    /\ Sent(c, "saveTarget") /\ target' = calls[c].target /\ Respond(c, "ok")
    /\ overtaken' = (overtaken \/ \E d \in Call : OnItsWay(d))
    /\ UNCHANGED <<incidents, stored, deliveries, sends, days, report, recipients, history, loading, savingTarget,
                   printed, failed>>

UpsertRecipient(c) ==
    /\ Sent(c, "add") /\ stored' = stored \cup calls[c].who /\ Respond(c, "ok")
    /\ UNCHANGED <<incidents, target, deliveries, sends, screen>>

DeleteRecipient(c) ==
    /\ Sent(c, "remove") /\ stored' = stored \ calls[c].who /\ Respond(c, "ok")
    /\ UNCHANGED <<incidents, target, deliveries, sends, screen>>

NextReport == sends + 1

(* The recipients are read once; each mail succeeds or fails for itself,   *)
(* and the request is answered ok whatever became of them.                 *)
StartSending(c) ==
    /\ Sent(c, "send") /\ stored # {} /\ sends < Sends
    /\ sends' = sends + 1
    /\ calls' = [calls EXCEPT ![c].stage = "reading", ![c].who = stored, ![c].n = NextReport]
    /\ UNCHANGED <<incidents, target, stored, deliveries, screen>>

Remaining(c, r) == calls[c].who \ {r}

SendMail(c, r) ==
    /\ calls[c] # Idle /\ calls[c].op = "send" /\ calls[c].stage = "reading" /\ r \in calls[c].who
    /\ \E status \in {"sent", "failed"} : deliveries' = deliveries \cup {<<calls[c].n, r, status>>}
    /\ calls' = [calls EXCEPT ![c].who = Remaining(c, r), ![c].stage = IF Remaining(c, r) = {} THEN "ok" ELSE @]
    /\ UNCHANGED <<incidents, target, stored, sends, screen>>

Refuse(c) ==
    /\ calls[c] # Idle /\ calls[c].stage = "sent"
    /\ Faults \/ (calls[c].op = "send" /\ stored = {})
    /\ Respond(c, "refused") /\ UNCHANGED <<server, screen>>

Within(d) == {a \in incidents : a <= d}
Read(c, part) ==
    /\ calls[c] # Idle /\ calls[c].stage = "reading" /\ part \in calls[c].left
    /\ calls' = [calls EXCEPT ![c].left = @ \ {part}, ![c].read =
          IF part = "sla" THEN [@ EXCEPT !.sla = [window |-> calls[c].days, incidents |-> Within(calls[c].days), target |-> target]]
          ELSE IF part = "listed" THEN [@ EXCEPT !.listed = Within(Default)]
          ELSE IF part = "recipients" THEN [@ EXCEPT !.recipients = stored]
          ELSE [@ EXCEPT !.history = deliveries]]
    /\ UNCHANGED <<server, screen>>

RefuseRead(c) ==
    /\ Faults /\ calls[c] # Idle /\ calls[c].stage = "reading" /\ calls[c].left # {}
    /\ Respond(c, "unread") /\ UNCHANGED <<server, screen>>

Server(c) ==
    \/ UpdateSLATarget(c) \/ UpsertRecipient(c) \/ DeleteRecipient(c) \/ StartSending(c) \/ Refuse(c) \/ RefuseRead(c)
    \/ \E r \in Recipient : SendMail(c, r)
    \/ \E part \in {"sla", "listed", "recipients", "history"} : Read(c, part)
-----------------------------------------------------------------------------
(* Handlers, after an await.                                               *)
Arrived(c, op) == calls[c] # Idle /\ calls[c].op = op /\ calls[c].stage = "reading" /\ calls[c].left = {}

(* saveTarget generates again, of the window of its own click.             *)
NotRegenerated(c) == New("delivery", "reading", {"recipients", "history"}) \* mutant
Regenerates(c)    == [calls[c] EXCEPT !.stage = "reading", !.left = {"sla", "listed"}]

Saved(c) ==
    /\ calls[c] # Idle /\ calls[c].op = "saveTarget" /\ calls[c].stage = "ok"
    /\ calls' = [calls EXCEPT ![c] = Regenerates(c)]
    /\ loading' = TRUE
    /\ UNCHANGED <<server, days, report, recipients, history, savingTarget, printed, failed, overtaken>>

(* loadDelivery, after every change of the recipients and every sending.   *)
Changed(c) ==
    /\ calls[c] # Idle /\ calls[c].op \in {"add", "remove", "send"} /\ calls[c].stage = "ok"
    /\ calls' = [calls EXCEPT ![c] = New("delivery", "reading", {"recipients", "history"})]
    /\ UNCHANGED <<server, screen>>

SavingAfter(c) == savingTarget /\ calls[c].op # "saveTarget"
Finally(c) ==
    /\ loading' = (loading /\ (calls[c].op \notin Generates \/ calls[c].stage = "refused"))
    /\ savingTarget' = SavingAfter(c)
    /\ calls' = [calls EXCEPT ![c] = Idle]

Generated(c) ==
    /\ \E op \in Generates : Arrived(c, op)
    /\ sla' = calls[c].read.sla /\ slaTarget' = calls[c].read.sla.target /\ listed' = calls[c].read.listed
    /\ failed' = FALSE
    /\ Finally(c) /\ UNCHANGED <<server, days, recipients, history, printed, overtaken>>

Delivery(c) ==
    /\ Arrived(c, "delivery")
    /\ recipients' = calls[c].read.recipients /\ history' = calls[c].read.history
    /\ Finally(c) /\ UNCHANGED <<server, days, report, printed, failed, overtaken>>

(* The incidents printed are of the default window, whatever the title     *)
(* says.                                                                   *)
Printed(c) ==
    /\ Arrived(c, "print")
    /\ printed' = [days |-> calls[c].days, sla |-> calls[c].read.sla, listed |-> calls[c].read.listed]
    /\ Finally(c) /\ UNCHANGED <<server, days, report, recipients, history, failed, overtaken>>

(* loadDelivery drops its error, the print page does not catch it, the     *)
(* others show it.                                                         *)
Failed(c) ==
    /\ calls[c] # Idle /\ calls[c].stage \in {"refused", "unread"}
    /\ failed' = (failed \/ calls[c].op \in Generates)
    /\ Finally(c) /\ UNCHANGED <<server, days, report, recipients, history, printed, overtaken>>
-----------------------------------------------------------------------------
(* Mounted, the page generates and loads the deliveries at once.           *)
Init ==
    /\ incidents \in SUBSET Age /\ target \in Target
    /\ stored = {} /\ deliveries = {} /\ sends = 0
    /\ days = Default /\ sla = NoReport /\ listed = {} /\ slaTarget \in Target
    /\ recipients = {} /\ history = {} /\ printed = NoReport /\ failed = FALSE /\ overtaken = FALSE
    /\ loading = TRUE /\ savingTarget = FALSE
    /\ \E c, d \in Call : c # d /\ calls = [e \in Call |->
          IF e = c THEN New("generate", "reading", {"sla", "listed"})
          ELSE IF e = d THEN New("delivery", "reading", {"recipients", "history"}) ELSE Idle]

Next ==
    \/ \E d \in Window : setDays(d) \/ \E t \in Target : setTarget(t)
    \/ \E c \in Call :
          \/ generate(c) \/ saveTarget(c) \/ sendNow(c) \/ ReportPrint(c)
          \/ \E r \in Recipient : addRecipient(c, r) \/ removeRecipient(c, r)
          \/ Server(c)
          \/ Saved(c) \/ Changed(c) \/ Generated(c) \/ Delivery(c) \/ Printed(c) \/ Failed(c)

Spec == Init /\ [][Next]_vars
-----------------------------------------------------------------------------
(* "Meets target" (Reports.tsx:190): at rest and with nothing failed, the  *)
(* target the report shown was measured by is the one stored, however      *)
(* generating and saving overlap - unless a target was saved while a       *)
(* report read before it was on its way, which may arrive after the one    *)
(* that saving generates.                                                  *)
ReportHasTarget == AtRest /\ ~failed /\ ~overtaken /\ sla # NoReport => sla.target = target
=============================================================================
