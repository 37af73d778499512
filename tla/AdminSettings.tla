---------------------------- MODULE AdminSettings -----------------------------
(***************************************************************************)
(* The legacy settings page (legacy/pages/Settings.jsx).  Six handlers     *)
(* change the plan, the invites and the webhook destinations; each reads   *)
(* everything again before it ends.  The tab shown and the tab of the      *)
(* address are two variables that two effects copy to each other.         *)
(***************************************************************************)
EXTENDS Naturals

CONSTANTS
    Invite, Webhook, Plan,
    Call,         \* bound: handlers in progress
    Buttons,      \* the handlers in use: a subset of Handlers
    Tabs,         \* the tabs in use
    Moves,        \* bound: changes of tab by the user
    Links,        \* BOOLEAN: the frame's links to a tab are followed
    Faults        \* BOOLEAN: requests may fail

None     == "none"
Forms    == {"savePlan", "createInvite", "createWebhook"}
Deletes  == {"deletingInviteId", "deletingWebhookId"}
Handlers == Forms \cup Deletes \cup {"togglingWebhookId"}
Parts    == {"plan", "invites", "destinations"}
First    == CHOOSE t \in Tabs : TRUE        \* billing, for an address without a tab

AdminSettingsAssumption ==
    /\ Buttons \subseteq Handlers /\ Moves \in Nat /\ Links \in BOOLEAN /\ Faults \in BOOLEAN
    /\ None \notin Invite \cup Webhook \cup Plan \cup Tabs /\ Tabs # {} /\ Plan # {}

VARIABLES
    stored,       \* the rows: plan, invites, destinations and which are enabled
    drawn,        \* ids given out
    shown,        \* the same, as the page holds it
    planForm,     \* the plan typed
    busy,         \* handlers by name, and the row an id names
    asking,       \* the question open (ConfirmProvider.jsx)
    error,        \* the banner
    unsure,       \* history: a change whose answer was lost, and no load since
    calls,        \* handlers in progress
    activeTab, tabFromUrl,       \* as rendered
    nextTab, nextUrl,            \* set, not rendered yet
    moved                        \* changes of tab so far

tabs == <<activeTab, tabFromUrl, nextTab, nextUrl, moved>>
vars == <<stored, drawn, shown, planForm, busy, asking, error, unsure, calls, tabs>>

NoRows == [plan |-> None, invites |-> {}, destinations |-> {}, enabled |-> {}]
Idle   == [op |-> None]
-----------------------------------------------------------------------------
Free(c) == calls[c] = Idle
New(op, id) == [op |-> op, id |-> id, plan |-> planForm, on |-> id \notin shown.enabled,
                stage |-> "sent", read |-> NoRows, left |-> {}]
Start(c, op, id, mark) ==
    /\ op \in Buttons /\ Free(c)
    /\ calls' = [calls EXCEPT ![c] = New(op, id)]
    /\ busy' = [busy EXCEPT ![op] = mark]
    /\ UNCHANGED <<stored, drawn, shown, planForm, error, unsure, tabs>>

Enabled(op) == busy[op] = None

(* handleSavePlan, handleCreateInvite, handleWebhookSubmit.                *)
SubmitForm(c, op) ==
    /\ Enabled(op)
    /\ op = "savePlan" => planForm # None
    /\ Start(c, op, None, "true") /\ UNCHANGED asking

(* The button of a row is disabled while the row's own id is the busy one. *)
toggleWebhookEnabled(c, w) ==
    /\ w \in shown.destinations /\ busy["togglingWebhookId"] # w
    /\ Start(c, "togglingWebhookId", w, w) /\ UNCHANGED asking

(* A second question takes the place of the first.                         *)
AskDelete(op, id) ==
    /\ op \in Buttons /\ busy[op] # id
    /\ id \in (IF op = "deletingInviteId" THEN shown.invites ELSE shown.destinations)
    /\ asking' = <<op, id>>
    /\ UNCHANGED <<stored, drawn, shown, planForm, busy, error, unsure, calls, tabs>>

ConfirmDelete(c) ==
    /\ asking # None
    /\ Start(c, asking[1], asking[2], asking[2]) /\ asking' = None

Cancel ==
    /\ asking # None /\ asking' = None
    /\ UNCHANGED <<stored, drawn, shown, planForm, busy, error, unsure, calls, tabs>>

TypePlan(p) ==
    /\ "savePlan" \in Buttons /\ planForm' = p
    /\ UNCHANGED <<stored, drawn, shown, busy, asking, error, unsure, calls, tabs>>
-----------------------------------------------------------------------------
(* The server.                                                             *)
Sent(c, op) == calls[c] # Idle /\ calls[c].op = op /\ calls[c].stage = "sent"
Answered(c) == calls' = [calls EXCEPT ![c].stage = "ok"]
Others == <<shown, planForm, busy, asking, error, unsure, tabs>>

Draw(c, op, part, ids) ==
    /\ Sent(c, op) /\ Answered(c)
    /\ \E i \in ids \ drawn :
          /\ drawn' = drawn \cup {i}
          /\ stored' = IF part = "invites" THEN [stored EXCEPT !.invites = @ \cup {i}]
                       ELSE [stored EXCEPT !.destinations = @ \cup {i}, !.enabled = @ \cup {i}]
    /\ UNCHANGED Others

Write(c) ==
    /\ \/ Sent(c, "savePlan") /\ stored' = [stored EXCEPT !.plan = calls[c].plan]
       \/ Sent(c, "deletingInviteId") /\ stored' = [stored EXCEPT !.invites = @ \ {calls[c].id}]
       \/ Sent(c, "deletingWebhookId") /\ calls[c].id \in stored.destinations
          /\ stored' = [stored EXCEPT !.destinations = @ \ {calls[c].id}, !.enabled = @ \ {calls[c].id}]
       \/ Sent(c, "togglingWebhookId") /\ calls[c].id \in stored.destinations
          /\ stored' = [stored EXCEPT !.enabled = IF calls[c].on THEN @ \cup {calls[c].id} ELSE @ \ {calls[c].id}]
    /\ Answered(c) /\ UNCHANGED <<drawn, Others>>

(* A destination that is gone is an error for its deletion and its update. *)
Gone(c) == \E op \in {"deletingWebhookId", "togglingWebhookId"} :
    Sent(c, op) /\ calls[c].id \notin stored.destinations

(* The row was read, deleted, and then saved: 200 all the same.            *)
UpdateNothing(c) ==
    /\ Sent(c, "togglingWebhookId") /\ calls[c].id \notin stored.destinations
    /\ Answered(c) /\ UNCHANGED <<stored, drawn, Others>>

Refuse(c) ==
    /\ \E op \in Handlers : Sent(c, op)
    /\ Faults \/ Gone(c)
    /\ calls' = [calls EXCEPT ![c].stage = "refused"]
    /\ UNCHANGED <<stored, drawn, Others>>

(* The change is made, and its answer does not come back within the time   *)
(* the client waits.                                                       *)
LoseAnswer(c) ==
    /\ Faults /\ calls[c] # Idle /\ calls[c].stage = "ok"
    /\ calls' = [calls EXCEPT ![c].stage = "refused"] /\ unsure' = TRUE
    /\ UNCHANGED <<stored, drawn, shown, planForm, busy, asking, error, tabs>>

(* The parts of a load are asked for together and answered one by one.     *)
ReadPart(c, part) ==
    /\ calls[c] # Idle /\ calls[c].stage = "load" /\ part \in calls[c].left
    /\ calls' = [calls EXCEPT ![c].left = @ \ {part},
          ![c].read = IF part = "plan" THEN [@ EXCEPT !.plan = stored.plan]
                      ELSE IF part = "invites" THEN [@ EXCEPT !.invites = stored.invites]
                      ELSE [@ EXCEPT !.destinations = stored.destinations, !.enabled = stored.enabled]]
    /\ UNCHANGED <<stored, drawn, Others>>

RefusePart(c) ==
    /\ Faults /\ calls[c] # Idle /\ calls[c].stage = "load" /\ calls[c].left # {}
    /\ calls' = [calls EXCEPT ![c].stage = "unread"]
    /\ UNCHANGED <<stored, drawn, Others>>

Server(c) ==
    \/ Draw(c, "createInvite", "invites", Invite) \/ Draw(c, "createWebhook", "destinations", Webhook)
    \/ Write(c) \/ UpdateNothing(c) \/ Refuse(c) \/ LoseAnswer(c) \/ RefusePart(c) \/ \E p \in Parts : ReadPart(c, p)
-----------------------------------------------------------------------------
(* Handlers, after an await.                                               *)
NotAwaited(c) == [calls[c] EXCEPT !.stage = "load", !.left = {}] \* mutant
Load(c)       == [calls[c] EXCEPT !.stage = "load", !.left = Parts]

ThenLoad(c) ==
    /\ calls[c] # Idle /\ calls[c].stage = "ok"
    /\ calls' = [calls EXCEPT ![c] = Load(c)]
    /\ error' = FALSE
    /\ UNCHANGED <<stored, drawn, shown, planForm, busy, asking, unsure, tabs>>

Finally(op) == IF op = "load" THEN busy ELSE [busy EXCEPT ![op] = None]
End(c) == calls' = [calls EXCEPT ![c] = Idle] /\ busy' = Finally(calls[c].op)

LoadAnswered(c) ==
    /\ calls[c] # Idle /\ calls[c].stage = "load" /\ calls[c].left = {}
    /\ shown' = calls[c].read /\ planForm' = calls[c].read.plan /\ unsure' = FALSE
    /\ End(c) /\ UNCHANGED <<stored, drawn, asking, error, tabs>>

(* loadAll keeps its error to itself: its handler goes on as if it had not *)
(* failed.                                                                 *)
LoadFailed(c) ==
    /\ calls[c] # Idle /\ calls[c].stage = "unread"
    /\ error' = TRUE
    /\ End(c) /\ UNCHANGED <<stored, drawn, shown, planForm, asking, unsure, tabs>>

Refused(c) ==
    /\ calls[c] # Idle /\ calls[c].stage = "refused"
    /\ End(c) /\ UNCHANGED <<stored, drawn, shown, planForm, asking, error, unsure, tabs>>
-----------------------------------------------------------------------------
(* Tabs.  A rendering runs the effects whose dependencies changed: the     *)
(* first has the tab and the address, the second the address alone.        *)
page == <<stored, drawn, shown, planForm, busy, asking, error, unsure, calls>>

UrlAfter(tab, url) == IF url # tab /\ (tab # activeTab \/ url # tabFromUrl) THEN tab ELSE None
TabAfter(tab, url) == IF url # tab /\ url # tabFromUrl THEN url ELSE None

Render(tab, url, leftUrl) ==
    /\ activeTab' = tab /\ tabFromUrl' = url
    /\ nextTab' = TabAfter(tab, url)
    /\ nextUrl' = IF UrlAfter(tab, url) # None THEN UrlAfter(tab, url) ELSE leftUrl
    /\ UNCHANGED page

RenderTab == nextTab # None /\ Render(nextTab, tabFromUrl, nextUrl) /\ UNCHANGED moved
(* An address is rendered after a tab that is waiting, or with it.         *)
RenderUrl ==
    /\ nextUrl # None
    /\ Render(IF nextTab = None THEN activeTab ELSE nextTab, nextUrl, None) /\ UNCHANGED moved

(* Nothing waits for what was set before to be rendered.                   *)
ClickTab(t) ==
    /\ moved < Moves /\ moved' = moved + 1
    /\ Render(t, tabFromUrl, nextUrl)

FollowLink(t) ==
    /\ Links /\ moved < Moves /\ moved' = moved + 1
    /\ nextUrl' = t
    /\ UNCHANGED <<page, activeTab, tabFromUrl, nextTab>>
-----------------------------------------------------------------------------
Init ==
    /\ \E p \in Plan : stored = [NoRows EXCEPT !.plan = p]
    /\ drawn = {} /\ shown = NoRows /\ planForm = None /\ error = FALSE /\ unsure = FALSE
    /\ busy = [op \in Handlers |-> None] /\ asking = None
    /\ \E c \in Call : calls = [d \in Call |-> IF d = c
          THEN [op |-> "load", id |-> None, plan |-> None, on |-> TRUE,
                stage |-> "load", read |-> NoRows, left |-> Parts] ELSE Idle]
    /\ activeTab \in Tabs /\ tabFromUrl = activeTab /\ nextTab = None /\ nextUrl = None /\ moved = 0

Next ==
    \/ Cancel \/ \E op \in Deletes, id \in Invite \cup Webhook : AskDelete(op, id)
    \/ \E p \in Plan : TypePlan(p)
    \/ RenderTab \/ RenderUrl \/ \E t \in Tabs : ClickTab(t) \/ FollowLink(t)
    \/ \E c \in Call :
          \/ \E op \in Forms : SubmitForm(c, op)
          \/ \E w \in Webhook : toggleWebhookEnabled(c, w)
          \/ ConfirmDelete(c) \/ Server(c)
          \/ ThenLoad(c) \/ LoadAnswered(c) \/ LoadFailed(c) \/ Refused(c)

Spec == Init /\ [][Next]_vars
-----------------------------------------------------------------------------
(* When nothing is in progress, no banner is up and no answer was lost     *)
(* since the last load, the page shows what is stored (loadAll after every *)
(* change).                                                                *)
ShownIsStored == (\A c \in Call : Free(c)) /\ ~error /\ ~unsure =>
    shown = stored
=============================================================================
