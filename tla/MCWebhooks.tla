----------------------------- MODULE MCWebhooks -----------------------------
(***************************************************************************)
(* Small instances of Webhooks, of the settings and the frame of the       *)
(* legacy application and of the lists of both, for TLC.  They share no    *)
(* state, so that they are explored side by side: the initial state        *)
(* chooses what is in use, the rest stays where it starts.                 *)
(*                                                                         *)
(* The constants of the configuration are those of Webhooks, and those of  *)
(* the other parts.                                                        *)
(***************************************************************************)
EXTENDS Webhooks

CONSTANTS
    w1, l1,
    One, Invite, Hook, Plan, TabNames, Moves,       \* of AdminSettings, one handler at a time
    Tenant, Home, Invited, Request, Failures,       \* of LegacySession
    Row, Loader                                     \* of ListPages

VARIABLES
    used,                                                  \* what is in use
    tables, drawnIds, settings, planForm, busy, asking, banner, unsure, handlers,
    activeTab, tabFromUrl, nextTab, nextUrl, moved,        \* of AdminSettings
    cookie, user, checking, error, route, submitting, accepted, active, tenants,
    requests,                                              \* of LegacySession
    contents, listed, rowsShown, hidden, loading, failed, polling, updated,
    loads                                                  \* of ListPages

(* The same alert as the incident of a device; no destination at first.    *)
Incidents == INSTANCE Webhooks WITH Existing <- {}, Link <- {}, Outage <- {l1}, Polls <- 1

(* The page alone, with requests that fail.                                *)
Refusing == INSTANCE Webhooks WITH Existing <- {}, Polls <- 0, Faults <- TRUE

(* Every handler of the settings, one at a time, with failures and lost    *)
(* answers.                                                                *)
Settings == INSTANCE AdminSettings WITH
    Webhook <- Hook, Call <- {One},
    Buttons <- {"savePlan", "createInvite", "createWebhook",
                "deletingInviteId", "deletingWebhookId", "togglingWebhookId"},
    Tabs <- {"billing"}, Moves <- 0, Links <- FALSE, Faults <- TRUE,
    stored <- tables, drawn <- drawnIds, shown <- settings, error <- banner, calls <- handlers

(* The tabs of the settings and the links to them.                         *)
Tabs == INSTANCE AdminSettings WITH
    Webhook <- Hook, Call <- {One}, Buttons <- {},
    Tabs <- TabNames, Links <- TRUE, Faults <- FALSE,
    stored <- tables, drawn <- drawnIds, shown <- settings, error <- banner, calls <- handlers

(* Logging in once it is known who is logged in, no invite, no answer that *)
(* breaks off after its headers.                                           *)
Frame == INSTANCE LegacySession WITH
    Call <- Request, Forms <- {}, Faults <- Failures, page <- route, calls <- requests

(* Every list; requests that fail.                                         *)
Tables == INSTANCE ListPages WITH
    Call <- Loader, Faults <- TRUE,
    Pages <- {"alerts", "switches", "clients", "dashboard", "legacyDashboard"},
    stored <- contents, page <- listed, shown <- rowsShown, error <- failed, calls <- loads

ASSUME OthersAssumption ==
    /\ Settings!AdminSettingsAssumption
    /\ Tabs!AdminSettingsAssumption
    /\ Frame!LegacySessionAssumption
    /\ Tables!ListPagesAssumption

settingsVars == <<tables, drawnIds, settings, planForm, busy, asking, banner, unsure, handlers,
                  activeTab, tabFromUrl, nextTab, nextUrl, moved>>
frameVars    == <<cookie, user, checking, error, route, submitting, accepted, active, tenants,
                  requests>>
listsVars    == <<contents, listed, rowsShown, hidden, loading, failed, polling, updated, loads>>
allVars      == <<used, vars, settingsVars, frameVars, listsVars>>

(* One of the initial states of each part.                                 *)
Some(S)         == CHOOSE x \in S : TRUE
SettingsAtStart == Settings!Init /\ tables.plan = Some(Plan)
FrameAtStart    == Frame!Init /\ cookie = "none" /\ route = "login" /\ ~Frame!Free(Some(Request))
ListsAtStart    == Tables!Init /\ listed = "alerts" /\ contents = Tables!Nothing /\ ~Tables!Free(Some(Loader))

EachInit ==
    \/ used = "webhooks"  /\ Init           /\ SettingsAtStart /\ FrameAtStart /\ ListsAtStart
    \/ used = "incidents" /\ Incidents!Init /\ SettingsAtStart /\ FrameAtStart /\ ListsAtStart
    \/ used = "refusing"  /\ Refusing!Init  /\ SettingsAtStart /\ FrameAtStart /\ ListsAtStart
    \/ used = "settings"  /\ Init           /\ Settings!Init   /\ FrameAtStart /\ ListsAtStart
    \/ used = "tabs"      /\ Init           /\ Tabs!Init       /\ FrameAtStart /\ ListsAtStart
    \/ used = "frame"     /\ Init           /\ SettingsAtStart /\ Frame!Init   /\ ListsAtStart
    \/ used = "lists"     /\ Init           /\ SettingsAtStart /\ FrameAtStart /\ Tables!Init

EachNext ==
    \/ used = "webhooks"  /\ Next           /\ UNCHANGED <<used, settingsVars, frameVars, listsVars>>
    \/ used = "incidents" /\ Incidents!Next /\ UNCHANGED <<used, settingsVars, frameVars, listsVars>>
    \/ used = "refusing"  /\ Refusing!Next  /\ UNCHANGED <<used, settingsVars, frameVars, listsVars>>
    \/ used = "settings"  /\ Settings!Next  /\ UNCHANGED <<used, vars, frameVars, listsVars>>
    \/ used = "tabs"      /\ Tabs!Next      /\ UNCHANGED <<used, vars, frameVars, listsVars>>
    \/ used = "frame"     /\ Frame!Next     /\ UNCHANGED <<used, vars, settingsVars, listsVars>>
    \/ used = "lists"     /\ Tables!Next    /\ UNCHANGED <<used, vars, settingsVars, frameVars>>

EachSpec == EachInit /\ [][EachNext]_allVars
-----------------------------------------------------------------------------
(* When nothing is in progress, no banner is up and no answer was lost     *)
(* since the last load, the settings shown are the settings stored         *)
(* (loadAll after every change).                                           *)
ShownIsStored == used \in {"settings", "tabs"} => Settings!ShownIsStored

(* At rest the frame shows the tenant of the session or none, however      *)
(* switches, logouts, reloads and logins sent after the check of the       *)
(* session overlap (handleTenantChange reloads the page).  The forms that  *)
(* Frame leaves out break it.                                              *)
TenantShownIsActive == used = "frame" => Frame!TenantShownIsActive

(* The pages of incidents and of switches say that there is nothing only   *)
(* after a load that succeeded.                                            *)
EmptyWasRead == used = "lists" /\ listed \in {"alerts", "switches"} => Tables!EmptyWasRead
=============================================================================
