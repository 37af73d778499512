--------------------------- MODULE MCDevicePages ----------------------------
(***************************************************************************)
(* Small instances of DevicePages, as the legacy application and as the    *)
(* new one, and of IncidentsPage for TLC.  They share no state, so that    *)
(* they are explored side by side: the initial state chooses the pages     *)
(* that are open, the others stay where they start.                        *)
(*                                                                         *)
(* The constants of the configuration are those of DevicePages as the      *)
(* legacy application, and those of IncidentsPage.                         *)
(***************************************************************************)
EXTENDS DevicePages, TLC

CONSTANTS
    Alert, Slot, CardTabs, CardButtons,                 \* of IncidentsPage, the cards
    LoneAlert, DialogButtons,                           \* of IncidentsPage, the dialogs
    Limit,                                              \* of IncidentsPage
    First                                               \* a request of DevicePages

(* The handlers of the page of incidents are interchangeable.              *)
Symmetry == Permutations(Slot)

VARIABLES
    opened,                                             \* the pages that are open
    alerts, tab, incidents, fetching, submitting, asked, draft, timeline,
    handlers,                                           \* of IncidentsPage
    rows, address, history, list, deviceShown, loadingNew, deletingNew, dialogNew,
    requests                                            \* of DevicePages, the new ones

(* The new application, and a history that leads from no device page to    *)
(* another.                                                                *)
New == INSTANCE DevicePages WITH
    App <- "new", Jumps <- FALSE,
    stored <- rows, route <- address, visited <- history, devices <- list, device <- deviceShown,
    loading <- loadingNew, deleting <- deletingNew, dialog <- dialogNew, calls <- requests

(* Every tab and the buttons of a card.                                    *)
Cards == INSTANCE IncidentsPage WITH
    Tabs <- CardTabs, Call <- Slot, Buttons <- CardButtons,
    loading <- fetching, dialog <- asked, calls <- handlers

(* The dialogs and the timeline.                                           *)
Dialogs == INSTANCE IncidentsPage WITH
    Alert <- LoneAlert, Tabs <- {"open"}, Call <- Slot, Buttons <- DialogButtons,
    loading <- fetching, dialog <- asked, calls <- handlers

ASSUME IncidentsAssumption ==
    /\ Cards!IncidentsPageAssumption
    /\ Dialogs!IncidentsPageAssumption

newVars       == <<rows, address, history, list, deviceShown, loadingNew, deletingNew, dialogNew,
                   requests>>
incidentsVars == <<alerts, tab, incidents, fetching, submitting, asked, draft, timeline, handlers>>
allVars       == <<opened, vars, newVars, incidentsVars>>

LegacyAtStart    == Init /\ ~Free(First)
NewAtStart       == New!Init /\ ~New!Free(First)
IncidentsAtStart == Cards!Init /\ \A a \in Alert : alerts[a].status = "none"

EachInit ==
    \/ opened = "legacy"  /\ Init          /\ NewAtStart /\ IncidentsAtStart
    \/ opened = "new"     /\ LegacyAtStart /\ New!Init   /\ IncidentsAtStart
    \/ opened = "cards"   /\ LegacyAtStart /\ NewAtStart /\ Cards!Init
    \/ opened = "dialogs" /\ LegacyAtStart /\ NewAtStart /\ Dialogs!Init

EachNext ==
    \/ opened = "legacy"  /\ Next         /\ UNCHANGED <<opened, newVars, incidentsVars>>
    \/ opened = "new"     /\ New!Next     /\ UNCHANGED <<opened, vars, incidentsVars>>
    \/ opened = "cards"   /\ Cards!Next   /\ UNCHANGED <<opened, vars, newVars>>
    \/ opened = "dialogs" /\ Dialogs!Next /\ UNCHANGED <<opened, vars, newVars>>

EachSpec == EachInit /\ [][EachNext]_allVars
-----------------------------------------------------------------------------
(* "Delete this device?" (DeviceDetail.tsx:36): where the history leads    *)
(* from no device page to another, a deletion confirmed on a device page   *)
(* of the new application is of the device that page was showing.          *)
DeletesDeviceShownByNew == New!DeletesDeviceShown

(* Whatever order the answers arrive in, a card that says resolved belongs *)
(* to a resolved alert: nothing is shown as over before it is.             *)
ResolvedShownIsResolved == opened = "cards" => Cards!ResolvedShownIsResolved

(* Although alerts are resolved between its two queries, the tab "all"     *)
(* misses, of the alerts that existed when it was loaded, only some that   *)
(* are older than all the alerts of an answer that was full.               *)
AllMissesOnlyOlder == opened = "cards" => Cards!AllMissesOnlyOlder

(* The three dialogs share one flag: as long as a submission, the reload   *)
(* it ends with included, waits for an answer, no other can be sent, and   *)
(* no other handler's end takes the flag back.                             *)
OneSubmission == opened = "dialogs" => Dialogs!OneSubmission
=============================================================================
