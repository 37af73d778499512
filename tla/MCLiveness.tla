----------------------------- MODULE MCLiveness -----------------------------
(***************************************************************************)
(* What must come to an end, for TLC: the outage of a device that answers  *)
(* again, the senders of a webhook and the check of a session.             *)
(* These parts share no state, so they are explored side by side: the      *)
(* initial state chooses the one that runs, the others stay where they     *)
(* start.                                                                  *)
(*                                                                         *)
(* The constants of the configuration are those of DeviceHealth.           *)
(***************************************************************************)
EXTENDS DeviceHealth

CONSTANTS w1, w2, a1, h1, ip1

OwnAddress == [h \in Host |-> ip1]

VARIABLES
    running,                                                   \* the part that runs
    stored, enabled, malformed, drawn, shown, draft, dialogOpen,  \* of Webhooks
    calls, poll, live, device, alert, senders, recorded,
    cookie, user, checking, error, page, submitting, accepted, active, tenants,
    requests                                                   \* of LegacySession

(* One alert of an interface, one destination, one poll, three attempts.   *)
Notifying == INSTANCE Webhooks WITH
    Webhook <- {"w1"}, Event <- {}, Existing <- {"w1"}, Link <- {"l1"}, Outage <- {},
    MaxAttempts <- 3, Polls <- 1, Call <- {}, Faults <- TRUE

(* Two requests in progress, and all that may happen.  Which tenant it is  *)
(* does not matter to the check.                                           *)
Session == INSTANCE LegacySession WITH
    Tenant <- {"t1"}, Home <- "t1", Invited <- "t1", Call <- {1, 2},
    Forms <- {"invite", "early", "torn"}, Faults <- TRUE, calls <- requests

ASSUME Session!LegacySessionAssumption

notifyingVars == <<stored, enabled, malformed, drawn, shown, draft, dialogOpen, calls, poll, live,
                   device, alert, senders, recorded>>
sessionVars   == <<cookie, user, checking, error, page, submitting, accepted, active, tenants,
                   requests>>
allVars       == <<running, vars, notifyingVars, sessionVars>>

(* A part that does not run stays where it starts.                         *)
NotifyingAtStart == Notifying!Init
SessionAtStart   == Session!Init /\ cookie = "none" /\ page = "login" /\ Session!Free(2)

PartsInit ==
    \/ running = "recovery"  /\ Init /\ NotifyingAtStart /\ SessionAtStart
    \/ running = "notifying" /\ Init /\ Notifying!Init   /\ SessionAtStart
    \/ running = "session"   /\ Init /\ NotifyingAtStart /\ Session!Init

PartsNext ==
    \/ running = "recovery"  /\ Next           /\ UNCHANGED <<running, notifyingVars, sessionVars>>
    \/ running = "notifying" /\ Notifying!Next /\ UNCHANGED <<running, vars, sessionVars>>
    \/ running = "session"   /\ Session!Next   /\ UNCHANGED <<running, vars, notifyingVars>>

(* The fairness of the part that runs.                                     *)
PartsSpec ==
    /\ PartsInit /\ [][PartsNext]_allVars
    /\ \A w \in Worker : WF_vars(running = "recovery" /\ WorkerStep(w))
    /\ \A h \in Host : SF_vars(running = "recovery" /\ \E w \in Worker : Poll(w, h))
    /\ \A t \in Notifying!Task : WF_notifyingVars(running = "notifying" /\ Notifying!sendWebhook(t))
    /\ \A c \in {1, 2} : /\ WF_sessionVars(running = "session" /\ Session!Respond(c))
                         /\ WF_sessionVars(running = "session" /\ Session!Continue(c))
-----------------------------------------------------------------------------
(* Every sender of a webhook ends (Webhooks!SendersEnd).                   *)
SendersEnd == Notifying!SendersEnd

(* A user who at last stops reloading sees "Checking session..." go away,  *)
(* if no answer stays open for ever (LegacySession!CheckingEnds).          *)
CheckingEnds == running = "session" => Session!CheckingEnds
=============================================================================
