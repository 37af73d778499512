------------------------- MODULE MCDeviceOnboarding -------------------------
(***************************************************************************)
(* Small instances of DeviceOnboarding and ReportsPage for TLC.            *)
(* The pages share no state, so that they are explored side by side: the   *)
(* initial state chooses the page that is open, the other stays where it   *)
(* starts.                                                                 *)
(*                                                                         *)
(* The constants of the configuration are those of DeviceOnboarding, and   *)
(* those of ReportsPage.  A device is registered by the form or by the     *)
(* dialog; the reports are about figures or about mails.                   *)
(***************************************************************************)
EXTENDS DeviceOnboarding, TLC

CONSTANTS
    Alike,                                      \* configurations that differ in blanks
    Age, Slot, Window, Target, Recipient, Sends \* of ReportsPage

(* Sets of credentials for one address.                                    *)
OneAddress == [f \in Config |-> "a"]
Trimmed    == [f \in Config |-> IF f \in Alike THEN "f" ELSE f]
Symmetry   == Permutations(Token) \cup Permutations(Call) \cup Permutations(Alike) \cup Permutations(Slot)

VARIABLES
    opened,                                                         \* what is in use
    incidents, target, mailed, deliveries, sends, days, sla, listed, slaTarget, recipients,
    history, generating, savingTarget, printed, failed, late, handlers  \* of ReportsPage

(* Every handler of the reports, overlapping, with failures.               *)
Reports == INSTANCE ReportsPage WITH
    Call <- Slot,
    stored <- mailed, loading <- generating, overtaken <- late, calls <- handlers

ASSUME ReportsAssumption == Reports!ReportsPageAssumption

reportsVars == <<incidents, target, mailed, deliveries, sends, days, sla, listed, slaTarget, recipients,
                 history, generating, savingTarget, printed, failed, late, handlers>>
allVars     == <<opened, vars, reportsVars>>

(* One of the initial states of the reports.                               *)
Some(S)        == CHOOSE x \in S : TRUE
ReportsAtStart == Reports!Init /\ target = Some(Target) /\ slaTarget = target

(* The handlers that are used: those of the figures, or of the mails.      *)
Unused(ops) == \A c \in Slot : handlers'[c] # Reports!Idle => handlers'[c].op \notin ops

EachInit ==
    \/ opened = "form"    /\ Init /\ ReportsAtStart
    \/ opened = "dialog"  /\ Init /\ ReportsAtStart
    \/ opened = "reports" /\ Init /\ Reports!Init
    \/ opened = "mails"   /\ Init /\ ReportsAtStart

EachNext ==
    \/ opened = "form"    /\ Next         /\ UNCHANGED <<opened, reportsVars>> /\ dialog' = None
    \/ opened = "dialog"  /\ Next         /\ UNCHANGED <<opened, reportsVars>> /\ form' = "blank"
    \/ opened = "reports" /\ Reports!Next /\ UNCHANGED <<opened, vars>> /\ Unused({"add", "remove", "send"})
    \/ opened = "mails"   /\ Reports!Next /\ UNCHANGED <<opened, vars>> /\ Unused({"saveTarget", "print"})

EachSpec == EachInit /\ [][EachNext]_allVars
-----------------------------------------------------------------------------
(* "Meets target" (Reports.tsx:190): at rest and with nothing failed, the  *)
(* target the report shown was measured by is the one stored, however      *)
(* generating and saving overlap - unless a target was saved while a       *)
(* report read before it was on its way, which may arrive after the one    *)
(* that saving generates.                                                  *)
ReportHasTarget == Reports!ReportHasTarget
=============================================================================
