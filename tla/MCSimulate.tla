----------------------------- MODULE MCSimulate -----------------------------
(***************************************************************************)
(* Three further conditions for TLC, explored side by side: the initial    *)
(* state chooses one.  Nobody simulates and the device, a YAML switch,     *)
(* answers every probe while it is deleted and registered, as the          *)
(* constants of the configuration say; or simulate requests race the       *)
(* workers; or the state machine alone meets every sequence of results.    *)
(***************************************************************************)
EXTENDS MCDeviceHealth, DeviceHistory, FiniteSets

CONSTANT o1

VARIABLE condition

Simulated == INSTANCE DeviceHealth WITH
    YamlHost <- {}, Silent <- Addr, Operator <- {o1}, MaxRow <- 1, Faults <- TRUE

EitherInit == /\ HistoryInit
              /\ \/ condition \in {"answering", "history"} /\ Init
                 \/ condition = "simulated" /\ Simulated!Init

EitherNext ==
    /\ UNCHANGED condition
    /\ \/ condition = "answering" /\ Next           /\ UNCHANGED historyVars
       \/ condition = "simulated" /\ Simulated!Next /\ UNCHANGED historyVars
       \/ condition = "history"   /\ HistoryNext    /\ UNCHANGED vars

EitherSpec == EitherInit /\ [][EitherNext]_<<condition, vars, historyVars>>
-----------------------------------------------------------------------------
(* The probe decides: a device that answers every probe is charged with a  *)
(* failure at most once by each worker after it was registered, by a poll  *)
(* begun before (PollInterfaces, PollFailed), so that fewer workers than   *)
(* the threshold never take it DOWN.                                       *)
AnsweringStaysUp ==
    condition = "answering" =>
        \A h \in Host : devices[h].id # 0 /\ Address[h] \notin Silent =>
            LET s == device_state[devices[h].id] IN
            /\ s.failures <= Cardinality(Worker)
            /\ Cardinality(Worker) < FailThreshold => s.current_state # "DOWN"
=============================================================================
