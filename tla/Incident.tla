------------------------------ MODULE Incident ------------------------------
(***************************************************************************)
(* What the service promises about outages, without polls, counters,       *)
(* transactions or workers: each tracked device has an availability, and a *)
(* DEVICE_DOWN incident is opened by the very step that takes the device   *)
(* down and closed no later than the step that takes it up again.  People  *)
(* may dismiss an open incident early; a deleted device leaves nothing.    *)
(***************************************************************************)
CONSTANT Device

VARIABLES avail,     \* [Device -> "NONE" or device_state.current_state]
          open       \* [Device -> BOOLEAN]: an active DEVICE_DOWN alert exists

vars == <<avail, open>>

Init == /\ avail = [d \in Device |-> "NONE"]
        /\ open = [d \in Device |-> FALSE]

(* The first poll result of a device.                                      *)
Track(d) == /\ avail[d] = "NONE"
            /\ avail' = [avail EXCEPT ![d] = "UNKNOWN"]
            /\ UNCHANGED open

(* The outage begins, and with it the incident.                            *)
Fall(d) == /\ avail[d] \in {"UNKNOWN", "UP"}
           /\ avail' = [avail EXCEPT ![d] = "DOWN"]
           /\ open' = [open EXCEPT ![d] = TRUE]

(* The outage ends, and with it the incident unless it was dismissed.      *)
Rise(d) == /\ avail[d] = "DOWN"
           /\ avail' = [avail EXCEPT ![d] = "UP"]
           /\ open' = [open EXCEPT ![d] = FALSE]

Dismiss(d) == /\ open[d]
              /\ open' = [open EXCEPT ![d] = FALSE]
              /\ UNCHANGED avail

Forget(d) == /\ avail[d] # "NONE"
             /\ avail' = [avail EXCEPT ![d] = "NONE"]
             /\ open' = [open EXCEPT ![d] = FALSE]

Next == \E d \in Device :
            Track(d) \/ Fall(d) \/ Rise(d) \/ Dismiss(d) \/ Forget(d)

Spec == Init /\ [][Next]_vars
=============================================================================
