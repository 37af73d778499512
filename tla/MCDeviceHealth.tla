--------------------------- MODULE MCDeviceHealth ---------------------------
(***************************************************************************)
(* Small instances of DeviceHealth for TLC.                                *)
(***************************************************************************)
EXTENDS DeviceHealth, TLC

CONSTANTS w1, w2, a1, a2, h1, h2, ip1, ip2

(* Each host at an address of its own, or both at the same one.            *)
OwnAddress    == [h \in Host |-> IF h = h1 THEN ip1 ELSE ip2]
SharedAddress == [h \in Host |-> ip1]

(* Workers are interchangeable, and so are alert ids.                      *)
Symmetry == Permutations(Worker) \cup Permutations(AlertId)
=============================================================================
