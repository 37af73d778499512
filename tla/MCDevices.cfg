\* Two devices, two handlers at once; as the legacy and as the new application;
\* beside them two alerts, of which an answer holds one of a status, and the
\* handlers of the page of incidents.
SPECIFICATION EachSpec
CONSTANTS
    Device = {d1, d2}
    Call = {"c1", "c2"}
    App = "legacy"
    Jumps = TRUE
    Faults = TRUE
    Alert = {1, 2}
    Limit = 1
    Slot = {h1, h2}
    CardTabs = {"open", "resolved", "all"}
    CardButtons = {"acknowledge", "resolve", "simulateDown", "simulateRecover"}
    LoneAlert = {1}
    DialogButtons = {"assign", "mute", "comment", "timeline"}
    First = "c1"
SYMMETRY Symmetry
INVARIANTS DeletingTellsHandler DeletesDeviceShownByNew ResolvedShownIsResolved
    AllMissesOnlyOlder OneSubmission
\* The user may have nothing left to press.
CHECK_DEADLOCK FALSE
