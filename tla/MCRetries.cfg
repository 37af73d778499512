\* The senders of two alerts' ends, while polls begin and return; no faults.
SPECIFICATION Spec
CONSTANTS
    Webhook = {w1}
    Event = {e1}
    Existing = {w1}
    Link = {l1}
    Outage = {}
    MaxAttempts = 5
    Polls = 1
    Call = {}
    Faults = FALSE
INVARIANT FailuresAreRetried
