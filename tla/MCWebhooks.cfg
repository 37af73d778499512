\* A destination deleted, disabled and tested while its senders run; beside it the
\* settings and the frame of the legacy application and the lists.
SPECIFICATION EachSpec
CONSTANTS
    w1 = w1  l1 = l1
    Webhook = {w1}
    Event = {e1}
    Existing = {w1}
    Link = {l1}
    Outage = {}
    MaxAttempts = 2
    Polls = 2
    Call = {c1}
    Faults = FALSE
    One = 1
    Invite = {"i1"}
    Hook = {"w1"}
    Plan = {"p1", "p2"}
    TabNames = {"billing", "alerts"}
    Moves = 2
    Tenant = {"t1", "t2"}
    Home = "t1"
    Invited = "t2"
    Request = {1, 2, 3}
    Failures = FALSE
    Row = {"r1"}
    Loader = {1, 2}
INVARIANTS LiveSendersPersist DeliveriesHaveOwners ShownIsStored TenantShownIsActive
    EmptyWasRead
\* The poller has no poll left.
CHECK_DEADLOCK FALSE
