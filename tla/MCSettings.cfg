\* Two tenants to switch between, with changes to their members; beside it a member
\* whose requests are lost, every control that is held, and the accounts.
SPECIFICATION EachSpec
CONSTANTS
    Tenant = {t1, t2}
    t1 = t1
    t2 = t2
    User = {me, u1}
    Invite = {i1}
    Me = me
    Home = t1
    Joined = {t1, t2}
    Call = {c1, c2}
    Buttons = {"switch", "member"}
    Faults = FALSE
    Slot = {s1, s2}
    Email = {"s", "o"}
    Lower <- SameSpelling
    Company = {"p1", "p2"}
    Letter = {"i1"}
    Browser = {b1, b2}
    Shared = "p1"
    Staff = "s"
    Employer = "p1"
SYMMETRY Symmetry
INVARIANTS SettledIsActive HeldControlsTold OneAccountPerEmail MembersWereLetIn
\* A page whose load failed offers none of these controls.
CHECK_DEADLOCK FALSE
