------------------------------ MODULE Accounts ------------------------------
(***************************************************************************)
(* How people get accounts and become members of tenants: the sign-up,     *)
(* login and invite pages of the web application (Signup.tsx, Login.tsx,   *)
(* AcceptInvite.tsx, Root.tsx) and the handlers behind them                *)
(* (internal/server/auth.go, tenant_admin.go), cut at their statements:    *)
(* no handler runs in a transaction, and each statement may fail.  A       *)
(* tenant that a member creates and changes of a role are in               *)
(* TenantSettings; the seeding of demo mode is left out.                   *)
(***************************************************************************)
EXTENDS Naturals

CONSTANTS
    Email,        \* addresses as they are spelled
    Lower,        \* the spelling in lower case of each
    Tenant, Invite, Browser,
    Default,      \* the tenants that may come to have the default slug
    Uses,         \* what is in use: "signup", "join" (POST /tenants/invites/accept, which no page sends)
    Faults        \* BOOLEAN: statements may fail

None == "none"

AccountsAssumption ==
    /\ Lower \in [Email -> Email] /\ \A e \in Email : Lower[Lower[e]] = Lower[e]
    /\ Default \subseteq Tenant
    /\ Uses \subseteq {"signup", "join"} /\ Faults \in BOOLEAN
    /\ None \notin Email \cup Tenant \cup Invite

VARIABLES
    accounts,     \* rows of users with each email
    role,         \* user_tenants
    founder,      \* history: who a tenant was created for
    unnamed,      \* history: whose sign-up named no organization
    invites,      \* tenant_invites
    drawn,        \* invites whose row was made
    cookie,       \* who each browser is logged in as
    page,         \* the page of each browser
    calls         \* the request of each browser

db     == <<accounts, role, founder, unnamed, invites, drawn>>
vars   == <<db, cookie, page, calls>>

Role == {"owner", "viewer"}
Idle == [op |-> None]
-----------------------------------------------------------------------------
(* The server.                                                             *)
At(b, op, pc) == calls[b] # Idle /\ calls[b].op = op /\ calls[b].pc = pc
Goto(b, pc)   == calls' = [calls EXCEPT ![b].pc = pc]
Browsers      == <<cookie, page>>

NoneTaken(e) == TRUE \* mutant
Unique(e)    == accounts[e] = 0               \* users.email is UNIQUE
MemberOfAny(e) == \E t \in Tenant : role[e][t] # None

(* The tenant of a new session is one the account is a member of.          *)
handleAuthLogin(b) ==
    /\ At(b, "login", "begin")
    /\ IF accounts[calls[b].email] > 0 /\ MemberOfAny(calls[b].email)
       THEN Goto(b, "ok") /\ cookie' = [cookie EXCEPT ![b] = calls[b].email]
       ELSE Goto(b, "failed") /\ UNCHANGED cookie
    /\ UNCHANGED <<db, page>>

handleAuthMe(b) ==
    /\ At(b, "session", "begin")
    /\ Goto(b, IF cookie[b] # None /\ MemberOfAny(cookie[b]) THEN "ok" ELSE "failed")
    /\ UNCHANGED <<db, Browsers>>

Usable(i) == i \in drawn /\ ~invites[i].accepted /\ invites[i].live

(* A used or expired invite is refused, and so is one for an account that  *)
(* exists under the lower-case spelling: that one has to accept it.        *)
RegisterInviteChecks(b) ==
    /\ At(b, "invite", "begin")
    /\ LET i == calls[b].invite  e == Lower[invites[i].email] IN
       IF Usable(i) /\ accounts[e] = 0
       THEN calls' = [calls EXCEPT ![b].pc = "create", ![b].email = e, ![b].tenant = invites[i].tenant]
       ELSE Goto(b, "failed")
    /\ UNCHANGED <<db, Browsers>>

EmailIgnored(b, i) == TRUE \* mutant
MayAccept(b, i) == Lower[cookie[b]] = Lower[invites[i].email]

handleAcceptInviteChecks(b) ==
    /\ At(b, "join", "begin")
    /\ LET i == calls[b].invite IN
       IF Usable(i) /\ MayAccept(b, i)
       THEN calls' = [calls EXCEPT ![b].pc = "member", ![b].tenant = invites[i].tenant]
       ELSE Goto(b, "failed")
    /\ UNCHANGED <<db, Browsers>>

Signs(r) == r.op \in {"register", "unnamed"}

(* A sign-up goes on with a tenant: one of its own when it named an        *)
(* organization, the default one when the name was blank.                  *)
CreateUser(b) ==
    /\ At(b, "register", "begin") \/ At(b, "unnamed", "begin") \/ At(b, "invite", "create")
    /\ LET e == calls[b].email IN
       IF Unique(e)
       THEN /\ accounts' = [accounts EXCEPT ![e] = @ + 1]
            /\ unnamed' = IF calls[b].op = "unnamed" THEN unnamed \cup {e} ELSE unnamed
            /\ Goto(b, IF Signs(calls[b]) THEN "tenant" ELSE "member")
       ELSE UNCHANGED <<accounts, unnamed>> /\ Goto(b, "failed")
    /\ UNCHANGED <<role, founder, invites, drawn, Browsers>>

CreateTenant(b) ==
    /\ At(b, "register", "tenant")
    /\ \E t \in Tenant :
          /\ founder[t] = None
          /\ founder' = [founder EXCEPT ![t] = calls[b].email]
          /\ calls' = [calls EXCEPT ![b].pc = "member", ![b].tenant = t]
    /\ UNCHANGED <<accounts, role, unnamed, invites, drawn, Browsers>>

(* GetTenantBySlug of the default slug.  It may find none: the slug of a   *)
(* tenant can be changed.                                                  *)
FindDefaultTenant(b) ==
    /\ At(b, "unnamed", "tenant")
    /\ \/ \E t \in Default : /\ founder[t] # None
                             /\ calls' = [calls EXCEPT ![b].pc = "member", ![b].tenant = t]
       \/ Goto(b, "ok")
    /\ UNCHANGED <<db, Browsers>>

(* INSERT ... ON CONFLICT DO UPDATE SET role.                              *)
AddUserToTenant(b) ==
    /\ calls[b] # Idle /\ calls[b].pc = "member"
    /\ LET r == calls[b] IN
       /\ role' = [role EXCEPT ![r.email][r.tenant] =
                       IF Signs(r) THEN "owner" ELSE invites[r.invite].role]
       /\ Goto(b, IF Signs(r) THEN "ok" ELSE "mark")
    /\ UNCHANGED <<accounts, founder, unnamed, invites, drawn, Browsers>>

MarkInviteAccepted(b) ==
    /\ calls[b] # Idle /\ calls[b].pc = "mark"
    /\ invites' = [invites EXCEPT ![calls[b].invite].accepted = TRUE]
    /\ Goto(b, "ok")
    /\ cookie' = IF calls[b].op = "invite" THEN [cookie EXCEPT ![b] = calls[b].email] ELSE cookie
    /\ UNCHANGED <<accounts, role, founder, unnamed, drawn, page>>

(* A statement fails, and the request with it: but for the default tenant, *)
(* which is given or not, the answer is the same.                          *)
Fail(b) ==
    /\ Faults /\ calls[b] # Idle /\ calls[b].pc \notin {"ok", "failed"}
    /\ Goto(b, IF calls[b].op = "unnamed" /\ calls[b].pc # "begin" THEN "ok" ELSE "failed")
    /\ UNCHANGED <<db, Browsers>>

(* handleCreateInvite, for the tenant of whoever asks; the email is        *)
(* lowered.  handleDeleteInvite and time end an invite.                    *)
CreateInvite(i, e, t, r) ==
    /\ i \notin drawn /\ \E o \in Email : role[o][t] # None
    /\ drawn' = drawn \cup {i}
    /\ invites' = [invites EXCEPT ![i] =
                      [email |-> Lower[e], tenant |-> t, role |-> r, accepted |-> FALSE, live |-> TRUE]]
    /\ UNCHANGED <<accounts, role, founder, unnamed, Browsers, calls>>

EndInvite(i) ==
    /\ i \in drawn /\ invites[i].live
    /\ invites' = [invites EXCEPT ![i].live = FALSE]
    /\ UNCHANGED <<accounts, role, founder, unnamed, drawn, Browsers, calls>>

Server(b) ==
    \/ handleAuthLogin(b) \/ handleAuthMe(b) \/ RegisterInviteChecks(b) \/ handleAcceptInviteChecks(b)
    \/ CreateUser(b) \/ CreateTenant(b) \/ FindDefaultTenant(b)
    \/ AddUserToTenant(b) \/ MarkInviteAccepted(b) \/ Fail(b)
-----------------------------------------------------------------------------
(* The pages.  A button is disabled while its request is in progress.      *)
Send(b, op, e, i) ==
    calls' = [calls EXCEPT ![b] = [op |-> op, pc |-> "begin", email |-> e, invite |-> i, tenant |-> None]]
Released(b) == [calls EXCEPT ![b] = Idle]

Ask(b, on, op, e, i) ==
    /\ calls[b] = Idle /\ page[b] = on
    /\ Send(b, op, e, i) /\ UNCHANGED <<db, Browsers>>

SubmitLogin(b, e)  == Ask(b, "login", "login", e, None)
SubmitSignup(b, e) ==                         \* the page requires a name, and takes one of blanks
    "signup" \in Uses /\ \E op \in {"register", "unnamed"} : Ask(b, "signup", op, e, None)
SubmitInvite(b, i) == i \in drawn /\ Ask(b, "invite", "invite", invites[i].email, i)
Join(b, i) == /\ "join" \in Uses /\ i \in drawn /\ cookie[b] # None
              /\ Ask(b, "app", "join", cookie[b], i)

(* Root is mounted and asks for the session.                               *)
EnterApp(b) ==
    /\ page' = [page EXCEPT ![b] = "checking"]
    /\ Send(b, "session", calls[b].email, None)

(* Signup.tsx logs in with what it registered, then enters.                *)
Answered(b) ==
    /\ calls[b] # Idle
    /\ LET r == calls[b] IN
       \/ r.pc = "ok" /\ Signs(r) /\ Send(b, "login", r.email, None) /\ UNCHANGED page
       \/ r.pc = "ok" /\ r.op \in {"login", "invite"} /\ EnterApp(b)
       \/ r.pc \in {"ok", "failed"} /\ r.op = "session" /\ calls' = Released(b)
          /\ page' = [page EXCEPT ![b] = IF r.pc = "ok" THEN "app" ELSE "login"]
       \/ r.pc = "failed" /\ r.op # "session" /\ calls' = Released(b) /\ UNCHANGED page
       \/ r.pc = "ok" /\ r.op = "join" /\ calls' = Released(b) /\ UNCHANGED page
    /\ UNCHANGED <<db, cookie>>

handleLogout(b) ==
    /\ page[b] = "app" /\ calls[b] = Idle
    /\ cookie' = [cookie EXCEPT ![b] = None] /\ page' = [page EXCEPT ![b] = "login"]
    /\ UNCHANGED <<db, calls>>

Visit(b, p) ==                                \* the links between the forms, and the link of an invite
    /\ calls[b] = Idle /\ p # page[b]
    /\ page' = [page EXCEPT ![b] = p] /\ UNCHANGED <<db, cookie, calls>>
-----------------------------------------------------------------------------
(* A tenant with its owner is there from the start (the demo's seed).      *)
Init ==
    \E t \in Tenant, e \in Email :
        /\ Lower[e] = e
        /\ accounts = [f \in Email |-> IF f = e THEN 1 ELSE 0]
        /\ role = [f \in Email |-> [s \in Tenant |-> IF f = e /\ s = t THEN "owner" ELSE None]]
        /\ founder = [s \in Tenant |-> IF s = t THEN e ELSE None] /\ unnamed = {}
        /\ invites = [i \in Invite |-> None] /\ drawn = {}
        /\ cookie = [b \in Browser |-> None] /\ page = [b \in Browser |-> "login"]
        /\ calls = [b \in Browser |-> Idle]

Next ==
    \/ \E b \in Browser :
          \/ Server(b) \/ Answered(b) \/ handleLogout(b)
          \/ \E e \in Email : SubmitLogin(b, e) \/ SubmitSignup(b, e)
          \/ \E i \in Invite : SubmitInvite(b, i) \/ Join(b, i)
          \/ \E p \in {"login", "signup", "invite"} : Visit(b, p)
    \/ \E i \in Invite : EndInvite(i)
    \/ \E i \in Invite, e \in Email, t \in Tenant, r \in Role : CreateInvite(i, e, t, r)

Spec == Init /\ [][Next]_vars
-----------------------------------------------------------------------------
(* However sign-ups and acceptances of one address overlap, it has one     *)
(* account (the check of register-invite is not atomic with its insert).   *)
OneAccountPerEmail == \A e \in Email : accounts[e] <= 1

(* Whoever is a member founded the tenant, or was invited to it at that    *)
(* address and for that role, or is an owner of the default tenant who     *)
(* signed up without naming an organization (auth.go:380): however         *)
(* requests overlap or fail halfway, no other way leads into a tenant.     *)
MembersWereLetIn == \A e \in Email, t \in Tenant : role[e][t] # None =>
    \/ founder[t] = e /\ role[e][t] = "owner"
    \/ e \in unnamed /\ t \in Default /\ role[e][t] = "owner"
    \/ \E i \in drawn : /\ invites[i].tenant = t /\ invites[i].role = role[e][t]
                        /\ invites[i].email = Lower[e]
=============================================================================
