--------------------------- MODULE LegacySession ---------------------------
(***************************************************************************)
(* The session of the legacy application (legacy/App.jsx): AuthContext     *)
(* asks once, when it is mounted, who is logged in; RequireAuth and the    *)
(* login page redirect by its answer; the frame (Layout.jsx) shows the     *)
(* active tenant and reloads the page after a switch.  What is true is in  *)
(* the cookie, which answers replace when they arrive.                     *)
(***************************************************************************)
CONSTANTS
    Tenant,
    Home,         \* tenant of a login
    Invited,      \* tenant of the invite
    Call,         \* bound: requests in progress
    Forms,        \* may happen too: "invite", that form is used; "early", a login is sent before
                  \* the check has ended; "torn", an answer breaks off after its headers
    Faults        \* BOOLEAN: requests may fail, or be aborted after timeout

None    == "none"
Foreign == "foreign"      \* a cookie signed with another secret

LegacySessionAssumption ==
    /\ {Home, Invited} \subseteq Tenant /\ {None, Foreign} \cap Tenant = {}
    /\ Forms \subseteq {"invite", "early", "torn"} /\ Faults \in BOOLEAN

VARIABLES
    cookie,       \* the tenant of the session the browser holds, None or Foreign
    user,         \* AuthContext: somebody is logged in
    checking,     \* AuthContext: loading
    error,        \* AuthContext: "Unable to verify session."
    page,         \* the route
    submitting,   \* Login.jsx, AcceptInvite.jsx: the form was sent
    accepted,     \* AcceptInvite.jsx: the timer that leaves the page runs
    active,       \* Layout.jsx: activeTenant
    tenants,      \* Layout.jsx: the tenants are loaded, and there is a select to choose from
    calls         \* requests in progress

vars == <<cookie, user, checking, error, page, submitting, accepted, active, tenants, calls>>

Page    == {"app", "login", "invite"}
Idle    == [op |-> None]
-----------------------------------------------------------------------------
NoCalls       == [c \in Call |-> Idle]
Free(c)       == calls[c] = Idle
Sent(op, to)  == [op |-> op, pc |-> "sent", here |-> TRUE, at |-> cookie, to |-> to]
Done(c)       == [calls EXCEPT ![c] = Idle]

(* RequireAuth sends who is not logged in to the login page, and the login *)
(* page sends who is to the application.                                   *)
Routed(p, u, loading) ==
    IF p = "app" /\ ~loading /\ ~u THEN "login"
    ELSE IF p = "login" /\ u THEN "app"
    ELSE p

Inside(p, u, loading) == p = "app" /\ u /\ ~loading

(* Handlers of a component that was unmounted set no state of the next one. *)
Left(cs) == [c \in Call |-> IF cs[c] = Idle THEN Idle ELSE [cs[c] EXCEPT !.here = FALSE]]

(* What React does with a new state: the redirects, what leaving a page    *)
(* drops and, when the frame is mounted or gets another user, its effect,  *)
(* which asks for the tenants and the active one: two requests, which one  *)
(* stands for, since it waits for both.  busy: the form is still waiting.  *)
Commit(p, who, loading, busy, ended) ==
    LET u     == who = "new" \/ (who = "same" /\ user)
        to    == Routed(p, u, loading)
        moved == to # page \/ Inside(to, u, loading) # Inside(page, user, checking)
        cs    == IF moved THEN Left(ended) ELSE ended
    IN
    /\ page' = to /\ user' = u /\ checking' = loading
    /\ submitting' = (busy /\ ~moved)
    /\ active' = (IF moved THEN None ELSE active)
    /\ tenants' = (tenants /\ ~moved /\ ~(who = "new" /\ Inside(to, u, loading)))
    /\ IF (moved \/ who = "new") /\ Inside(to, u, loading)
       THEN \E c \in Call : cs[c] = Idle /\ calls' = [cs EXCEPT ![c] = Sent("tenant", None)]
       ELSE calls' = cs

(* A fresh document at page p: everything is forgotten but the cookie.     *)
Mounted(p) ==
    /\ user' = FALSE /\ checking' = TRUE /\ error' = FALSE /\ page' = p
    /\ submitting' = FALSE /\ accepted' = FALSE /\ active' = None /\ tenants' = FALSE
    /\ \E c \in Call : calls' = [NoCalls EXCEPT ![c] = Sent("me", None)]
-----------------------------------------------------------------------------
(* The server.                                                             *)
Answer(c, pc) == calls' = [calls EXCEPT ![c].pc = pc]
Shown == <<user, checking, error, page, submitting, accepted, active, tenants>>

(* What ends the wait of fetchWithTimeout: the headers of an answer, which *)
(* bring its cookie, or its error.  "open": the body is still to come.     *)
Respond(c) ==
    /\ ~Free(c) /\ calls[c].pc = "sent"
    /\ LET r == calls[c]  session == r.at \in Tenant IN
       \/ /\ r.op \in {"me", "tenant", "switch"}
          /\ Answer(c, IF session THEN "open" ELSE "401")
          /\ cookie' = IF r.op = "switch" /\ session THEN r.to ELSE cookie
       \/ /\ r.op \in {"login", "invite"}
          /\ \/ Answer(c, "open") /\ cookie' = r.to
             \/ Answer(c, "401") /\ UNCHANGED cookie      \* wrong password; unknown or used invite
       \/ r.op = "logout" /\ Answer(c, "open") /\ cookie' = None
       \/ Faults /\ Answer(c, "failed") /\ UNCHANGED cookie
    /\ UNCHANGED Shown

(* Its body: response.json() is returned without being awaited, so that    *)
(* the timer is cleared by then and nothing aborts a body that stalls.     *)
Opened(c) == ~Free(c) /\ calls[c].pc = "open"

Body(c) ==
    /\ Opened(c)
    /\ Answer(c, "ok") \/ ("torn" \in Forms /\ Answer(c, "failed"))
    /\ UNCHANGED <<cookie, Shown>>
-----------------------------------------------------------------------------
(* AuthContext.                                                            *)
Ended(c, op) == ~Free(c) /\ calls[c].op = op /\ calls[c].pc \notin {"sent", "open"}

StillChecking(pc) == pc = "failed" \* mutant
CheckingAfter(pc) == FALSE

refresh(c) ==
    /\ Ended(c, "me")
    /\ LET pc == calls[c].pc IN
       /\ error' = (pc = "failed")
       /\ Commit(page, CASE pc = "ok" -> "new" [] pc = "401" -> "nobody" [] OTHER -> "same",
                 CheckingAfter(pc), submitting, Done(c))
    /\ UNCHANGED <<cookie, accepted>>

login(c) ==
    /\ page = "login" /\ ~submitting /\ Free(c) /\ (checking => "early" \in Forms)
    /\ submitting' = TRUE /\ error' = FALSE
    /\ calls' = [calls EXCEPT ![c] = Sent("login", Home)]
    /\ UNCHANGED <<cookie, user, checking, page, accepted, active, tenants>>

BusyAfter(c) == submitting /\ ~calls[c].here

LoginAnswered(c) ==
    /\ Ended(c, "login")
    /\ IF calls[c].pc = "ok" THEN Commit("app", "new", checking, BusyAfter(c), Done(c))
       ELSE Commit(page, "same", checking, BusyAfter(c), Done(c))
    /\ UNCHANGED <<cookie, error, accepted>>

logout(c) ==
    /\ Inside(page, user, checking) /\ Free(c)
    /\ error' = FALSE
    /\ calls' = [calls EXCEPT ![c] = Sent("logout", None)]
    /\ UNCHANGED <<cookie, user, checking, page, submitting, accepted, active, tenants>>

LogoutAnswered(c) ==
    /\ Ended(c, "logout")
    /\ Commit(page, "nobody", checking, submitting, Done(c))
    /\ UNCHANGED <<cookie, error, accepted>>
-----------------------------------------------------------------------------
(* AcceptInvite.jsx.                                                       *)
submit(c) ==
    /\ "invite" \in Forms /\ page = "invite" /\ ~submitting /\ Free(c)
    /\ submitting' = TRUE
    /\ calls' = [calls EXCEPT ![c] = Sent("invite", Invited)]
    /\ UNCHANGED <<cookie, user, checking, error, page, accepted, active, tenants>>

InviteAnswered(c) ==
    /\ Ended(c, "invite")
    /\ submitting' = BusyAfter(c)
    /\ accepted' = (accepted \/ calls[c].pc = "ok")
    /\ calls' = Done(c)
    /\ UNCHANGED <<cookie, user, checking, error, page, active, tenants>>

(* setTimeout: nothing cancels it, and nothing asks who is logged in.      *)
Redirect ==
    /\ accepted
    /\ accepted' = FALSE
    /\ Commit("app", "same", checking, submitting, calls)
    /\ UNCHANGED <<cookie, error>>

SignIn ==                                   \* the link of the invite page
    /\ page = "invite"
    /\ Commit("login", "same", checking, submitting, calls)
    /\ UNCHANGED <<cookie, error, accepted>>
-----------------------------------------------------------------------------
(* Layout.jsx.                                                             *)
TenantAnswered(c) ==
    /\ Ended(c, "tenant")
    /\ LET r == calls[c] IN
       IF r.here
       THEN /\ active' = IF r.pc = "ok" THEN r.at ELSE None
            /\ CASE r.pc = "401" -> tenants' = FALSE
                 [] r.pc = "ok" /\ ~Faults -> tenants' = TRUE
                 [] OTHER -> tenants' \in BOOLEAN       \* either of the two may have failed
       ELSE UNCHANGED <<active, tenants>>
    /\ calls' = Done(c)
    /\ UNCHANGED <<cookie, user, checking, error, page, submitting, accepted>>

handleTenantChange(c, t) ==
    /\ Inside(page, user, checking) /\ tenants /\ t # active /\ Free(c)
    /\ calls' = [calls EXCEPT ![c] = Sent("switch", t)]
    /\ UNCHANGED <<cookie, Shown>>

NoReload(c) == calls' = Done(c) /\ UNCHANGED Shown \* mutant
Reload(c)   == Mounted(page)

TenantChanged(c) ==
    /\ Ended(c, "switch") /\ UNCHANGED cookie
    /\ IF calls[c].pc = "ok" THEN Reload(c) ELSE calls' = Done(c) /\ UNCHANGED Shown

(* A link, the address bar, the reload button; seeding demo data reloads.  *)
Visit(p) == Mounted(p) /\ UNCHANGED cookie
-----------------------------------------------------------------------------
Init ==
    /\ cookie \in Tenant \cup {None, Foreign}
    /\ user = FALSE /\ checking = TRUE /\ error = FALSE /\ page \in Page
    /\ submitting = FALSE /\ accepted = FALSE /\ active = None /\ tenants = FALSE
    /\ \E c \in Call : calls = [NoCalls EXCEPT ![c] = Sent("me", None)]

Continue(c) ==
    \/ refresh(c) \/ LoginAnswered(c) \/ LogoutAnswered(c) \/ InviteAnswered(c)
    \/ TenantAnswered(c) \/ TenantChanged(c)

Next ==
    \/ \E c \in Call :
          \/ Respond(c) \/ Body(c) \/ Continue(c) \/ login(c) \/ logout(c) \/ submit(c)
          \/ \E t \in Tenant : handleTenantChange(c, t)
    \/ Redirect \/ SignIn
    \/ \E p \in Page : Visit(p)

(* fetchWithTimeout aborts after 5 seconds a request whose headers have    *)
(* not come; no fairness for the bodies.                                   *)
Spec == Init /\ [][Next]_vars /\ \A c \in Call : WF_vars(Respond(c)) /\ WF_vars(Continue(c))
-----------------------------------------------------------------------------
(* At rest the frame shows the tenant of the session or none, however      *)
(* switches, logins, logouts and reloads overlap (handleTenantChange       *)
(* reloads the page).  With a form of Forms it is not so: after an invite  *)
(* accepted while logged in, after a login sent before the check has       *)
(* ended, whose frame an older check answers, and after a switch whose     *)
(* answer is torn, the frame may go on showing the tenant of before.       *)
TenantShownIsActive ==
    Inside(page, user, checking) /\ (\A c \in Call : Free(c)) => active \in {None, cookie}

(* A user who at last stops reloading sees "Checking session..."           *)
(* (RequireAuth) go away, if no answer stays open for ever: a body that    *)
(* stalls leaves it there.                                                 *)
Patient == <>[][\A p \in Page : ~Visit(p)]_vars
Read    == \A c \in Call : []<>~Opened(c)
CheckingEnds == Patient /\ Read => (checking ~> ~checking)
=============================================================================
