--------------------------- MODULE AccountsProofs ---------------------------
(***************************************************************************)
(* Accounts and memberships for every number of addresses, tenants,        *)
(* invites and browsers, however their requests overlap or fail.           *)
(***************************************************************************)
EXTENDS Accounts, TLAPS

(* The types.  A request names an address, and one that accepts an invite  *)
(* names one whose row was made.                                           *)
Invitation == [email: Email, tenant: Tenant, role: Role, accepted: BOOLEAN, live: BOOLEAN]
Request    == [op: {"login", "session", "invite", "join", "register", "unnamed"},
               pc: {"begin", "create", "tenant", "member", "mark", "ok", "failed"},
               email: Email, invite: Invite \cup {None}, tenant: Tenant \cup {None}]
Accepts(r) == r.op \in {"invite", "join"}

Typed ==
    /\ accounts \in [Email -> Nat]
    /\ role \in [Email -> [Tenant -> Role \cup {None}]]
    /\ founder \in [Tenant -> Email \cup {None}] /\ unnamed \subseteq Email
    /\ drawn \subseteq Invite /\ invites \in [Invite -> Invitation \cup {None}]
    /\ \A i \in drawn : invites[i] \in Invitation
    /\ cookie \in [Browser -> Email \cup {None}]
    /\ calls \in [Browser -> Request \cup {Idle}]
    /\ \A b \in Browser : calls[b] # Idle /\ Accepts(calls[b]) => calls[b].invite \in drawn

(* The invariant.  An invite is of an address in lower case.  Between the  *)
(* check of a request and its insert into user_tenants other requests are  *)
(* served; what the check found holds until then, and a browser that joins *)
(* is logged in as whom it asked for.                                      *)
Lowered == \A i \in drawn : Lower[invites[i].email] = invites[i].email
Registered(r) == r.op = "unnamed" => r.email \in unnamed
Entitled(r) ==
    IF r.op = "register" THEN r.tenant \in Tenant /\ founder[r.tenant] = r.email
    ELSE IF r.op = "unnamed" THEN r.tenant \in Default /\ r.email \in unnamed
    ELSE /\ Accepts(r) /\ invites[r.invite].tenant = r.tenant
         /\ invites[r.invite].email = Lower[r.email]
Checked == \A b \in Browser : calls[b] # Idle =>
    /\ calls[b].pc = "member" => Entitled(calls[b])
    /\ calls[b].pc = "create" => calls[b].op = "invite" /\ Entitled(calls[b])
    /\ calls[b].pc = "tenant" => Registered(calls[b])
    /\ calls[b].pc = "mark" => Accepts(calls[b])
    /\ calls[b].op = "join" => calls[b].email = cookie[b]

IInv == Typed /\ Lowered /\ Checked /\ OneAccountPerEmail /\ MembersWereLetIn

LEMMA NotIdle ==
    ASSUME Typed
    PROVE  /\ \A r \in Request : r # Idle
           /\ \A b \in Browser : calls[b] # Idle => calls[b] \in Request
BY DEF Typed, Request, Idle, None
-----------------------------------------------------------------------------
(* Grants are kept: nobody changes what a tenant was founded for or what   *)
(* an invite that was made is of.                                          *)
GrantsKept ==
    /\ \A t \in Tenant : founder[t] # None => founder'[t] = founder[t]
    /\ unnamed \subseteq unnamed'
    /\ drawn \subseteq drawn'
    /\ \A i \in drawn : /\ invites'[i].email = invites[i].email
                        /\ invites'[i].tenant = invites[i].tenant
                        /\ invites'[i].role = invites[i].role

LEMMA EveryStepKeepsGrants ==
    ASSUME Typed, [Next]_vars
    PROVE  GrantsKept
<1>1. CASE UNCHANGED <<founder, unnamed, invites, drawn>>
  BY <1>1 DEF GrantsKept
<1>2. ASSUME NEW b \in Browser, CreateUser(b) PROVE GrantsKept
  BY <1>2 DEF CreateUser, GrantsKept
<1>3. ASSUME NEW b \in Browser, CreateTenant(b) PROVE GrantsKept
  BY <1>3 DEF CreateTenant, GrantsKept, Typed
<1>4. ASSUME NEW b \in Browser, MarkInviteAccepted(b) PROVE GrantsKept
  BY <1>4 DEF MarkInviteAccepted, GrantsKept, Typed, Invitation
<1>5. ASSUME NEW i \in Invite, EndInvite(i) PROVE GrantsKept
  BY <1>5 DEF EndInvite, GrantsKept, Typed, Invitation
<1>6. ASSUME NEW i \in Invite, NEW e \in Email, NEW t \in Tenant, NEW r \in Role, CreateInvite(i, e, t, r)
      PROVE  GrantsKept
  BY <1>6 DEF CreateInvite, GrantsKept, Typed
<1>7. ASSUME NEW b \in Browser, Server(b), ~CreateUser(b), ~CreateTenant(b), ~MarkInviteAccepted(b)
      PROVE  UNCHANGED <<founder, unnamed, invites, drawn>>
  BY <1>7 DEF Server, handleAuthLogin, handleAuthMe, RegisterInviteChecks, handleAcceptInviteChecks,
              FindDefaultTenant, AddUserToTenant, Fail, db
<1>8. ASSUME NEW b \in Browser,
             \/ Answered(b) \/ handleLogout(b)
             \/ \E e \in Email : SubmitLogin(b, e) \/ SubmitSignup(b, e)
             \/ \E i \in Invite : SubmitInvite(b, i) \/ Join(b, i)
             \/ \E p \in {"login", "signup", "invite"} : Visit(b, p)
      PROVE  UNCHANGED <<founder, unnamed, invites, drawn>>
  BY <1>8 DEF Answered, handleLogout, SubmitLogin, SubmitSignup, SubmitInvite, Join, Ask, Visit, db
<1>9. QED
  BY <1>1, <1>2, <1>3, <1>4, <1>5, <1>6, <1>7, <1>8 DEF Next, vars, db

(* A request that begins or goes on, the others waiting: what holds of it  *)
(* by itself is all there is to show.                                      *)
CallsTyped ==
    /\ calls \in [Browser -> Request \cup {Idle}]
    /\ \A b \in Browser : calls[b] # Idle /\ Accepts(calls[b]) => calls[b].invite \in drawn

LEMMA OneRequest ==
    ASSUME AccountsAssumption, IInv, GrantsKept, NEW b \in Browser, NEW r \in Request,
           calls' = [calls EXCEPT ![b] = r], Accepts(r) => r.invite \in drawn,
           r.pc = "member" => Entitled(r)',
           r.pc = "create" => r.op = "invite" /\ Entitled(r)',
           r.pc = "mark" => Accepts(r), r.pc = "tenant" => Registered(r)',
           \A c \in Browser \ {b} : cookie'[c] = cookie[c], r.op = "join" => r.email = cookie'[b]
    PROVE  CallsTyped' /\ Checked'
<1>1. /\ calls'[b] = r /\ \A c \in Browser \ {b} : calls'[c] = calls[c]
      /\ calls' \in [Browser -> Request \cup {Idle}]
  BY DEF IInv, Typed
<1>2. CallsTyped'
  BY <1>1 DEF CallsTyped, IInv, Typed, GrantsKept
<1>3. ASSUME NEW c \in Browser \ {b}, calls[c] # Idle, Entitled(calls[c]) PROVE Entitled(calls[c])'
  <2>1. calls'[c] = calls[c] /\ calls[c] \in Request /\ calls[c].email # None
    BY <1>1, <1>3, NotIdle DEF IInv, AccountsAssumption, Request
  <2>2. CASE calls[c].op \in {"register", "unnamed"}
    BY <1>3, <2>1, <2>2 DEF Entitled, GrantsKept
  <2>3. CASE calls[c].op \notin {"register", "unnamed"}
    BY <1>3, <2>1, <2>3 DEF Entitled, GrantsKept, IInv, Typed
  <2>4. QED
    BY <2>2, <2>3
<1>4. ASSUME NEW c \in Browser \ {b}, Registered(calls[c]) PROVE Registered(calls[c])'
  BY <1>1, <1>4 DEF Registered, GrantsKept
<1>5. QED
  BY <1>1, <1>2, <1>3, <1>4 DEF IInv, Checked

LEMMA NoRequest ==
    ASSUME AccountsAssumption, IInv, GrantsKept,
           \/ calls' = calls /\ cookie' = cookie
           \/ \E b \in Browser : /\ calls' = [calls EXCEPT ![b] = Idle]
                               /\ \A c \in Browser \ {b} : cookie'[c] = cookie[c]
    PROVE  CallsTyped' /\ Checked'
<1>1. /\ \A c \in Browser : (calls'[c] = calls[c] /\ cookie'[c] = cookie[c]) \/ calls'[c] = Idle
      /\ calls' \in [Browser -> Request \cup {Idle}]
  BY DEF IInv, Typed
<1>2. CallsTyped'
  BY <1>1 DEF CallsTyped, IInv, Typed, GrantsKept
<1>3. ASSUME NEW c \in Browser, calls'[c] # Idle, Entitled(calls[c]) PROVE Entitled(calls[c])'
  <2>1. calls'[c] = calls[c] /\ calls[c] # Idle /\ calls[c] \in Request /\ calls[c].email # None
    BY <1>1, <1>3, NotIdle DEF IInv, AccountsAssumption, Request
  <2>2. CASE calls[c].op \in {"register", "unnamed"}
    BY <1>3, <2>1, <2>2 DEF Entitled, GrantsKept
  <2>3. CASE calls[c].op \notin {"register", "unnamed"}
    BY <1>3, <2>1, <2>3 DEF Entitled, GrantsKept, IInv, Typed
  <2>4. QED
    BY <2>2, <2>3
<1>4. ASSUME NEW c \in Browser, calls'[c] # Idle, Registered(calls[c]) PROVE Registered(calls[c])'
  BY <1>1, <1>4 DEF Registered, GrantsKept
<1>5. QED
  BY <1>1, <1>2, <1>3, <1>4 DEF IInv, Checked

(* Who is a member stays let in while nobody is added.                     *)
LEMMA NobodyAdded ==
    ASSUME AccountsAssumption, IInv, GrantsKept, role' = role
    PROVE  MembersWereLetIn'
<1> SUFFICES ASSUME NEW e \in Email, NEW t \in Tenant, role[e][t] # None
             PROVE  \/ founder'[t] = e /\ role[e][t] = "owner"
                    \/ e \in unnamed' /\ t \in Default /\ role[e][t] = "owner"
                    \/ \E i \in drawn' : /\ invites'[i].tenant = t /\ invites'[i].role = role[e][t]
                                         /\ invites'[i].email = Lower[e]
  BY DEF MembersWereLetIn
<1>1. CASE founder[t] = e /\ role[e][t] = "owner"
  BY <1>1 DEF GrantsKept, AccountsAssumption
<1>2. CASE \E i \in drawn : /\ invites[i].tenant = t /\ invites[i].role = role[e][t]
                            /\ invites[i].email = Lower[e]
  BY <1>2 DEF GrantsKept
<1>3. CASE e \in unnamed /\ t \in Default /\ role[e][t] = "owner"
  BY <1>3 DEF GrantsKept
<1>4. QED
  BY <1>1, <1>2, <1>3 DEF IInv, MembersWereLetIn

(* Steps of requests that change no row.                                   *)
LEMMA NoRowChanged ==
    ASSUME AccountsAssumption, IInv, GrantsKept, UNCHANGED db,
           cookie' \in [Browser -> Email \cup {None}], CallsTyped', Checked'
    PROVE  IInv'
<1>1. MembersWereLetIn'
  BY NobodyAdded DEF db
<1>2. QED
  BY <1>1 DEF IInv, Typed, CallsTyped, Lowered, OneAccountPerEmail, db
-----------------------------------------------------------------------------
(* The server's steps.                                                     *)
LEMMA PlaceChanges ==
    ASSUME AccountsAssumption, IInv, GrantsKept, NEW b \in Browser, calls[b] # Idle,
           NEW q \in Request, q = calls[b],
           NEW pc \in {"tenant", "member", "mark", "ok", "failed"}, Goto(b, pc),
           pc = "member" => Entitled(q)', pc = "mark" => Accepts(q), pc = "tenant" => Registered(q)',
           \A c \in Browser \ {b} : cookie'[c] = cookie[c], q.op = "join" => cookie'[b] = cookie[b]
    PROVE  CallsTyped' /\ Checked'
<1>1. PICK r : r = [q EXCEPT !.pc = pc]
  OBVIOUS
<1>2. r \in Request /\ r.op = q.op /\ r.invite = q.invite /\ r.pc = pc
      /\ r.email = q.email /\ r.tenant = q.tenant
  BY <1>1 DEF Request
<1>3. calls' = [calls EXCEPT ![b] = r]
  BY <1>1 DEF Goto
<1>4. (Accepts(r) => r.invite \in drawn) /\ (Accepts(q) => Accepts(r))
  BY <1>2 DEF IInv, Typed, Accepts
<1>5. pc = "member" => Entitled(r)'
  BY <1>2 DEF Entitled, Accepts
<1>6. pc = "tenant" => Registered(r)'
  BY <1>2 DEF Registered
<1>7. QED
  BY <1>2, <1>3, <1>4, <1>5, <1>6, OneRequest DEF IInv, Checked

LEMMA ChecksKeep ==
    ASSUME AccountsAssumption, IInv, GrantsKept, NEW b \in Browser,
           \/ handleAuthLogin(b) \/ handleAuthMe(b) \/ RegisterInviteChecks(b)
           \/ handleAcceptInviteChecks(b) \/ Fail(b)
    PROVE  IInv'
<1>1. UNCHANGED db /\ calls[b] # Idle
  BY DEF handleAuthLogin, handleAuthMe, RegisterInviteChecks, handleAcceptInviteChecks, Fail, At
<1>2. PICK q \in Request : q = calls[b]
  BY <1>1, NotIdle DEF IInv
<1>3. /\ cookie' \in [Browser -> Email \cup {None}]
      /\ \A c \in Browser \ {b} : cookie'[c] = cookie[c]
      /\ q.op = "join" => cookie'[b] = cookie[b]
  BY <1>2 DEF handleAuthLogin, handleAuthMe, RegisterInviteChecks, handleAcceptInviteChecks, Fail,
              At, Browsers, IInv, Typed, Request
<1>4. CASE \E pc \in {"ok", "failed"} : Goto(b, pc)
  <2>1. CallsTyped' /\ Checked'
    BY <1>1, <1>2, <1>3, <1>4, PlaceChanges
  <2>2. QED
    BY <1>1, <1>3, <2>1, NoRowChanged
<1>5. CASE /\ At(b, "invite", "begin")
           /\ \E e, t : /\ e = Lower[invites[q.invite].email] /\ t = invites[q.invite].tenant
                        /\ calls' = [calls EXCEPT ![b].pc = "create", ![b].email = e, ![b].tenant = t]
  <2>1. q.op = "invite" /\ q.invite \in drawn /\ invites[q.invite] \in Invitation
    BY <1>2, <1>5 DEF At, IInv, Typed, Accepts
  <2>2. PICK e, t : /\ e = Lower[invites[q.invite].email] /\ t = invites[q.invite].tenant
                    /\ calls' = [calls EXCEPT ![b].pc = "create", ![b].email = e, ![b].tenant = t]
    BY <1>5
  <2>3. e \in Email /\ t \in Tenant /\ e = invites[q.invite].email /\ Lower[e] = e
    BY <2>1, <2>2 DEF AccountsAssumption, Invitation, IInv, Lowered
  <2>4. PICK r : r = [q EXCEPT !.pc = "create", !.email = e, !.tenant = t]
    OBVIOUS
  <2>5. r \in Request /\ r.op = "invite" /\ r.invite = q.invite /\ r.pc = "create"
        /\ r.email = e /\ r.tenant = t
    BY <2>1, <2>3, <2>4 DEF Request
  <2>6. calls' = [calls EXCEPT ![b] = r]
    BY <1>2, <2>2, <2>4 DEF IInv, Typed
  <2>7. Entitled(r)'
    BY <1>1, <2>2, <2>3, <2>5 DEF Entitled, Accepts, db
  <2>8. CallsTyped' /\ Checked'
    BY <1>3, <2>1, <2>5, <2>6, <2>7, OneRequest
  <2>9. QED
    BY <1>1, <1>3, <2>8, NoRowChanged
<1>6. CASE /\ At(b, "join", "begin") /\ MayAccept(b, q.invite)
           /\ \E t : t = invites[q.invite].tenant /\ calls' = [calls EXCEPT ![b].pc = "member", ![b].tenant = t]
  <2>1. q.op = "join" /\ q.invite \in drawn /\ invites[q.invite] \in Invitation
    BY <1>2, <1>6 DEF At, IInv, Typed, Accepts
  <2>2. PICK t : t = invites[q.invite].tenant /\ calls' = [calls EXCEPT ![b].pc = "member", ![b].tenant = t]
    BY <1>6
  <2>3. t \in Tenant /\ q.email = cookie[b] /\ Lower[q.email] = invites[q.invite].email
    BY <1>1, <1>2, <1>6, <2>1, <2>2 DEF Invitation, IInv, Lowered, Checked, MayAccept
  <2>4. PICK r : r = [q EXCEPT !.pc = "member", !.tenant = t]
    OBVIOUS
  <2>5. r \in Request /\ r.op = "join" /\ r.invite = q.invite /\ r.pc = "member"
        /\ r.email = q.email /\ r.tenant = t
    BY <2>1, <2>3, <2>4 DEF Request
  <2>6. calls' = [calls EXCEPT ![b] = r]
    BY <1>2, <2>2, <2>4 DEF IInv, Typed
  <2>7. Entitled(r)'
    BY <1>1, <2>2, <2>3, <2>5 DEF Entitled, Accepts, db
  <2>8. CallsTyped' /\ Checked'
    BY <1>3, <2>1, <2>3, <2>5, <2>6, <2>7, OneRequest
  <2>9. QED
    BY <1>1, <1>3, <2>8, NoRowChanged
<1>7. QED
  BY <1>2, <1>4, <1>5, <1>6 DEF handleAuthLogin, handleAuthMe, RegisterInviteChecks,
                                handleAcceptInviteChecks, Fail

(* The default tenant is for whoever signed up without a name.             *)
LEMMA DefaultFound ==
    ASSUME AccountsAssumption, IInv, GrantsKept, NEW b \in Browser, FindDefaultTenant(b)
    PROVE  IInv'
<1>1. UNCHANGED db /\ cookie' = cookie /\ calls[b] # Idle
  BY DEF FindDefaultTenant, Browsers, At
<1>2. PICK q \in Request : q = calls[b] /\ q.op = "unnamed" /\ q.pc = "tenant"
  BY <1>1, NotIdle DEF IInv, FindDefaultTenant, At
<1>3. q.email \in unnamed
  BY <1>1, <1>2 DEF IInv, Checked, Registered
<1>4. CASE Goto(b, "ok")
  BY <1>1, <1>2, <1>4, PlaceChanges, NoRowChanged DEF IInv, Typed
<1>5. ASSUME NEW t \in Default, calls' = [calls EXCEPT ![b].pc = "member", ![b].tenant = t]
      PROVE  IInv'
  <2>1. PICK r : r = [q EXCEPT !.pc = "member", !.tenant = t]
    OBVIOUS
  <2>2. r \in Request /\ r.op = "unnamed" /\ r.pc = "member" /\ r.email = q.email /\ r.tenant = t
    BY <1>2, <2>1 DEF Request, AccountsAssumption
  <2>3. calls' = [calls EXCEPT ![b] = r]
    BY <1>2, <1>5, <2>1 DEF IInv, Typed
  <2>4. Entitled(r)'
    BY <1>1, <1>3, <2>2 DEF Entitled, db
  <2>5. CallsTyped' /\ Checked'
    BY <1>1, <2>2, <2>3, <2>4, OneRequest DEF Accepts
  <2>6. QED
    BY <1>1, <2>5, NoRowChanged DEF IInv, Typed
<1>6. QED
  BY <1>4, <1>5 DEF FindDefaultTenant

LEMMA AccountsAdd ==
    ASSUME AccountsAssumption, IInv, GrantsKept, NEW b \in Browser, CreateUser(b)
    PROVE  IInv'
<1>1. UNCHANGED <<role, founder, invites, drawn, cookie>> /\ calls[b] # Idle
  BY DEF CreateUser, Browsers, At
<1>2. PICK q \in Request : q = calls[b]
  BY <1>1, NotIdle DEF IInv
<1>3. /\ Signs(q) \/ (q.op = "invite" /\ Entitled(q))
      /\ q.op = "invite" => Entitled(q)'
  <2>1. Signs(q) \/ (q.op = "invite" /\ q.pc = "create")
    BY <1>2 DEF CreateUser, At, Signs
  <2>2. q.pc = "create" => Entitled(q)
    BY <1>1, <1>2 DEF IInv, Checked
  <2>3. q.op = "invite" /\ Entitled(q) => Entitled(q)'
    BY <1>1 DEF Entitled
  <2>4. QED
    BY <2>1, <2>2, <2>3 DEF Signs
<1>4. CallsTyped' /\ Checked'
  <2>1. CASE Goto(b, "failed")
    BY <1>1, <1>2, <2>1, PlaceChanges
  <2>2. CASE Signs(q) /\ Goto(b, "tenant") /\ unnamed' = IF q.op = "unnamed" THEN unnamed \cup {q.email} ELSE unnamed
    <3>1. Registered(q)'
      BY <2>2 DEF Registered
    <3>2. q.op # "join"
      BY <2>2 DEF Signs
    <3>3. QED
      BY <1>1, <1>2, <2>2, <3>1, <3>2, PlaceChanges
  <2>3. CASE q.op = "invite" /\ Goto(b, "member")
    BY <1>1, <1>2, <1>3, <2>3, PlaceChanges
  <2>4. QED
    BY <1>2, <1>3, <2>1, <2>2, <2>3 DEF CreateUser
<1>5. unnamed' \subseteq Email
  BY <1>2 DEF CreateUser, IInv, Typed, Request
<1>6. accounts' \in [Email -> Nat] /\ \A e \in Email : accounts'[e] <= 1
  <2>1. q.email \in Email /\ accounts \in [Email -> Nat] /\ \A e \in Email : accounts[e] <= 1
    BY DEF Request, IInv, Typed, OneAccountPerEmail
  <2>2. \/ accounts' = accounts
        \/ accounts[q.email] = 0 /\ accounts' = [accounts EXCEPT ![q.email] = @ + 1]
    BY <1>2 DEF CreateUser, Unique
  <2>3. QED
    BY <2>1, <2>2
<1>7. MembersWereLetIn'
  BY <1>1, NobodyAdded
<1>8. QED
  BY <1>1, <1>4, <1>5, <1>6, <1>7 DEF IInv, Typed, CallsTyped, Lowered, OneAccountPerEmail

LEMMA TenantsAdd ==
    ASSUME AccountsAssumption, IInv, GrantsKept, NEW b \in Browser, CreateTenant(b)
    PROVE  IInv'
<1>1. UNCHANGED <<accounts, role, unnamed, invites, drawn, cookie>> /\ calls[b] # Idle
  BY DEF CreateTenant, Browsers, At
<1>2. PICK q \in Request : q = calls[b] /\ q.op = "register"
  BY <1>1, NotIdle DEF IInv, CreateTenant, At
<1>3. PICK t \in Tenant : /\ founder' = [founder EXCEPT ![t] = q.email]
                          /\ calls' = [calls EXCEPT ![b].pc = "member", ![b].tenant = t]
  BY <1>2 DEF CreateTenant
<1>4. PICK r : r = [q EXCEPT !.pc = "member", !.tenant = t]
  OBVIOUS
<1>5. r \in Request /\ r.op = "register" /\ r.pc = "member" /\ r.email = q.email /\ r.tenant = t
  BY <1>2, <1>4 DEF Request
<1>6. calls' = [calls EXCEPT ![b] = r]
  BY <1>2, <1>3, <1>4 DEF IInv, Typed
<1>7. founder' \in [Tenant -> Email \cup {None}] /\ founder'[t] = q.email
  BY <1>2, <1>3 DEF IInv, Typed, Request
<1>8. Entitled(r)'
  BY <1>5, <1>7 DEF Entitled
<1>9. CallsTyped' /\ Checked'
  BY <1>1, <1>5, <1>6, <1>8, OneRequest DEF Accepts
<1>10. MembersWereLetIn'
  BY <1>1, NobodyAdded
<1>11. QED
  BY <1>1, <1>7, <1>9, <1>10 DEF IInv, Typed, CallsTyped, Lowered, OneAccountPerEmail

(* The one statement that adds a member: its request was entitled, and to  *)
(* no more than the role it gives.                                         *)
LEMMA MembersAdd ==
    ASSUME AccountsAssumption, IInv, GrantsKept, NEW b \in Browser, AddUserToTenant(b)
    PROVE  IInv'
<1>1. UNCHANGED <<accounts, founder, unnamed, invites, drawn, cookie>> /\ calls[b] # Idle
  BY DEF AddUserToTenant, Browsers
<1>2. PICK q \in Request : q = calls[b] /\ Entitled(q)
  BY <1>1, NotIdle DEF IInv, Checked, AddUserToTenant
<1>3. /\ Signs(q) \/ (Accepts(q) /\ q.invite \in drawn /\ invites[q.invite] \in Invitation)
      /\ q.tenant \in Tenant /\ q.email \in Email
  BY <1>1, <1>2 DEF IInv, Typed, Entitled, Invitation, Request, Signs, AccountsAssumption
<1>4. PICK g \in Role :
         /\ role' = [role EXCEPT ![q.email][q.tenant] = g]
         /\ Signs(q) => g = "owner"
         /\ ~Signs(q) => g = invites[q.invite].role
  BY <1>1, <1>2, <1>3 DEF AddUserToTenant, Role, Invitation
<1>5. CallsTyped' /\ Checked'
  <2>1. CASE Signs(q) /\ Goto(b, "ok")
    BY <1>1, <1>2, <2>1, PlaceChanges
  <2>2. CASE ~Signs(q) /\ Goto(b, "mark")
    BY <1>1, <1>2, <1>3, <2>2, PlaceChanges
  <2>3. QED
    BY <1>2, <2>1, <2>2 DEF AddUserToTenant
<1>6. role' \in [Email -> [Tenant -> Role \cup {None}]]
  BY <1>3, <1>4 DEF IInv, Typed
<1>7. MembersWereLetIn'
  <2> SUFFICES ASSUME NEW e \in Email, NEW t \in Tenant, role'[e][t] # None
               PROVE  \/ founder[t] = e /\ role'[e][t] = "owner"
                      \/ e \in unnamed /\ t \in Default /\ role'[e][t] = "owner"
                      \/ \E i \in drawn : /\ invites[i].tenant = t /\ invites[i].role = role'[e][t]
                                          /\ invites[i].email = Lower[e]
    BY <1>1 DEF MembersWereLetIn
  <2>1. CASE e = q.email /\ t = q.tenant
    <3>1. role'[e][t] = g
      BY <1>3, <1>4, <2>1 DEF IInv, Typed
    <3>2. QED
      BY <1>2, <1>3, <1>4, <2>1, <3>1 DEF Entitled, Signs
  <2>2. CASE ~(e = q.email /\ t = q.tenant)
    <3>1. role'[e][t] = role[e][t]
      BY <1>3, <1>4, <2>2 DEF IInv, Typed
    <3>2. QED
      BY <3>1 DEF IInv, MembersWereLetIn
  <2>3. QED
    BY <2>1, <2>2
<1>8. QED
  BY <1>1, <1>5, <1>6, <1>7 DEF IInv, Typed, CallsTyped, Lowered, OneAccountPerEmail

LEMMA InvitesMarked ==
    ASSUME AccountsAssumption, IInv, GrantsKept, NEW b \in Browser, MarkInviteAccepted(b)
    PROVE  IInv'
<1>1. UNCHANGED <<accounts, role, founder, unnamed, drawn>> /\ calls[b] # Idle
  BY DEF MarkInviteAccepted
<1>2. PICK q \in Request : q = calls[b] /\ Accepts(q)
  BY <1>1, NotIdle DEF IInv, Checked, MarkInviteAccepted
<1>3. q.invite \in drawn /\ q.invite \in Invite /\ invites[q.invite] \in Invitation
  BY <1>1, <1>2 DEF IInv, Typed
<1>4. /\ invites' \in [Invite -> Invitation \cup {None}]
      /\ \A i \in drawn : invites'[i] \in Invitation
  BY <1>2, <1>3 DEF MarkInviteAccepted, IInv, Typed, Invitation
<1>5. /\ cookie' \in [Browser -> Email \cup {None}]
      /\ \A c \in Browser \ {b} : cookie'[c] = cookie[c]
      /\ q.op = "join" => cookie'[b] = cookie[b]
  BY <1>2 DEF MarkInviteAccepted, IInv, Typed, Request
<1>6. CallsTyped' /\ Checked'
  BY <1>1, <1>2, <1>5, PlaceChanges DEF MarkInviteAccepted
<1>7. MembersWereLetIn'
  BY <1>1, NobodyAdded
<1>8. Lowered'
  BY <1>1 DEF IInv, Lowered, GrantsKept
<1>9. QED
  BY <1>1, <1>4, <1>5, <1>6, <1>7, <1>8 DEF IInv, Typed, CallsTyped, OneAccountPerEmail
-----------------------------------------------------------------------------
(* Invites, made and ended.                                                *)
LEMMA InvitesChange ==
    ASSUME AccountsAssumption, IInv, GrantsKept, NEW i \in Invite,
           EndInvite(i) \/ \E e \in Email, t \in Tenant, r \in Role : CreateInvite(i, e, t, r)
    PROVE  IInv'
<1>1. UNCHANGED <<accounts, role, founder, unnamed, cookie, calls>>
  BY DEF EndInvite, CreateInvite, Browsers
<1> DEFINE Fine == /\ drawn \subseteq Invite /\ invites \in [Invite -> Invitation \cup {None}]
                   /\ \A j \in drawn : invites[j] \in Invitation /\ Lower[invites[j].email] = invites[j].email
<1>2. Fine'
  <2>1. CASE EndInvite(i)
    <3>1. i \in drawn /\ invites[i] \in Invitation /\ invites \in [Invite -> Invitation \cup {None}]
      BY <2>1 DEF EndInvite, IInv, Typed
    <3>2. PICK n : n = [invites[i] EXCEPT !.live = FALSE]
      OBVIOUS
    <3>3. n \in Invitation /\ n.email = invites[i].email
      BY <3>1, <3>2 DEF Invitation
    <3>4. invites' = [invites EXCEPT ![i] = n] /\ drawn' = drawn
      BY <2>1, <3>2 DEF EndInvite
    <3>5. QED
      BY <3>1, <3>3, <3>4 DEF IInv, Typed, Lowered
  <2>2. ASSUME NEW e \in Email, NEW t \in Tenant, NEW r \in Role, CreateInvite(i, e, t, r)
        PROVE  Fine'
    <3>1. PICK n : n = [email |-> Lower[e], tenant |-> t, role |-> r, accepted |-> FALSE, live |-> TRUE]
      OBVIOUS
    <3>2. n \in Invitation /\ Lower[n.email] = n.email
      BY <3>1 DEF Invitation, AccountsAssumption
    <3>3. invites' = [invites EXCEPT ![i] = n] /\ drawn' = drawn \cup {i}
      BY <2>2, <3>1 DEF CreateInvite
    <3>4. QED
      BY <3>2, <3>3 DEF IInv, Typed, Lowered
  <2>3. QED
    BY <2>1, <2>2
<1>3. CallsTyped' /\ Checked'
  BY <1>1, NoRequest
<1>4. MembersWereLetIn'
  BY <1>1, NobodyAdded
<1>5. QED
  BY <1>1, <1>2, <1>3, <1>4 DEF IInv, Typed, CallsTyped, Lowered, OneAccountPerEmail
-----------------------------------------------------------------------------
(* The pages.                                                              *)
LEMMA PagesKeep ==
    ASSUME AccountsAssumption, IInv, GrantsKept, NEW b \in Browser,
           \/ \E e \in Email : SubmitLogin(b, e) \/ SubmitSignup(b, e)
           \/ \E i \in Invite : SubmitInvite(b, i) \/ Join(b, i)
           \/ Answered(b) \/ handleLogout(b)
           \/ \E p \in {"login", "signup", "invite"} : Visit(b, p)
    PROVE  IInv'
<1>1. ASSUME NEW e \in Email, NEW i \in Invite \cup {None},
             NEW op \in {"login", "session", "invite", "join", "register", "unnamed"}, Send(b, op, e, i),
             op \in {"invite", "join"} => i \in drawn, op = "join" => e = cookie[b],
             UNCHANGED <<db, cookie>>
      PROVE  IInv'
  <2>1. PICK r : r = [op |-> op, pc |-> "begin", email |-> e, invite |-> i, tenant |-> None]
    OBVIOUS
  <2>2. r \in Request /\ r.op = op /\ r.pc = "begin" /\ r.email = e /\ r.invite = i
    BY <2>1 DEF Request
  <2>3. calls' = [calls EXCEPT ![b] = r]
    BY <1>1, <2>1 DEF Send
  <2>4. CallsTyped' /\ Checked'
    BY <1>1, <2>2, <2>3, OneRequest DEF Accepts
  <2>5. cookie' \in [Browser -> Email \cup {None}]
    BY <1>1 DEF IInv, Typed
  <2>6. QED
    BY <1>1, <2>4, <2>5, NoRowChanged
<1>2. ASSUME calls' = calls \/ calls' = [calls EXCEPT ![b] = Idle], UNCHANGED db,
             cookie' = cookie \/ (cookie' = [cookie EXCEPT ![b] = None] /\ calls[b] = Idle)
      PROVE  IInv'
  <2>1. calls' = [calls EXCEPT ![b] = Idle] \/ (calls' = calls /\ cookie' = cookie)
    BY <1>2 DEF IInv, Typed
  <2>2. /\ cookie' \in [Browser -> Email \cup {None}]
        /\ \A c \in Browser \ {b} : cookie'[c] = cookie[c]
    BY <1>2 DEF IInv, Typed
  <2>3. CallsTyped' /\ Checked'
    BY <2>1, <2>2, NoRequest
  <2>4. QED
    BY <1>2, <2>2, <2>3, NoRowChanged
<1>3. None \in Invite \cup {None}
  OBVIOUS
<1>4. ASSUME NEW e \in Email, SubmitLogin(b, e) \/ SubmitSignup(b, e) PROVE IInv'
  BY <1>1, <1>3, <1>4 DEF SubmitLogin, SubmitSignup, Ask, Browsers
<1>5. ASSUME NEW i \in Invite, SubmitInvite(b, i) PROVE IInv'
  <2>1. invites[i].email \in Email
    BY <1>5 DEF SubmitInvite, IInv, Typed, Invitation
  <2>2. QED
    BY <1>1, <1>5, <2>1 DEF SubmitInvite, Ask, Browsers
<1>6. ASSUME NEW i \in Invite, Join(b, i) PROVE IInv'
  <2>1. cookie[b] \in Email
    BY <1>6 DEF Join, IInv, Typed
  <2>2. QED
    BY <1>1, <1>6, <2>1 DEF Join, Ask, Browsers
<1>7. ASSUME Answered(b) PROVE IInv'
  <2>1. calls[b] # Idle /\ UNCHANGED <<db, cookie>>
    BY <1>7 DEF Answered
  <2>2. calls[b].email \in Email
    BY <2>1, NotIdle DEF IInv, Request
  <2>3. CASE Send(b, "login", calls[b].email, None) \/ Send(b, "session", calls[b].email, None)
    BY <1>1, <1>3, <2>1, <2>2, <2>3
  <2>4. CASE calls' = [calls EXCEPT ![b] = Idle]
    BY <1>2, <2>1, <2>4
  <2>5. QED
    BY <1>7, <2>3, <2>4 DEF Answered, EnterApp, Released
<1>8. ASSUME handleLogout(b) \/ \E p \in {"login", "signup", "invite"} : Visit(b, p) PROVE IInv'
  BY <1>2, <1>8 DEF handleLogout, Visit
<1>9. QED
  BY <1>4, <1>5, <1>6, <1>7, <1>8
-----------------------------------------------------------------------------
(* A tenant with its owner is there from the start.                        *)
LEMMA InitIInv ==
    ASSUME AccountsAssumption, Init
    PROVE  IInv
BY DEF AccountsAssumption, Init, IInv, Typed, Lowered, Checked, OneAccountPerEmail, MembersWereLetIn,
       Role, Idle, None

LEMMA NextIInv ==
    ASSUME AccountsAssumption, IInv, [Next]_vars
    PROVE  IInv'
<1>1. GrantsKept
  BY EveryStepKeepsGrants DEF IInv
<1>2. ASSUME NEW b \in Browser, Server(b) PROVE IInv'
  BY <1>1, <1>2, ChecksKeep, AccountsAdd, TenantsAdd, DefaultFound, MembersAdd, InvitesMarked DEF Server
<1>3. CASE UNCHANGED vars
  BY <1>3 DEF vars, db, IInv, Typed, Lowered, Checked, Entitled, Registered, OneAccountPerEmail, MembersWereLetIn
<1>4. QED
  BY <1>1, <1>2, <1>3, PagesKeep, InvitesChange DEF Next

(* Requests, invites, sessions and rows keep their types.                  *)
THEOREM AccountsTypeCorrect == AccountsAssumption => (Spec => []Typed)
<1> SUFFICES ASSUME AccountsAssumption PROVE Spec => []Typed
  OBVIOUS
<1>1. Init => IInv
  BY InitIInv
<1>2. IInv /\ [Next]_vars => IInv'
  BY NextIInv
<1>3. IInv => Typed
  BY DEF IInv
<1>4. QED
  BY <1>1, <1>2, <1>3, PTL DEF Spec

(* However many sign-ups and acceptances of one address overlap, and       *)
(* whichever of their statements fail, it has one account: the unique      *)
(* index decides, not the look-up before the insert.                       *)
THEOREM OneAccount == AccountsAssumption => (Spec => []OneAccountPerEmail)
<1> SUFFICES ASSUME AccountsAssumption PROVE Spec => []OneAccountPerEmail
  OBVIOUS
<1>1. Init => IInv
  BY InitIInv
<1>2. IInv /\ [Next]_vars => IInv'
  BY NextIInv
<1>3. IInv => OneAccountPerEmail
  BY DEF IInv
<1>4. QED
  BY <1>1, <1>2, <1>3, PTL DEF Spec

(* Nobody becomes a member of a tenant unless it was founded for that      *)
(* address, or an invite for that address and role was made, or it has the *)
(* default slug and the address signed up without naming an organization   *)
(* (auth.go:380) - although what a request has checked may change before   *)
(* its insert.                                                             *)
THEOREM NobodyUninvited == AccountsAssumption => (Spec => []MembersWereLetIn)
<1> SUFFICES ASSUME AccountsAssumption PROVE Spec => []MembersWereLetIn
  OBVIOUS
<1>1. Init => IInv
  BY InitIInv
<1>2. IInv /\ [Next]_vars => IInv'
  BY NextIInv
<1>3. IInv => MembersWereLetIn
  BY DEF IInv
<1>4. QED
  BY <1>1, <1>2, <1>3, PTL DEF Spec
=============================================================================
