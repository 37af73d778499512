--------------------------- MODULE TenantSettings ---------------------------
(***************************************************************************)
(* The settings page (app/components/Settings.tsx) inside its frame        *)
(* (Root.tsx).  The active tenant lives in the session cookie: every       *)
(* request carries the cookie the browser holds when it is sent, and the   *)
(* answers of a switch and of a creation replace it.  The page holds       *)
(* copies of the tenant, its members and its invites, read at different    *)
(* times, and sends changes without naming the tenant they are for.        *)
(***************************************************************************)
EXTENDS FiniteSets

CONSTANTS
    Tenant, User, Invite,
    Me,           \* who is logged in
    Home,         \* tenant of the session when the page is opened
    Joined,       \* tenants Me and the others are members of at the start
    Call,         \* bound: requests in progress
    Buttons,      \* the controls in use: a subset of Controls
    Faults        \* BOOLEAN: requests may fail

Controls == {"switch", "create", "save", "invite", "uninvite", "member"}
None == "none"

ASSUME TenantSettingsAssumption ==
    /\ Home \in Joined /\ Joined \subseteq Tenant /\ Me \in User
    /\ Buttons \subseteq Controls /\ Faults \in BOOLEAN
    /\ None \notin Tenant \cup User \cup Invite

VARIABLES
    cookie,       \* the active tenant, as the browser holds it
    exists,       \* rows of tenants
    role,         \* user_tenants: the role of each user in each tenant
    invited,      \* tenant_invites: the tenant of each invite (None: no row)
    drawn,        \* invites whose id was given out
    shown,        \* tenant of the page
    form,         \* tenant whose name the organization form holds
    lists,        \* members, invites and tenants shown, and the tenant asked for them
    flags,        \* saving, creatingInvite, creatingTenant, switchingTenant, loading
    failed,       \* history: the last load did not succeed
    overtaken,    \* history: since the page began to load, the answer to a handler of an
                  \* earlier visit to it has changed the cookie
    calls         \* requests in progress

server == <<exists, role, invited, drawn>>
view   == <<shown, form, lists, failed, overtaken>>
vars   == <<cookie, server, view, flags, calls>>

Role     == {"owner", "viewer"}
Members  == [User -> Role \cup {None}]
Lists    == [of: Tenant \cup {None}, members: Members, invites: SUBSET Invite, tenants: SUBSET Tenant]
NoLists  == [of |-> None, members |-> [u \in User |-> None], invites |-> {}, tenants |-> {}]
Idle     == [op |-> None]

(* at: the cookie the request was sent with; to: the tenant it is meant    *)
(* for, which is what the page showed; read: what the lists answered;      *)
(* here: the page has not been left since.                                 *)
Request == [op: Controls \cup {"load"}, stage: {"request", "session", "lists"},
            pc: {"sent", "ok", "refused"}, at: Tenant, to: Tenant \cup {None},
            user: User \cup {None}, role: Role \cup {None}, invite: Invite \cup {None}, read: Lists, here: BOOLEAN]

TypeOK ==
    /\ cookie \in Tenant /\ exists \subseteq Tenant /\ role \in [Tenant -> Members]
    /\ invited \in [Invite -> Tenant \cup {None}] /\ drawn \subseteq Invite
    /\ shown \in Tenant \cup {None} /\ form \in Tenant \cup {None}
    /\ lists \in Lists /\ failed \in BOOLEAN /\ overtaken \in BOOLEAN
    /\ flags \subseteq Controls \cup {"load"}
    /\ calls \in [Call -> Request \cup {Idle}]
-----------------------------------------------------------------------------
(* Handlers, up to their first await.                                      *)
Free(c)     == calls[c] = Idle
Asked(op, to) == [op |-> op, stage |-> "request", pc |-> "sent", at |-> cookie, to |-> to,
                  user |-> None, role |-> None, invite |-> None, read |-> NoLists, here |-> TRUE]
Offered(b)  == b \in Buttons /\ "load" \notin flags        \* the page is "Loading settings..." until then
Click(c, request) ==
    /\ Free(c)
    /\ calls' = [calls EXCEPT ![c] = request]
    /\ UNCHANGED <<cookie, server, view>>

MaySwitchAgain(t) == t \in lists.tenants \ {shown} \* mutant
MaySwitch(t) == t \in lists.tenants \ {shown} /\ "switch" \notin flags

handleSwitchTenant(c, t) ==
    /\ Offered("switch") /\ MaySwitch(t)
    /\ Click(c, Asked("switch", t)) /\ flags' = flags \cup {"switch"}

handleCreateTenant(c) ==
    /\ Offered("create") /\ "create" \notin flags
    /\ Click(c, Asked("create", None)) /\ flags' = flags \cup {"create"}

handleSave(c) ==
    /\ Offered("save") /\ "save" \notin flags /\ shown # None
    /\ Click(c, Asked("save", form)) /\ flags' = flags \cup {"save"}

handleCreateInvite(c) ==
    /\ Offered("invite") /\ "invite" \notin flags
    /\ Click(c, Asked("invite", lists.of)) /\ flags' = flags \cup {"invite"}

handleDeleteInvite(c, i) ==
    /\ Offered("uninvite") /\ i \in lists.invites
    /\ Click(c, [Asked("uninvite", lists.of) EXCEPT !.invite = i]) /\ UNCHANGED flags

updateMemberRole(c, u, r) ==
    /\ Offered("member") /\ lists.members[u] \notin {None, r}
    /\ Click(c, [Asked("member", lists.of) EXCEPT !.user = u, !.role = r]) /\ UNCHANGED flags

removeMember(c, u) ==
    /\ Offered("member") /\ lists.members[u] # None /\ u # Me
    /\ Click(c, [Asked("member", lists.of) EXCEPT !.user = u]) /\ UNCHANGED flags
-----------------------------------------------------------------------------
(* The server, and what its answer does to the cookie.                     *)
Waiting(c, op) == calls[c] # Idle /\ calls[c].op = op /\ calls[c].stage = "request" /\ calls[c].pc = "sent"
Answered(c)    == calls' = [calls EXCEPT ![c].pc = "ok"]

handleListMembers(t) == [of |-> t, members |-> role[t], invites |-> {i \in Invite : invited[i] = t},
                         tenants |-> {s \in exists : role[s][Me] # None}]

Overtakes(c) ==
    /\ overtaken' = (overtaken \/ (~calls[c].here /\ cookie' # cookie))
    /\ UNCHANGED <<shown, form, lists, failed>>

(* Only a tenant of the user becomes the active one.                       *)
SwitchTenant(c) ==
    /\ Waiting(c, "switch") /\ role[calls[c].to][Me] # None
    /\ cookie' = calls[c].to /\ Overtakes(c)
    /\ Answered(c) /\ UNCHANGED <<server, flags>>

CreateTenant(c) ==
    /\ Waiting(c, "create")
    /\ \E t \in Tenant \ exists :
          /\ exists' = exists \cup {t}
          /\ role' = [role EXCEPT ![t][Me] = "owner"]
          /\ cookie' = t /\ Overtakes(c)
          /\ calls' = [calls EXCEPT ![c].pc = "ok", ![c].to = t]
    /\ UNCHANGED <<invited, drawn, flags>>

(* The tenant is there, and adding its first member failed.                *)
CreateTenantFails(c) ==
    /\ Faults /\ Waiting(c, "create")
    /\ \E t \in Tenant \ exists : exists' = exists \cup {t}
    /\ calls' = [calls EXCEPT ![c].pc = "refused"]
    /\ UNCHANGED <<cookie, role, invited, drawn, view, flags>>

(* tenantAPI.update ignores the id it is given: the name in the form goes  *)
(* to the tenant of the cookie.                                            *)
UpdateActiveTenant(c) ==
    /\ Waiting(c, "save")
    /\ Answered(c) /\ UNCHANGED <<cookie, server, view, flags>>

CreateInvite(c) ==
    /\ Waiting(c, "invite")
    /\ \E i \in Invite \ drawn :
          /\ drawn' = drawn \cup {i}
          /\ invited' = [invited EXCEPT ![i] = calls[c].at]
          /\ calls' = [calls EXCEPT ![c].pc = "ok", ![c].invite = i]
    /\ UNCHANGED <<cookie, exists, role, view, flags>>

(* DELETE ... WHERE id AND tenant_id: no row is no error.                  *)
DeleteInvite(c) ==
    /\ Waiting(c, "uninvite")
    /\ LET i == calls[c].invite IN
       invited' = [invited EXCEPT ![i] = IF @ = calls[c].at THEN None ELSE @]
    /\ Answered(c) /\ UNCHANGED <<cookie, exists, role, drawn, view, flags>>

(* UPDATE and DELETE of user_tenants, for whoever is logged in.            *)
ChangeMember(c) ==
    /\ Waiting(c, "member")
    /\ LET t == calls[c].at  u == calls[c].user IN
       role' = [role EXCEPT ![t][u] = IF @ = None THEN None ELSE calls[c].role]
    /\ Answered(c) /\ UNCHANGED <<cookie, exists, invited, drawn, view, flags>>

ReadLists(c) ==
    /\ calls[c] # Idle /\ calls[c].stage = "lists" /\ calls[c].pc = "sent"
    /\ calls' = [calls EXCEPT ![c].pc = "ok", ![c].read = handleListMembers(calls[c].at)]
    /\ UNCHANGED <<cookie, server, view, flags>>

Refuse(c) ==
    /\ Faults /\ calls[c] # Idle /\ calls[c].stage # "session" /\ calls[c].pc = "sent"
    /\ calls' = [calls EXCEPT ![c].pc = "refused"]
    /\ UNCHANGED <<cookie, server, view, flags>>

Server(c) ==
    \/ SwitchTenant(c) \/ CreateTenant(c) \/ CreateTenantFails(c) \/ UpdateActiveTenant(c)
    \/ CreateInvite(c) \/ DeleteInvite(c) \/ ChangeMember(c) \/ ReadLists(c) \/ Refuse(c)
-----------------------------------------------------------------------------
(* Handlers, after an await.  Those of a page that was left go on, but     *)
(* what they set is lost.                                                  *)
Ended(c) ==
    /\ calls' = [calls EXCEPT ![c] = Idle]
    /\ flags' = IF calls[c].here THEN flags \ {calls[c].op} ELSE flags

ShowsTenant(c, t) == IF calls[c].here THEN shown' = t /\ form' = t ELSE UNCHANGED <<shown, form>>

Arrived(c, op) == calls[c] # Idle /\ calls[c].op = op /\ calls[c].stage = "request" /\ calls[c].pc = "ok"

(* The new tenant is shown, then everything is loaded again: loadData.     *)
ShowThenLoad(c) ==
    /\ Arrived(c, "switch") \/ Arrived(c, "create")
    /\ ShowsTenant(c, calls[c].to)
    /\ calls' = [calls EXCEPT ![c].stage = "session", ![c].pc = "sent", ![c].at = cookie]
    /\ overtaken' = (overtaken /\ ~calls[c].here)
    /\ UNCHANGED <<cookie, server, lists, failed, flags>>

(* getSession turns an error into no session.                              *)
SessionAnswered(c) ==
    /\ calls[c] # Idle /\ calls[c].stage = "session"
    /\ \/ ShowsTenant(c, calls[c].at)
       \/ Faults /\ ShowsTenant(c, None)
    /\ calls' = [calls EXCEPT ![c].stage = "lists", ![c].at = cookie]
    /\ UNCHANGED <<cookie, server, lists, failed, overtaken, flags>>

KeptLists(read) == IF lists.of = None THEN read ELSE lists \* mutant
NewLists(read)  == read

ListsAnswered(c) ==
    /\ calls[c] # Idle /\ calls[c].stage = "lists" /\ calls[c].pc # "sent"
    /\ IF calls[c].here
       THEN /\ failed' = (calls[c].pc = "refused")
            /\ lists' = IF failed' THEN lists ELSE NewLists(calls[c].read)
       ELSE UNCHANGED <<lists, failed>>
    /\ Ended(c) /\ UNCHANGED <<cookie, server, shown, form, overtaken>>

Saved(c) ==
    /\ Arrived(c, "save")
    /\ ShowsTenant(c, calls[c].at)
    /\ Ended(c) /\ UNCHANGED <<cookie, server, lists, failed, overtaken>>

WithInvite(i) == lists.invites \cup {i}

Changed(r) ==
    CASE r.op = "invite"   -> [lists EXCEPT !.invites = WithInvite(r.invite)]
      [] r.op = "uninvite" -> [lists EXCEPT !.invites = @ \ {r.invite}]
      [] r.op = "member"   -> [lists EXCEPT !.members[r.user] = IF @ = None THEN None ELSE r.role]

ListsChanged(c) ==
    /\ \E op \in {"invite", "uninvite", "member"} : Arrived(c, op)
    /\ lists' = IF calls[c].here THEN Changed(calls[c]) ELSE lists
    /\ Ended(c) /\ UNCHANGED <<cookie, server, shown, form, failed, overtaken>>

Refused(c) ==
    /\ calls[c] # Idle /\ calls[c].stage = "request" /\ calls[c].pc = "refused"
    /\ Ended(c) /\ UNCHANGED <<cookie, server, view>>

Page(c) ==
    \/ ShowThenLoad(c) \/ SessionAnswered(c) \/ ListsAnswered(c)
    \/ Saved(c) \/ ListsChanged(c) \/ Refused(c)
-----------------------------------------------------------------------------
(* The page mounts and starts its loadData.                                *)
Opened ==
    /\ shown' = None /\ form' = None /\ lists' = NoLists
    /\ failed' = FALSE /\ overtaken' = FALSE /\ flags' = {"load"}

Left == [c \in Call |-> IF calls[c] = Idle THEN Idle ELSE [calls[c] EXCEPT !.here = FALSE]]

(* The page is left for another, and opened again.                         *)
Reopen(c) ==
    /\ Free(c)
    /\ calls' = [Left EXCEPT ![c] = [Asked("load", None) EXCEPT !.stage = "session"]]
    /\ Opened /\ UNCHANGED <<cookie, server>>

(* The frame has asked for the session and shows its tenant.               *)
Init ==
    /\ cookie = Home /\ exists = Joined
    /\ role = [t \in Tenant |-> [u \in User |-> IF t \notin Joined THEN None
                                                ELSE IF u = Me THEN "owner" ELSE "viewer"]]
    /\ invited = [i \in Invite |-> None] /\ drawn = {}
    /\ shown = None /\ form = None /\ lists = NoLists /\ failed = FALSE
    /\ overtaken = FALSE /\ flags = {"load"}
    /\ \E c \in Call :
          calls = [d \in Call |-> IF d = c THEN [Asked("load", None) EXCEPT !.stage = "session"] ELSE Idle]

Next == \E c \in Call :
    \/ Server(c) \/ Page(c) \/ Reopen(c)
    \/ \E t \in Tenant : handleSwitchTenant(c, t)
    \/ handleCreateTenant(c) \/ handleSave(c) \/ handleCreateInvite(c)
    \/ \E i \in Invite : handleDeleteInvite(c, i)
    \/ \E u \in User : removeMember(c, u) \/ \E r \in Role : updateMemberRole(c, u, r)

Spec == Init /\ [][Next]_vars
-----------------------------------------------------------------------------
Held == {"load", "switch", "create", "save", "invite"}
Running(c, f) == calls[c] # Idle /\ calls[c].op = f /\ calls[c].here
Settled == ~failed /\ ~overtaken /\ \A c \in Call : Free(c)

(* "Current tenant context for alerts, reports and devices"                *)
(* (Settings.tsx:218): once nothing is in progress and the load succeeded, *)
(* the tenant, the form and the lists are those of the cookie.  It is not  *)
(* so after a switch that is answered when the page was left and opened    *)
(* again in the meantime: overtaken.                                       *)
SettledIsActive == Settled => shown \in {None, cookie} /\ form = shown /\ lists.of = cookie

(* A control is held exactly while its handler of this visit runs (the     *)
(* finally of each handler), and no handler runs twice at once.            *)
FlagsTellHandlers == \A f \in Held :
    /\ f \in flags <=> \E c \in Call : Running(c, f)
    /\ \A c, d \in Call : Running(c, f) /\ Running(d, f) => c = d
=============================================================================
