------------------------ MODULE TenantSettingsProofs ------------------------
(***************************************************************************)
(* The held controls of the settings page, and the tenant it shows, for    *)
(* every number of tenants, users, invites and requests in progress.       *)
(***************************************************************************)
EXTENDS TenantSettings, TLAPS

(* A switch names a tenant, and a creation that succeeded brings an invite.*)
Sensible == {r \in Request :
    /\ r.op = "switch" => r.to \in Tenant
    /\ r.op = "invite" /\ r.stage = "request" /\ r.pc = "ok" => r.invite \in Invite}
Typed == TypeOK /\ \A c \in Call : calls[c] = Idle \/ calls[c] \in Sensible

(* What a step does to the requests and the flags: one begins, goes on or  *)
(* ends, or the page is opened again.                                      *)
Begins(c, r) ==
    /\ calls[c] = Idle /\ r \in Sensible /\ r.here
    /\ calls' = [calls EXCEPT ![c] = r]
    /\ IF r.op \in Held THEN r.op \notin flags /\ flags' = flags \cup {r.op} ELSE flags' = flags
GoesOn(c, r) ==
    /\ calls[c] # Idle /\ r \in Sensible /\ r.op = calls[c].op /\ r.here = calls[c].here
    /\ \/ r.stage = calls[c].stage
       \/ r.stage # "request" /\ (calls[c].stage # "request" \/ r.op \in {"switch", "create"})
    /\ calls' = [calls EXCEPT ![c] = r] /\ flags' = flags
Ends(c) == calls[c] # Idle /\ Ended(c)
Moves(c) == (\E r : Begins(c, r)) \/ (\E r : GoesOn(c, r)) \/ Ends(c) \/ Reopen(c)

LEMMA AskedIsSensible ==
    ASSUME Typed, NEW op \in Controls, NEW to \in Tenant \cup {None}, op = "switch" => to \in Tenant
    PROVE  /\ Asked(op, to) \in Sensible /\ Asked(op, to).op = op
           /\ Asked(op, to).stage = "request" /\ Asked(op, to).pc = "sent" /\ Asked(op, to).here
BY DEF Typed, TypeOK, Asked, Sensible, Request, NoLists, Lists, Members

LEMMA HandlersMove ==
    ASSUME Typed, NEW c \in Call,
           \/ \E t \in Tenant : handleSwitchTenant(c, t)
           \/ handleCreateTenant(c) \/ handleSave(c) \/ handleCreateInvite(c)
           \/ \E i \in Invite : handleDeleteInvite(c, i)
           \/ \E u \in User : removeMember(c, u) \/ \E r \in Role : updateMemberRole(c, u, r)
    PROVE  \E r : Begins(c, r)
<1>1. lists.of \in Tenant \cup {None} /\ form \in Tenant \cup {None}
  BY DEF Typed, TypeOK, Lists
<1>2. ASSUME NEW t \in Tenant, handleSwitchTenant(c, t) PROVE Begins(c, Asked("switch", t))
  BY <1>2, AskedIsSensible DEF handleSwitchTenant, MaySwitch, Click, Free, Begins, Held, Controls
<1>3. ASSUME handleCreateTenant(c) PROVE Begins(c, Asked("create", None))
  BY <1>3, AskedIsSensible DEF handleCreateTenant, Click, Free, Begins, Held, Controls
<1>4. ASSUME handleSave(c) PROVE Begins(c, Asked("save", form))
  BY <1>1, <1>4, AskedIsSensible DEF handleSave, Click, Free, Begins, Held, Controls
<1>5. ASSUME handleCreateInvite(c) PROVE Begins(c, Asked("invite", lists.of))
  BY <1>1, <1>5, AskedIsSensible DEF handleCreateInvite, Click, Free, Begins, Held, Controls
<1>6. ASSUME NEW i \in Invite, handleDeleteInvite(c, i) PROVE \E r : Begins(c, r)
  <2> DEFINE a == Asked("uninvite", lists.of)
             r == [a EXCEPT !.invite = i]
  <2>1. a \in Request /\ a.op = "uninvite" /\ a.here
    BY <1>1, AskedIsSensible DEF Controls, Sensible
  <2> HIDE DEF a
  <2>2. r \in Sensible /\ r.op = "uninvite" /\ r.here
    BY <2>1 DEF Sensible, Request
  <2>3. Begins(c, r)
    BY <1>6, <2>2 DEF handleDeleteInvite, Click, Free, Begins, Held, a
  <2>4. QED
    BY <2>3
<1>7. ASSUME NEW u \in User, removeMember(c, u) PROVE \E r : Begins(c, r)
  <2> DEFINE a == Asked("member", lists.of)
             r == [a EXCEPT !.user = u]
  <2>1. a \in Request /\ a.op = "member" /\ a.here
    BY <1>1, AskedIsSensible DEF Controls, Sensible
  <2> HIDE DEF a
  <2>2. r \in Sensible /\ r.op = "member" /\ r.here
    BY <2>1 DEF Sensible, Request
  <2>3. Begins(c, r)
    BY <1>7, <2>2 DEF removeMember, Click, Free, Begins, Held, a
  <2>4. QED
    BY <2>3
<1>8. ASSUME NEW u \in User, NEW n \in Role, updateMemberRole(c, u, n) PROVE \E r : Begins(c, r)
  <2> DEFINE a == Asked("member", lists.of)
             r == [a EXCEPT !.user = u, !.role = n]
  <2>1. a \in Request /\ a.op = "member" /\ a.here
    BY <1>1, AskedIsSensible DEF Controls, Sensible
  <2> HIDE DEF a
  <2>2. r \in Sensible /\ r.op = "member" /\ r.here
    BY <2>1 DEF Sensible, Request
  <2>3. Begins(c, r)
    BY <1>8, <2>2 DEF updateMemberRole, Click, Free, Begins, Held, a
  <2>4. QED
    BY <2>3
<1>9. QED
  BY <1>2, <1>3, <1>4, <1>5, <1>6, <1>7, <1>8

(* The server's steps move one request on.                                 *)
LEMMA ServerMoves ==
    ASSUME Typed, NEW c \in Call, Server(c)
    PROVE  \E r : GoesOn(c, r)
<1>1. calls[c] # Idle => calls[c] \in Sensible /\ calls[c] \in Request
  BY DEF Typed, Sensible
<1>2. ASSUME calls[c] # Idle, calls[c].op # "invite", flags' = flags, calls' = [calls EXCEPT ![c].pc = "ok"]
      PROVE  \E r : GoesOn(c, r)
  <2> DEFINE r == [calls[c] EXCEPT !.pc = "ok"]
  <2>1. r \in Sensible /\ r.op = calls[c].op /\ r.here = calls[c].here /\ r.stage = calls[c].stage
    BY <1>1, <1>2 DEF Sensible, Request
  <2>2. GoesOn(c, r)
    BY <1>2, <2>1 DEF GoesOn
  <2>3. QED
    BY <2>2
<1>3. ASSUME calls[c] # Idle, flags' = flags, calls' = [calls EXCEPT ![c].pc = "refused"]
      PROVE  \E r : GoesOn(c, r)
  <2> DEFINE r == [calls[c] EXCEPT !.pc = "refused"]
  <2>1. r \in Sensible /\ r.op = calls[c].op /\ r.here = calls[c].here /\ r.stage = calls[c].stage
    BY <1>1, <1>3 DEF Sensible, Request
  <2>2. GoesOn(c, r)
    BY <1>3, <2>1 DEF GoesOn
  <2>3. QED
    BY <2>2
<1>4. CASE SwitchTenant(c) \/ UpdateActiveTenant(c) \/ DeleteInvite(c) \/ ChangeMember(c)
  BY <1>2, <1>4 DEF SwitchTenant, UpdateActiveTenant, DeleteInvite, ChangeMember, Waiting, Answered
<1>5. CASE CreateTenant(c)
  <2>1. PICK t \in Tenant : calls' = [calls EXCEPT ![c].pc = "ok", ![c].to = t]
    BY <1>5 DEF CreateTenant
  <2> DEFINE r == [calls[c] EXCEPT !.pc = "ok", !.to = t]
  <2>2. calls[c] # Idle /\ calls[c].op = "create" /\ flags' = flags
    BY <1>5 DEF CreateTenant, Waiting
  <2>3. r \in Sensible /\ r.op = calls[c].op /\ r.here = calls[c].here /\ r.stage = calls[c].stage
    BY <1>1, <2>2 DEF Sensible, Request
  <2>4. GoesOn(c, r)
    BY <2>1, <2>2, <2>3 DEF GoesOn
  <2>5. QED
    BY <2>4
<1>6. CASE CreateInvite(c)
  <2>1. PICK i \in Invite : calls' = [calls EXCEPT ![c].pc = "ok", ![c].invite = i]
    BY <1>6 DEF CreateInvite
  <2> DEFINE r == [calls[c] EXCEPT !.pc = "ok", !.invite = i]
  <2>2. calls[c] # Idle /\ calls[c].op = "invite" /\ flags' = flags
    BY <1>6 DEF CreateInvite, Waiting
  <2>3. r \in Sensible /\ r.op = calls[c].op /\ r.here = calls[c].here /\ r.stage = calls[c].stage
    BY <1>1, <2>2 DEF Sensible, Request
  <2>4. GoesOn(c, r)
    BY <2>1, <2>2, <2>3 DEF GoesOn
  <2>5. QED
    BY <2>4
<1>7. CASE CreateTenantFails(c) \/ Refuse(c)
  BY <1>3, <1>7 DEF CreateTenantFails, Refuse, Waiting
<1>8. CASE ReadLists(c)
  <2> DEFINE l == handleListMembers(calls[c].at)
             r == [calls[c] EXCEPT !.pc = "ok", !.read = l]
  <2>1. calls[c] # Idle /\ calls[c].stage = "lists" /\ flags' = flags
    BY <1>8 DEF ReadLists
  <2>2. l \in Lists
    <3>1. calls[c].at \in Tenant
      BY <1>1, <2>1 DEF Request
    <3>2. QED
      BY <3>1 DEF handleListMembers, Lists, Typed, TypeOK
  <2>3. calls' = [calls EXCEPT ![c] = r]
    BY <1>8 DEF ReadLists
  <2> HIDE DEF l
  <2>4. r \in Sensible /\ r.op = calls[c].op /\ r.here = calls[c].here /\ r.stage = calls[c].stage
    BY <1>1, <2>1, <2>2 DEF Sensible, Request
  <2>5. GoesOn(c, r)
    BY <2>1, <2>3, <2>4 DEF GoesOn
  <2>6. QED
    BY <2>5
<1>9. QED
  BY <1>4, <1>5, <1>6, <1>7, <1>8 DEF Server

LEMMA PageMoves ==
    ASSUME Typed, NEW c \in Call, Page(c)
    PROVE  (\E r : GoesOn(c, r)) \/ Ends(c)
<1>1. calls[c] # Idle => calls[c] \in Sensible /\ calls[c] \in Request
  BY DEF Typed, Sensible
<1>2. cookie \in Tenant
  BY DEF Typed, TypeOK
<1>3. CASE ShowThenLoad(c)
  <2> DEFINE r == [calls[c] EXCEPT !.stage = "session", !.pc = "sent", !.at = cookie]
  <2>1. calls[c] # Idle /\ calls[c].op \in {"switch", "create"}
    BY <1>3 DEF ShowThenLoad, Arrived
  <2>2. r \in Sensible /\ r.op = calls[c].op /\ r.here = calls[c].here /\ r.stage # "request"
    BY <1>1, <1>2, <2>1 DEF Sensible, Request
  <2>3. GoesOn(c, r)
    BY <1>3, <2>1, <2>2 DEF GoesOn, ShowThenLoad
  <2>4. QED
    BY <2>3
<1>4. CASE SessionAnswered(c)
  <2> DEFINE r == [calls[c] EXCEPT !.stage = "lists", !.at = cookie]
  <2>1. calls[c] # Idle /\ calls[c].stage = "session"
    BY <1>4 DEF SessionAnswered
  <2>2. r \in Sensible /\ r.op = calls[c].op /\ r.here = calls[c].here /\ r.stage # "request"
    BY <1>1, <1>2, <2>1 DEF Sensible, Request
  <2>3. GoesOn(c, r)
    BY <1>4, <2>1, <2>2 DEF GoesOn, SessionAnswered
  <2>4. QED
    BY <2>3
<1>5. CASE ListsAnswered(c) \/ Saved(c) \/ ListsChanged(c) \/ Refused(c)
  BY <1>5 DEF Ends, ListsAnswered, Saved, ListsChanged, Refused, Arrived
<1>6. QED
  BY <1>3, <1>4, <1>5 DEF Page

LEMMA EveryStepMoves ==
    ASSUME Typed, Next
    PROVE  \E c \in Call : Moves(c)
BY HandlersMove, ServerMoves, PageMoves DEF Next, Moves

(* The requests that are left, and the load that begins.                   *)
FirstLoad == [Asked("load", None) EXCEPT !.stage = "session"]

LEMMA FirstLoadIsSensible ==
    ASSUME cookie \in Tenant
    PROVE  /\ FirstLoad \in Sensible /\ FirstLoad # Idle /\ FirstLoad.here
           /\ FirstLoad.op = "load" /\ FirstLoad.stage = "session" /\ FirstLoad.pc = "sent"
           /\ FirstLoad.at = cookie
<1>1. FirstLoad \in Sensible
  BY DEF FirstLoad, Asked, Sensible, Request, NoLists, Lists, Members
<1>2. QED
  BY <1>1 DEF FirstLoad, Asked, Idle, None

LEMMA ReopenCalls ==
    ASSUME Typed, NEW c \in Call, Reopen(c)
    PROVE  /\ calls[c] = Idle /\ calls'[c] = FirstLoad
           /\ \A d \in Call \ {c} :
                 IF calls[d] = Idle THEN calls'[d] = Idle
                 ELSE calls'[d] \in Sensible /\ calls'[d] = [calls[d] EXCEPT !.here = FALSE]
           /\ calls' \in [Call -> Request \cup {Idle}]
<1>1. calls' = [Left EXCEPT ![c] = FirstLoad] /\ calls[c] = Idle
  BY DEF Reopen, FirstLoad, Free
<1>2. FirstLoad \in Sensible
  BY FirstLoadIsSensible DEF Typed, TypeOK
<1>3. ASSUME NEW d \in Call, calls[d] # Idle PROVE [calls[d] EXCEPT !.here = FALSE] \in Sensible
  BY <1>3 DEF Typed, Sensible, Request
<1>4. \A d \in Call : Left[d] = IF calls[d] = Idle THEN Idle ELSE [calls[d] EXCEPT !.here = FALSE]
  BY DEF Left
<1>5. Left \in [Call -> Request \cup {Idle}]
  BY <1>3 DEF Left, Sensible
<1>6. QED
  BY <1>1, <1>2, <1>3, <1>4, <1>5 DEF Sensible

LEMMA MovesKeepCalls ==
    ASSUME Typed, NEW c \in Call, Moves(c)
    PROVE  /\ calls' \in [Call -> Request \cup {Idle}]
           /\ flags' \subseteq Controls \cup {"load"}
           /\ \A d \in Call : calls'[d] = Idle \/ calls'[d] \in Sensible
<1>1. ASSUME NEW r \in Sensible, calls' = [calls EXCEPT ![c] = r]
      PROVE  /\ calls' \in [Call -> Request \cup {Idle}]
             /\ \A d \in Call : calls'[d] = Idle \/ calls'[d] \in Sensible
  BY <1>1 DEF Typed, TypeOK, Sensible
<1>2. ASSUME calls' = [calls EXCEPT ![c] = Idle]
      PROVE  /\ calls' \in [Call -> Request \cup {Idle}]
             /\ \A d \in Call : calls'[d] = Idle \/ calls'[d] \in Sensible
  BY <1>2 DEF Typed, TypeOK
<1>3. flags' \subseteq Controls \cup {"load"}
  BY DEF Typed, TypeOK, Moves, Begins, GoesOn, Ends, Ended, Reopen, Opened, Held, Controls
<1>4. QED
  <2>1. ASSUME Reopen(c) PROVE \A d \in Call : calls'[d] = Idle \/ calls'[d] \in Sensible
    BY <2>1, ReopenCalls, FirstLoadIsSensible DEF Typed, TypeOK
  <2>2. QED
    BY <1>1, <1>2, <1>3, <2>1, ReopenCalls DEF Moves, Begins, GoesOn, Ends, Ended
-----------------------------------------------------------------------------
(* The other variables.                                                    *)
Others == <<cookie, server, view>>
OthersTyped ==
    /\ cookie \in Tenant /\ exists \subseteq Tenant /\ role \in [Tenant -> Members]
    /\ invited \in [Invite -> Tenant \cup {None}] /\ drawn \subseteq Invite
    /\ shown \in Tenant \cup {None} /\ form \in Tenant \cup {None}
    /\ lists \in Lists /\ failed \in BOOLEAN /\ overtaken \in BOOLEAN

LEMMA ServerTyped ==
    ASSUME Typed, NEW c \in Call, Server(c)
    PROVE  OthersTyped'
<1> USE DEF OthersTyped, view
<1>1. TypeOK /\ (calls[c] # Idle => calls[c] \in Sensible /\ calls[c] \in Request)
  BY DEF Typed, Sensible
<1>2. CASE SwitchTenant(c)
  <2>1. calls[c] # Idle /\ calls[c].op = "switch" /\ cookie' = calls[c].to
    BY <1>2 DEF SwitchTenant, Waiting
  <2>2. cookie' \in Tenant
    BY <1>1, <2>1 DEF Sensible
  <2>3. QED
    BY <1>1, <1>2, <2>2 DEF SwitchTenant, Overtakes, TypeOK, server
<1>3. CASE CreateTenant(c)
  <2>1. PICK t \in Tenant \ exists :
           exists' = exists \cup {t} /\ role' = [role EXCEPT ![t][Me] = "owner"] /\ cookie' = t
    BY <1>3 DEF CreateTenant
  <2>2. role[t] \in [User -> Role \cup {None}]
    BY <1>1, <2>1 DEF TypeOK, Members
  <2>3. [role[t] EXCEPT ![Me] = "owner"] \in [User -> Role \cup {None}]
    BY <2>2 DEF Role
  <2>4. role' \in [Tenant -> Members]
    BY <1>1, <2>1, <2>3 DEF TypeOK, Members
  <2>5. QED
    BY <1>1, <1>3, <2>1, <2>4 DEF CreateTenant, Overtakes, TypeOK
<1>4. CASE CreateTenantFails(c)
  BY <1>1, <1>4 DEF CreateTenantFails, TypeOK
<1>5. CASE UpdateActiveTenant(c) \/ ReadLists(c) \/ Refuse(c)
  BY <1>1, <1>5 DEF UpdateActiveTenant, ReadLists, Refuse, TypeOK, server
<1>6. CASE CreateInvite(c)
  <2>1. calls[c].at \in Tenant
    BY <1>1, <1>6 DEF CreateInvite, Waiting, Request
  <2>2. QED
    BY <1>1, <1>6, <2>1 DEF CreateInvite, TypeOK
<1>7. CASE DeleteInvite(c)
  <2> DEFINE i == calls[c].invite
             n == IF invited[i] = calls[c].at THEN None ELSE invited[i]
  <2>1. invited' = [invited EXCEPT ![i] = n]
    BY <1>7 DEF DeleteInvite
  <2>2. invited \in [Invite -> Tenant \cup {None}]
    BY <1>1 DEF TypeOK
  <2>3. i \in Invite => n \in Tenant \cup {None}
    BY <2>2
  <2> HIDE DEF n, i
  <2>4. invited' \in [Invite -> Tenant \cup {None}]
    BY <2>1, <2>2, <2>3
  <2>5. QED
    BY <1>1, <1>7, <2>4 DEF DeleteInvite, TypeOK
<1>8. CASE ChangeMember(c)
  <2> DEFINE t == calls[c].at
             u == calls[c].user
             n == IF role[t][u] = None THEN None ELSE calls[c].role
             m == [role[t] EXCEPT ![u] = n]
  <2>1. role' = [role EXCEPT ![t] = m]
    BY <1>8 DEF ChangeMember
  <2>2. t \in Tenant /\ calls[c].role \in Role \cup {None}
    BY <1>1, <1>8 DEF ChangeMember, Waiting, Request
  <2>3. role[t] \in [User -> Role \cup {None}] /\ role \in [Tenant -> Members]
    BY <1>1, <2>2 DEF TypeOK, Members
  <2>4. n \in Role \cup {None}
    BY <2>2
  <2> HIDE DEF n, u
  <2>5. m \in Members
    BY <2>3, <2>4 DEF Members
  <2> HIDE DEF m
  <2>6. role' \in [Tenant -> Members]
    BY <2>1, <2>3, <2>5
  <2>7. QED
    BY <1>1, <1>8, <2>6 DEF ChangeMember, TypeOK
<1>9. QED
  BY <1>2, <1>3, <1>4, <1>5, <1>6, <1>7, <1>8 DEF Server

LEMMA PageTyped ==
    ASSUME Typed, NEW c \in Call, Page(c)
    PROVE  OthersTyped'
<1> USE DEF OthersTyped
<1>1. TypeOK /\ (calls[c] # Idle => calls[c] \in Sensible /\ calls[c] \in Request)
  BY DEF Typed, Sensible
<1>2. CASE ShowThenLoad(c)
  <2>1. calls[c].to \in Tenant \cup {None}
    BY <1>1, <1>2 DEF ShowThenLoad, Arrived, Request
  <2>2. QED
    BY <1>1, <1>2, <2>1 DEF ShowThenLoad, ShowsTenant, TypeOK, server
<1>3. CASE SessionAnswered(c)
  <2>1. calls[c].at \in Tenant
    BY <1>1, <1>3 DEF SessionAnswered, Request
  <2>2. QED
    BY <1>1, <1>3, <2>1 DEF SessionAnswered, ShowsTenant, TypeOK, server
<1>4. CASE ListsAnswered(c)
  <2>1. calls[c].read \in Lists
    BY <1>1, <1>4 DEF ListsAnswered, Request
  <2>2. lists' \in Lists /\ failed' \in BOOLEAN
    BY <1>1, <1>4, <2>1 DEF ListsAnswered, NewLists, TypeOK
  <2>3. QED
    BY <1>1, <1>4, <2>2 DEF ListsAnswered, TypeOK, server
<1>5. CASE Saved(c)
  <2>1. calls[c].at \in Tenant
    BY <1>1, <1>5 DEF Saved, Arrived, Request
  <2>2. QED
    BY <1>1, <1>5, <2>1 DEF Saved, ShowsTenant, TypeOK, server
<1>6. CASE ListsChanged(c)
  <2>1. lists \in Lists
    BY <1>1 DEF TypeOK
  <2>2. ASSUME Arrived(c, "invite"), lists' = [lists EXCEPT !.invites = WithInvite(calls[c].invite)]
        PROVE  lists' \in Lists
    <3>1. calls[c].invite \in Invite
      BY <1>1, <2>2 DEF Arrived, Sensible
    <3>2. WithInvite(calls[c].invite) \subseteq Invite
      BY <2>1, <3>1 DEF WithInvite, Lists
    <3>3. QED
      BY <2>1, <2>2, <3>2 DEF Lists
  <2>3. ASSUME lists' = [lists EXCEPT !.invites = @ \ {calls[c].invite}]
        PROVE  lists' \in Lists
    BY <2>1, <2>3 DEF Lists
  <2>4. ASSUME Arrived(c, "member"),
               lists' = [lists EXCEPT !.members[calls[c].user] = IF @ = None THEN None ELSE calls[c].role]
        PROVE  lists' \in Lists
    <3> DEFINE u == calls[c].user
               n == IF lists.members[u] = None THEN None ELSE calls[c].role
               m == [lists.members EXCEPT ![u] = n]
    <3>1. lists' = [lists EXCEPT !.members = m]
      BY <2>4
    <3>2. n \in Role \cup {None}
      BY <1>1, <2>4 DEF Arrived, Request
    <3>3. lists.members \in [User -> Role \cup {None}]
      BY <2>1 DEF Lists, Members
    <3> HIDE DEF n, u
    <3>4. m \in Members
      BY <3>2, <3>3 DEF Members
    <3> HIDE DEF m
    <3>5. QED
      BY <2>1, <3>1, <3>4 DEF Lists
  <2>5. lists' \in Lists
    <3>1. CASE ~calls[c].here
      BY <1>6, <2>1, <3>1 DEF ListsChanged
    <3>2. CASE calls[c].here
      <4>1. PICK op \in {"invite", "uninvite", "member"} : Arrived(c, op)
        BY <1>6 DEF ListsChanged
      <4>2. calls[c].op = op /\ lists' = Changed(calls[c])
        BY <1>6, <3>2, <4>1 DEF ListsChanged, Arrived
      <4>3. CASE op = "invite"
        BY <2>2, <4>1, <4>2, <4>3 DEF Changed
      <4>4. CASE op = "uninvite"
        BY <2>3, <4>1, <4>2, <4>4 DEF Changed
      <4>5. CASE op = "member"
        BY <2>4, <4>1, <4>2, <4>5 DEF Changed
      <4>6. QED
        BY <4>3, <4>4, <4>5
    <3>3. QED
      BY <3>1, <3>2
  <2>6. QED
    BY <1>1, <1>6, <2>5 DEF ListsChanged, TypeOK, server
<1>7. CASE Refused(c)
  BY <1>1, <1>7 DEF Refused, TypeOK, server, view
<1>8. QED
  BY <1>2, <1>3, <1>4, <1>5, <1>6, <1>7 DEF Page

LEMMA HandlersTyped ==
    ASSUME Typed, NEW c \in Call,
           \/ \E t \in Tenant : handleSwitchTenant(c, t)
           \/ handleCreateTenant(c) \/ handleSave(c) \/ handleCreateInvite(c)
           \/ \E i \in Invite : handleDeleteInvite(c, i)
           \/ \E u \in User : removeMember(c, u) \/ \E r \in Role : updateMemberRole(c, u, r)
    PROVE  UNCHANGED Others
BY DEF handleSwitchTenant, handleCreateTenant, handleSave, handleCreateInvite, handleDeleteInvite,
   removeMember, updateMemberRole, Click, Others

LEMMA TypedStep ==
    ASSUME Typed, [Next]_vars
    PROVE  Typed'
<1>1. CASE UNCHANGED vars
  BY <1>1 DEF vars, server, view, Typed, TypeOK
<1>2. CASE Next
  <2>1. /\ calls' \in [Call -> Request \cup {Idle}]
        /\ flags' \subseteq Controls \cup {"load"}
        /\ \A d \in Call : calls'[d] = Idle \/ calls'[d] \in Sensible
    BY <1>2, EveryStepMoves, MovesKeepCalls
  <2>2. UNCHANGED Others => OthersTyped'
    BY DEF Typed, TypeOK, Others, OthersTyped, server, view
  <2>5. ASSUME NEW c \in Call, Reopen(c) PROVE OthersTyped'
    BY <2>5 DEF Reopen, Opened, NoLists, Lists, Members, server, OthersTyped, Typed, TypeOK
  <2>3. OthersTyped'
    BY <1>2, <2>2, <2>5, ServerTyped, PageTyped, HandlersTyped DEF Next
  <2>4. QED
    BY <2>1, <2>3 DEF Typed, TypeOK, OthersTyped
<1>3. QED
  BY <1>1, <1>2

LEMMA TypedInit ==
    ASSUME Init
    PROVE  Typed
<1> USE TenantSettingsAssumption
<1>1. PICK c \in Call :
         calls = [d \in Call |-> IF d = c THEN [Asked("load", None) EXCEPT !.stage = "session"] ELSE Idle]
  BY DEF Init
<1>2. [Asked("load", None) EXCEPT !.stage = "session"] \in Sensible
  BY DEF Init, Asked, Sensible, Request, NoLists, Lists, Members
<1>3. \A d \in Call : calls[d] = Idle \/ calls[d] \in Sensible
  BY <1>1, <1>2
<1>4. calls \in [Call -> Request \cup {Idle}]
  BY <1>1, <1>2 DEF Sensible
<1>5. role \in [Tenant -> Members]
  BY DEF Init, Members, Role
<1>6. lists \in Lists
  BY DEF Init, NoLists, Lists, Members
<1>7. QED
  BY <1>3, <1>4, <1>5, <1>6 DEF Init, Typed, TypeOK

(* Type correctness of the server's rows, the page and the requests.       *)
THEOREM SettingsTypeCorrect == Spec => []TypeOK
<1>1. Typed => TypeOK
  BY DEF Typed
<1>2. Typed /\ [Next]_vars => Typed'
  BY TypedStep
<1>3. QED
  BY <1>1, <1>2, TypedInit, PTL DEF Spec
-----------------------------------------------------------------------------
(* A flag is raised by the handler that begins, and lowered when it ends.  *)
LEMMA FlagsStep ==
    ASSUME Typed, FlagsTellHandlers, NEW c \in Call, Moves(c)
    PROVE  FlagsTellHandlers'
<1>1. calls \in [Call -> Request \cup {Idle}]
  BY DEF Typed, TypeOK
<1>2. ASSUME NEW f \in Held
      PROVE  /\ f \in flags <=> \E d \in Call : Running(d, f)
             /\ \A d, e \in Call : Running(d, f) /\ Running(e, f) => d = e
  BY DEF FlagsTellHandlers
<1>3. \A r \in Sensible : r # Idle
  BY DEF Sensible, Request, Idle, Controls, None
<1>4. ~Reopen(c) => \A d \in Call \ {c} : calls'[d] = calls[d]
  BY <1>1 DEF Moves, Begins, GoesOn, Ends, Ended
<1>5. ASSUME NEW f \in Held, NEW d \in Call \ {c}, ~Reopen(c) PROVE Running(d, f)' <=> Running(d, f)
  BY <1>4, <1>5 DEF Running
<1>6. ASSUME NEW r, Begins(c, r), ~Reopen(c) PROVE FlagsTellHandlers'
  <2>1. ~\E f \in Held : Running(c, f)
    BY <1>6 DEF Begins, Running
  <2>2. ASSUME NEW f \in Held PROVE Running(c, f)' <=> r.op = f
    BY <1>1, <1>3, <1>6 DEF Begins, Running
  <2>3. \A f \in Held : f \in flags' <=> f \in flags \/ f = r.op
    BY <1>6 DEF Begins
  <2>4. r.op \in Held => r.op \notin flags
    BY <1>6 DEF Begins
  <2>5. ASSUME NEW f \in Held
        PROVE  /\ f \in flags' <=> \E d \in Call : Running(d, f)'
               /\ \A d, e \in Call : Running(d, f)' /\ Running(e, f)' => d = e
    BY <1>2, <1>5, <1>6, <2>1, <2>2, <2>3, <2>4
  <2>6. QED
    BY <2>5 DEF FlagsTellHandlers
<1>7. ASSUME NEW r, GoesOn(c, r), ~Reopen(c) PROVE FlagsTellHandlers'
  <2>1. ASSUME NEW f \in Held PROVE Running(c, f)' <=> Running(c, f)
    BY <1>1, <1>3, <1>7 DEF GoesOn, Running
  <2>2. \A f \in Held, d \in Call : Running(d, f)' <=> Running(d, f)
    BY <1>5, <1>7, <2>1
  <2>3. flags' = flags
    BY <1>7 DEF GoesOn
  <2>4. QED
    BY <1>2, <2>2, <2>3 DEF FlagsTellHandlers
<1>8. CASE Ends(c) /\ ~Reopen(c)
  <2>1. ASSUME NEW f \in Held
        PROVE  ~Running(c, f)' /\ (Running(c, f) <=> calls[c].op = f /\ calls[c].here)
    BY <1>1, <1>8 DEF Ends, Ended, Running
  <2>2. flags' = IF calls[c].here THEN flags \ {calls[c].op} ELSE flags
    BY <1>8 DEF Ends, Ended
  <2>3. ASSUME NEW f \in Held
        PROVE  /\ f \in flags' <=> \E d \in Call : Running(d, f)'
               /\ \A d, e \in Call : Running(d, f)' /\ Running(e, f)' => d = e
    BY <1>2, <1>5, <1>8, <2>1, <2>2
  <2>4. QED
    BY <2>3 DEF FlagsTellHandlers
<1>9. CASE Reopen(c)
  <2>1. /\ calls'[c] = FirstLoad /\ FirstLoad.op = "load" /\ FirstLoad.here /\ FirstLoad # Idle
    BY <1>9, ReopenCalls, FirstLoadIsSensible DEF Typed, TypeOK
  <2>2. ASSUME NEW d \in Call \ {c} PROVE calls'[d] = Idle \/ ~calls'[d].here
    <3>1. calls[d] # Idle => calls[d] \in Request
      BY DEF Typed, Sensible
    <3>2. calls[d] # Idle => calls'[d] = [calls[d] EXCEPT !.here = FALSE]
      BY <1>9, ReopenCalls
    <3>3. calls[d] = Idle => calls'[d] = Idle
      BY <1>9, ReopenCalls
    <3>4. QED
      BY <3>1, <3>2, <3>3 DEF Request
  <2>3. ASSUME NEW f \in Held, NEW d \in Call PROVE Running(d, f)' <=> d = c /\ f = "load"
    BY <2>1, <2>2 DEF Running, Idle
  <2>4. flags' = {"load"}
    BY <1>9 DEF Reopen, Opened
  <2>5. QED
    BY <2>3, <2>4 DEF FlagsTellHandlers
<1>10. QED
  BY <1>6, <1>7, <1>8, <1>9 DEF Moves

LEMMA FlagsInit ==
    ASSUME Init
    PROVE  FlagsTellHandlers
<1>1. PICK c \in Call :
         calls = [d \in Call |-> IF d = c THEN [Asked("load", None) EXCEPT !.stage = "session"] ELSE Idle]
  BY DEF Init
<1>2. calls[c].op = "load" /\ calls[c].here /\ calls[c] # Idle
  BY <1>1 DEF Asked, Idle, None
<1>3. \A d \in Call \ {c} : calls[d] = Idle
  BY <1>1
<1>4. \A f \in Held, d \in Call : Running(d, f) <=> d = c /\ f = "load"
  BY <1>2, <1>3 DEF Running
<1>5. flags = {"load"}
  BY DEF Init
<1>6. QED
  BY <1>4, <1>5 DEF FlagsTellHandlers

(* A control is held exactly while its handler runs, and no handler of a   *)
(* held control runs twice at once, whatever is answered or refused.       *)
THEOREM HeldControls == Spec => []FlagsTellHandlers
<1>1. Init => Typed /\ FlagsTellHandlers
  BY TypedInit, FlagsInit
<1>2. Typed /\ FlagsTellHandlers /\ [Next]_vars => Typed' /\ FlagsTellHandlers'
  <2> SUFFICES ASSUME Typed, FlagsTellHandlers, [Next]_vars PROVE FlagsTellHandlers'
    BY TypedStep
  <2>1. CASE UNCHANGED vars
    BY <2>1 DEF vars, FlagsTellHandlers, Running
  <2>2. CASE Next
    BY <2>2, EveryStepMoves, FlagsStep
  <2>3. QED
    BY <2>1, <2>2
<1>3. QED
  BY <1>1, <1>2, PTL DEF Spec
-----------------------------------------------------------------------------
(* Without creations and saves, the tenant shown is the business of one    *)
(* handler of this visit at a time: the load or a switch, which knows the  *)
(* tenant of the cookie from its answer on.  Only a switch of an earlier   *)
(* visit moves the cookie meanwhile, and overtakes it.                     *)
Loads(c)  == calls[c] # Idle /\ calls[c].op \in {"load", "switch"} /\ calls[c].here
Agrees    == ~failed /\ ~overtaken => shown \in {None, cookie} /\ lists.of = cookie
Knows(r)  ==
    /\ r.stage = "request" => IF r.pc = "ok" THEN overtaken \/ cookie = r.to ELSE Agrees
    /\ r.stage = "session" => r.pc = "sent" /\ (overtaken \/ r.at = cookie)
    /\ r.stage = "lists" => \/ overtaken
                            \/ /\ r.at = cookie /\ shown \in {None, cookie}
                               /\ r.pc = "ok" => r.read.of = cookie
Orderly(r) == r # Idle =>
    /\ r.op \notin {"create", "save"}
    /\ r.stage = "request" \/ r.op \in {"load", "switch"}
    /\ r.op = "load" => r.stage # "request"
Coherent ==
    /\ form = shown
    /\ \A c, d \in Call : Loads(c) /\ Loads(d) => c = d
    /\ \A c \in Call : Orderly(calls[c]) /\ (Loads(c) => Knows(calls[c]))
    /\ (\A c \in Call : ~Loads(c)) => Agrees

(* A step of another handler, which may only change what the lists hold,   *)
(* or the cookie if it overtakes the page.                                 *)
LEMMA SideStep ==
    ASSUME Coherent, NEW c \in Call, ~Loads(c), ~Loads(c)', Orderly(calls[c])',
           \A d \in Call \ {c} : calls'[d] = calls[d],
           UNCHANGED <<shown, form, failed>>, lists'.of = lists.of,
           UNCHANGED <<cookie, overtaken>> \/ overtaken'
    PROVE  Coherent'
<1>1. Agrees => Agrees'
  BY DEF Agrees
<1>2. ASSUME NEW d \in Call PROVE (Loads(d)' <=> Loads(d)) /\ (Loads(d) => calls'[d] = calls[d])
  BY DEF Loads
<1>3. ASSUME NEW r, Knows(r) PROVE Knows(r)'
  <2>1. CASE overtaken'
    BY <1>3, <2>1 DEF Knows, Agrees
  <2>2. CASE UNCHANGED <<cookie, overtaken>>
    BY <1>1, <1>3, <2>2 DEF Knows
  <2>3. QED
    BY <2>1, <2>2
<1>4. QED
  BY <1>1, <1>2, <1>3 DEF Coherent, Orderly

(* A step of the handler in charge.                                        *)
LEMMA ChargeStep ==
    ASSUME Coherent, NEW c \in Call, \A d \in Call \ {c} : ~Loads(d) /\ calls'[d] = calls[d],
           form' = shown', Orderly(calls[c])',
           IF Loads(c)' THEN Knows(calls[c])' ELSE Agrees'
    PROVE  Coherent'
<1>1. ASSUME NEW d \in Call \ {c} PROVE ~Loads(d)' /\ Orderly(calls[d])'
  BY DEF Loads, Coherent, Orderly
<1>2. \A d \in Call : Loads(d)' => d = c
  BY <1>1
<1>3. \A d \in Call : Orderly(calls[d])' /\ (Loads(d)' => Knows(calls[d])')
  BY <1>1, <1>2
<1>4. (\A d \in Call : ~Loads(d)') => Agrees'
  OBVIOUS
<1>5. QED
  BY <1>2, <1>3, <1>4 DEF Coherent

LEMMA HandlersCohere ==
    ASSUME Buttons \cap {"create", "save"} = {}, Typed, FlagsTellHandlers, Coherent, NEW c \in Call,
           \/ \E t \in Tenant : handleSwitchTenant(c, t)
           \/ handleCreateTenant(c) \/ handleSave(c) \/ handleCreateInvite(c)
           \/ \E i \in Invite : handleDeleteInvite(c, i)
           \/ \E u \in User : removeMember(c, u) \/ \E r \in Role : updateMemberRole(c, u, r)
    PROVE  Coherent'
<1>1. calls[c] = Idle /\ UNCHANGED <<cookie, shown, form, failed, lists>>
  BY DEF handleSwitchTenant, handleCreateTenant, handleSave, handleCreateInvite, handleDeleteInvite,
     removeMember, updateMemberRole, Click, Free, view
<1>12. overtaken' = overtaken
  BY DEF handleSwitchTenant, handleCreateTenant, handleSave, handleCreateInvite, handleDeleteInvite,
     removeMember, updateMemberRole, Click, view
<1>2. ~Loads(c)
  BY <1>1 DEF Loads
<1>3. \A d \in Call \ {c} : calls'[d] = calls[d]
  BY DEF handleSwitchTenant, handleCreateTenant, handleSave, handleCreateInvite, handleDeleteInvite,
     removeMember, updateMemberRole, Click, Typed, TypeOK
<1>4. ASSUME NEW t \in Tenant, handleSwitchTenant(c, t) PROVE Coherent'
  <2>1. "load" \notin flags /\ "switch" \notin flags
    BY <1>4 DEF handleSwitchTenant, Offered, MaySwitch
  <2>2. \A d \in Call : ~Running(d, "load") /\ ~Running(d, "switch")
    BY <2>1 DEF FlagsTellHandlers, Held
  <2>3. \A d \in Call : ~Loads(d)
    BY <2>2 DEF Loads, Running
  <2>4. Agrees
    BY <2>3 DEF Coherent
  <2>5. calls'[c] = Asked("switch", t)
    BY <1>4 DEF handleSwitchTenant, Click, Typed, TypeOK
  <2>6. Orderly(calls[c])' /\ calls'[c].stage = "request" /\ calls'[c].pc = "sent"
    BY <2>5 DEF Asked, Orderly
  <2>7. Agrees'
    BY <1>1, <1>12, <2>4 DEF Agrees
  <2>8. form' = shown' /\ Knows(calls[c])'
    BY <1>1, <2>6, <2>7 DEF Coherent, Knows
  <2>9. QED
    BY <1>3, <2>3, <2>6, <2>7, <2>8, ChargeStep
<1>5. ~handleCreateTenant(c) /\ ~handleSave(c)
  BY DEF handleCreateTenant, handleSave, Offered
<1>6. ASSUME calls'[c].op \in {"invite", "uninvite", "member"}, calls'[c].stage = "request"
      PROVE  Coherent'
  <2>1. Orderly(calls[c])' /\ ~Loads(c)'
    BY <1>6 DEF Orderly, Loads
  <2>2. QED
    BY <1>1, <1>2, <1>3, <1>12, <2>1, SideStep
<1>7. CASE handleCreateInvite(c)
  BY <1>6, <1>7 DEF handleCreateInvite, Click, Asked, Typed, TypeOK
<1>8. ASSUME NEW i \in Invite, handleDeleteInvite(c, i) PROVE Coherent'
  BY <1>6, <1>8 DEF handleDeleteInvite, Click, Asked, Typed, TypeOK
<1>9. ASSUME NEW u \in User, removeMember(c, u) PROVE Coherent'
  BY <1>6, <1>9 DEF removeMember, Click, Asked, Typed, TypeOK
<1>10. ASSUME NEW u \in User, NEW r \in Role, updateMemberRole(c, u, r) PROVE Coherent'
  BY <1>6, <1>10 DEF updateMemberRole, Click, Asked, Typed, TypeOK
<1>11. QED
  BY <1>4, <1>5, <1>7, <1>8, <1>9, <1>10

LEMMA TheRequest ==
    ASSUME Typed, Coherent, NEW c \in Call, calls[c] # Idle
    PROVE  /\ calls[c] \in Request
           /\ calls[c].op \notin {"create", "save"}
           /\ calls[c].here => calls[c].stage = "request" \/ Loads(c)
           /\ calls[c].op = "load" => calls[c].stage # "request"
           /\ Loads(c) => Knows(calls[c]) /\ \A d \in Call \ {c} : ~Loads(d)
BY DEF Typed, Sensible, Coherent, Orderly, Loads

(* What a handler of an earlier visit still does.                          *)
LEMMA OldCoheres ==
    ASSUME Typed, Coherent, NEW c \in Call, ~calls[c].here, Server(c) \/ Page(c)
    PROVE  Coherent'
<1>1. calls[c] # Idle
  BY DEF Server, SwitchTenant, CreateTenant, CreateTenantFails, UpdateActiveTenant, CreateInvite,
     DeleteInvite, ChangeMember, ReadLists, Refuse, Waiting,
     Page, ShowThenLoad, SessionAnswered, ListsAnswered, Saved, ListsChanged, Refused, Arrived
<1>2. calls \in [Call -> Request \cup {Idle}] /\ calls[c] \in Request /\ cookie \in Tenant /\ overtaken \in BOOLEAN
  BY <1>1, TheRequest DEF Typed, TypeOK
<1>3. \/ \E r : GoesOn(c, r)
      \/ Ends(c)
  BY ServerMoves, PageMoves
<1>4. Orderly(calls[c])
  BY DEF Coherent
<1>5. ~Loads(c) /\ ~Loads(c)' /\ Orderly(calls[c])' /\ \A d \in Call \ {c} : calls'[d] = calls[d]
  <2>1. ASSUME NEW r, GoesOn(c, r) PROVE Orderly(r) /\ r = calls'[c] /\ ~r.here
    BY <1>1, <1>2, <1>4, <2>1 DEF GoesOn, Orderly
  <2>2. Ends(c) => calls'[c] = Idle
    BY <1>2 DEF Ends, Ended
  <2>3. \A d \in Call \ {c} : calls'[d] = calls[d]
    BY <1>2, <1>3 DEF GoesOn, Ends, Ended
  <2>4. ~Loads(c)' /\ Orderly(calls[c])'
    BY <1>3, <2>1, <2>2 DEF Loads, Orderly
  <2>5. QED
    BY <2>3, <2>4 DEF Loads
<1>6. UNCHANGED <<shown, form, failed, lists>>
  BY DEF Server, SwitchTenant, CreateTenant, CreateTenantFails, UpdateActiveTenant, CreateInvite,
     DeleteInvite, ChangeMember, ReadLists, Refuse, view, Overtakes,
     Page, ShowThenLoad, SessionAnswered, ListsAnswered, Saved, ListsChanged, Refused, ShowsTenant
<1>7. UNCHANGED <<cookie, overtaken>> \/ overtaken'
  <2>1. CASE SwitchTenant(c) \/ CreateTenant(c)
    BY <1>2, <2>1 DEF SwitchTenant, CreateTenant, Overtakes
  <2>2. CASE Server(c) /\ ~SwitchTenant(c) /\ ~CreateTenant(c)
    BY <2>2 DEF Server, CreateTenantFails, UpdateActiveTenant, CreateInvite,
       DeleteInvite, ChangeMember, ReadLists, Refuse, view
  <2>3. CASE Page(c)
    BY <1>2, <2>3 DEF Page, ShowThenLoad, SessionAnswered, ListsAnswered, Saved, ListsChanged, Refused, view
  <2>4. QED
    BY <2>1, <2>2, <2>3
<1>8. QED
  BY <1>5, <1>6, <1>7, SideStep

LEMMA ServerCoheres ==
    ASSUME Typed, Coherent, NEW c \in Call, Server(c), calls[c].here
    PROVE  Coherent'
<1>1. calls[c] # Idle
  BY DEF Server, SwitchTenant, CreateTenant, CreateTenantFails, UpdateActiveTenant, CreateInvite,
     DeleteInvite, ChangeMember, ReadLists, Refuse, Waiting
<1>2. /\ calls[c] \in Request
      /\ calls[c].op \notin {"create", "save"}
      /\ calls[c].stage = "request" \/ Loads(c)
      /\ calls[c].op = "load" => calls[c].stage # "request"
      /\ Loads(c) => Knows(calls[c]) /\ \A d \in Call \ {c} : ~Loads(d)
  BY <1>1, TheRequest
<1>3. calls \in [Call -> Request \cup {Idle}] /\ form = shown
  BY DEF Typed, TypeOK, Coherent
<1>4. UNCHANGED <<shown, form, failed, lists>>
  BY DEF Server, SwitchTenant, CreateTenant, CreateTenantFails, UpdateActiveTenant, CreateInvite,
     DeleteInvite, ChangeMember, ReadLists, Refuse, view, Overtakes
<1>13. overtaken' = overtaken
  BY <1>2 DEF Server, SwitchTenant, CreateTenant, CreateTenantFails, UpdateActiveTenant, CreateInvite,
     DeleteInvite, ChangeMember, ReadLists, Refuse, view, Overtakes, Typed, TypeOK
<1>5. ASSUME SwitchTenant(c) PROVE Coherent'
  <2>1. /\ calls[c].op = "switch" /\ calls[c].stage = "request" /\ cookie' = calls[c].to
        /\ calls' = [calls EXCEPT ![c].pc = "ok"]
    BY <1>5 DEF SwitchTenant, Waiting, Answered
  <2>2. /\ calls'[c].op = "switch" /\ calls'[c].stage = "request" /\ calls'[c].pc = "ok"
        /\ calls'[c].to = calls[c].to /\ calls'[c].here /\ \A d \in Call \ {c} : calls'[d] = calls[d]
    BY <1>2, <1>3, <2>1 DEF Request
  <2>3. Loads(c) /\ Orderly(calls[c])' /\ Knows(calls[c])'
    BY <1>1, <2>1, <2>2 DEF Loads, Orderly, Knows
  <2>4. Agrees' \/ Loads(c)'
    BY <2>2 DEF Loads, Idle, None
  <2>5. QED
    BY <1>2, <1>3, <1>4, <2>2, <2>3, <2>4, ChargeStep
<1>6. ASSUME ~Loads(c), calls[c].stage = "request", NEW r \in Request, r.op = calls[c].op,
             r.stage = "request", r.here = calls[c].here,
             calls' = [calls EXCEPT ![c] = r], cookie' = cookie
      PROVE  Coherent'
  <2>1. calls'[c] = r /\ \A d \in Call \ {c} : calls'[d] = calls[d]
    BY <1>3, <1>6
  <2>2. ~Loads(c)' /\ Orderly(calls[c])'
    BY <1>1, <1>2, <1>6, <2>1 DEF Loads, Orderly
  <2>3. QED
    BY <1>4, <1>6, <1>13, <2>1, <2>2, SideStep
<1>7. CASE DeleteInvite(c) \/ ChangeMember(c)
  <2> DEFINE r == [calls[c] EXCEPT !.pc = "ok"]
  <2>1. /\ calls[c].op \in {"uninvite", "member"} /\ calls[c].stage = "request"
        /\ calls' = [calls EXCEPT ![c] = r] /\ cookie' = cookie
    BY <1>7 DEF DeleteInvite, ChangeMember, Waiting, Answered
  <2>2. r \in Request /\ r.op = calls[c].op /\ r.stage = "request" /\ r.here = calls[c].here /\ ~Loads(c)
    BY <1>2, <2>1 DEF Request, Loads
  <2> HIDE DEF r
  <2>3. QED
    BY <1>6, <2>1, <2>2
<1>8. CASE CreateInvite(c)
  <2>1. PICK i \in Invite : calls' = [calls EXCEPT ![c].pc = "ok", ![c].invite = i]
    BY <1>8 DEF CreateInvite
  <2> DEFINE r == [calls[c] EXCEPT !.pc = "ok", !.invite = i]
  <2>2. /\ calls[c].op = "invite" /\ calls[c].stage = "request"
        /\ calls' = [calls EXCEPT ![c] = r] /\ cookie' = cookie
    BY <1>8, <2>1 DEF CreateInvite, Waiting
  <2>3. r \in Request /\ r.op = calls[c].op /\ r.stage = "request" /\ r.here = calls[c].here /\ ~Loads(c)
    BY <1>2, <2>2 DEF Request, Loads
  <2> HIDE DEF r
  <2>4. QED
    BY <1>6, <2>2, <2>3
<1>9. CASE ReadLists(c)
  <2> DEFINE l == handleListMembers(calls[c].at)
  <2>1. /\ calls[c].stage = "lists" /\ cookie' = cookie
        /\ calls' = [calls EXCEPT ![c].pc = "ok", ![c].read = l]
    BY <1>9 DEF ReadLists
  <2>2. l.of = calls[c].at
    BY DEF handleListMembers
  <2> HIDE DEF l
  <2>3. /\ calls'[c].op = calls[c].op /\ calls'[c].stage = "lists" /\ calls'[c].pc = "ok"
        /\ calls'[c].at = calls[c].at /\ calls'[c].read = l /\ calls'[c].here
        /\ \A d \in Call \ {c} : calls'[d] = calls[d]
    BY <1>2, <1>3, <2>1 DEF Request
  <2>4. Loads(c) /\ Knows(calls[c])
    BY <1>2, <2>1
  <2>5. overtaken \/ (calls[c].at = cookie /\ shown \in {None, cookie})
    BY <2>1, <2>4 DEF Knows
  <2>6. Knows(calls[c])' /\ Orderly(calls[c])'
    BY <1>2, <1>4, <1>13, <2>1, <2>2, <2>3, <2>4, <2>5 DEF Knows, Orderly, Loads
  <2>7. Loads(c)'
    BY <2>3, <2>4 DEF Loads, Idle, None
  <2>8. QED
    BY <1>2, <1>3, <1>4, <2>3, <2>4, <2>6, <2>7, ChargeStep
<1>10. CASE Refuse(c)
  <2> DEFINE r == [calls[c] EXCEPT !.pc = "refused"]
  <2>1. /\ calls[c].stage # "session" /\ calls[c].pc = "sent" /\ cookie' = cookie
        /\ calls' = [calls EXCEPT ![c] = r]
    BY <1>10 DEF Refuse
  <2>2. /\ r \in Request /\ r.op = calls[c].op /\ r.stage = calls[c].stage /\ r.pc = "refused"
        /\ r.at = calls[c].at /\ r.here = calls[c].here
    BY <1>2 DEF Request
  <2> HIDE DEF r
  <2>3. CASE ~Loads(c)
    BY <1>2, <1>6, <2>1, <2>2, <2>3
  <2>4. CASE Loads(c)
    <3>1. calls'[c] = r /\ \A d \in Call \ {c} : calls'[d] = calls[d]
      BY <1>3, <2>1
    <3>2. Agrees' <=> Agrees
      BY <1>4, <1>13, <2>1 DEF Agrees
    <3>3. Knows(calls[c])
      BY <1>2, <2>4
    <3>4. Knows(calls[c])'
      BY <1>4, <1>13, <2>1, <2>2, <3>1, <3>2, <3>3 DEF Knows
    <3>7. Loads(c)'
      <4>1. r.op \in {"load", "switch"} /\ r.here = TRUE
        BY <1>2, <2>2, <2>4 DEF Loads, Request
      <4>2. r # Idle
        BY <4>1 DEF Idle, None
      <4>3. QED
        BY <3>1, <4>1, <4>2 DEF Loads
    <3>5. Orderly(calls[c])' /\ Loads(c)'
      BY <1>2, <2>2, <3>1, <3>7 DEF Orderly, Loads
    <3>6. QED
      BY <1>2, <1>3, <1>4, <2>4, <3>1, <3>4, <3>5, ChargeStep
  <2>5. QED
    BY <2>3, <2>4
<1>11. ~CreateTenant(c) /\ ~CreateTenantFails(c) /\ ~UpdateActiveTenant(c)
  BY <1>2 DEF CreateTenant, CreateTenantFails, UpdateActiveTenant, Waiting
<1>12. QED
  BY <1>5, <1>7, <1>8, <1>9, <1>10, <1>11 DEF Server

LEMMA PageCoheres ==
    ASSUME Typed, Coherent, NEW c \in Call, Page(c), calls[c].here
    PROVE  Coherent'
<1>1. calls[c] # Idle
  BY DEF Page, ShowThenLoad, SessionAnswered, ListsAnswered, Saved, ListsChanged, Refused, Arrived
<1>2. /\ calls[c] \in Request
      /\ calls[c].op \notin {"create", "save"}
      /\ calls[c].stage = "request" \/ Loads(c)
      /\ calls[c].op = "load" => calls[c].stage # "request"
      /\ Loads(c) => Knows(calls[c]) /\ \A d \in Call \ {c} : ~Loads(d)
  BY <1>1, TheRequest
<1>3. calls \in [Call -> Request \cup {Idle}] /\ form = shown
  BY DEF Typed, TypeOK, Coherent
<1>4. cookie' = cookie
  BY DEF Page, ShowThenLoad, SessionAnswered, ListsAnswered, Saved, ListsChanged, Refused
<1>5. CASE ShowThenLoad(c)
  <2>1. calls[c].op = "switch" /\ calls[c].stage = "request" /\ calls[c].pc = "ok"
    BY <1>2, <1>5 DEF ShowThenLoad, Arrived
  <2>2. Loads(c)
    BY <1>1, <2>1 DEF Loads
  <2>3. shown' = form'
    BY <1>5 DEF ShowThenLoad, ShowsTenant
  <2>4. /\ calls'[c].op = "switch" /\ calls'[c].stage = "session" /\ calls'[c].pc = "sent"
        /\ calls'[c].at = cookie /\ calls'[c].here /\ \A d \in Call \ {c} : calls'[d] = calls[d]
    BY <1>2, <1>3, <1>5, <2>1 DEF ShowThenLoad, Request
  <2>5. Loads(c)' /\ Orderly(calls[c])' /\ Knows(calls[c])'
    BY <1>4, <2>4 DEF Loads, Orderly, Knows, Idle, None
  <2>6. QED
    BY <1>2, <2>2, <2>3, <2>4, <2>5, ChargeStep
<1>6. CASE SessionAnswered(c)
  <2>1. calls[c].stage = "session"
    BY <1>6 DEF SessionAnswered
  <2>2. Loads(c) /\ calls[c].pc = "sent" /\ (overtaken \/ calls[c].at = cookie)
    <3>1. Loads(c)
      BY <1>2, <2>1
    <3>2. QED
      BY <1>2, <2>1, <3>1 DEF Knows
  <2>3. shown' = form' /\ (overtaken \/ shown' \in {None, cookie}) /\ overtaken' = overtaken
    BY <1>6, <2>2 DEF SessionAnswered, ShowsTenant
  <2>4. /\ calls'[c].op = calls[c].op /\ calls'[c].stage = "lists" /\ calls'[c].pc = "sent"
        /\ calls'[c].at = cookie /\ calls'[c].here /\ \A d \in Call \ {c} : calls'[d] = calls[d]
    BY <1>2, <1>3, <1>6, <2>2 DEF SessionAnswered, Request
  <2>5. Loads(c)' /\ Orderly(calls[c])' /\ Knows(calls[c])'
    BY <1>4, <2>2, <2>3, <2>4 DEF Loads, Orderly, Knows, Idle, None
  <2>6. QED
    BY <1>2, <2>2, <2>3, <2>4, <2>5, ChargeStep
<1>7. ASSUME calls' = [calls EXCEPT ![c] = Idle]
      PROVE  /\ calls'[c] = Idle /\ \A d \in Call \ {c} : calls'[d] = calls[d]
             /\ ~Loads(c)' /\ Orderly(calls[c])'
  BY <1>3, <1>7 DEF Loads, Orderly
<1>8. CASE ListsAnswered(c)
  <2>1. calls[c].stage = "lists" /\ calls' = [calls EXCEPT ![c] = Idle] /\ UNCHANGED <<shown, form>>
    BY <1>8 DEF ListsAnswered, Ended
  <2>2. Loads(c)
    BY <1>2, <2>1
  <2>3. Knows(calls[c])
    BY <1>2, <2>2
  <2>4. Agrees'
    BY <1>2, <1>4, <1>8, <2>1, <2>3 DEF Agrees, Knows, ListsAnswered, NewLists, Request
  <2>5. QED
    BY <1>2, <1>3, <1>7, <2>1, <2>2, <2>4, ChargeStep
<1>9. CASE ListsChanged(c)
  <2>1. ~Loads(c) /\ calls' = [calls EXCEPT ![c] = Idle] /\ UNCHANGED <<shown, form, failed>>
    BY <1>9 DEF ListsChanged, Arrived, Ended, Loads
  <2>4. overtaken' = overtaken
    BY <1>9 DEF ListsChanged
  <2>2. lists'.of = lists.of
    BY <1>9 DEF ListsChanged, Changed, Arrived, Typed, TypeOK, Lists
  <2>3. QED
    BY <1>4, <1>7, <2>1, <2>2, <2>4, SideStep
<1>10. CASE Refused(c)
  <2>1. /\ calls[c].stage = "request" /\ calls[c].pc = "refused" /\ calls' = [calls EXCEPT ![c] = Idle]
        /\ UNCHANGED <<shown, form, failed, lists, overtaken>>
    BY <1>10 DEF Refused, Ended, view
  <2>2. CASE ~Loads(c)
    BY <1>4, <1>7, <2>1, <2>2, SideStep
  <2>3. CASE Loads(c)
    <3>1. Agrees
      BY <1>2, <2>1, <2>3 DEF Knows
    <3>2. Agrees'
      BY <1>4, <2>1, <3>1 DEF Agrees
    <3>3. QED
      BY <1>2, <1>3, <1>7, <2>1, <2>3, <3>2, ChargeStep
  <2>4. QED
    BY <2>2, <2>3
<1>11. ~Saved(c)
  BY <1>2 DEF Saved, Arrived
<1>12. QED
  BY <1>5, <1>6, <1>8, <1>9, <1>10, <1>11 DEF Page

LEMMA CoherentInit ==
    ASSUME Init
    PROVE  Coherent
<1>1. PICK c \in Call :
         calls = [d \in Call |-> IF d = c THEN [Asked("load", None) EXCEPT !.stage = "session"] ELSE Idle]
  BY DEF Init
<1>2. /\ calls[c].op = "load" /\ calls[c].stage = "session" /\ calls[c].pc = "sent"
      /\ calls[c].at = cookie
  BY <1>1 DEF Asked
<1>8. calls[c].here
  BY <1>1 DEF Asked
<1>3. \A d \in Call \ {c} : calls[d] = Idle
  BY <1>1
<1>4. Orderly(calls[c]) /\ Knows(calls[c]) /\ Loads(c)
  BY <1>2, <1>8 DEF Orderly, Knows, Loads, Idle, None
<1>5. \A d \in Call \ {c} : ~Loads(d) /\ Orderly(calls[d])
  BY <1>3 DEF Loads, Orderly
<1>6. form = shown
  BY DEF Init
<1>7. QED
  BY <1>4, <1>5, <1>6 DEF Coherent

(* The page is opened again: its load begins with the cookie of now.       *)
LEMMA ReopenCoheres ==
    ASSUME Typed, Coherent, NEW c \in Call, Reopen(c)
    PROVE  Coherent'
<1>1. /\ calls'[c] = FirstLoad /\ FirstLoad # Idle /\ FirstLoad.op = "load" /\ FirstLoad.here
      /\ FirstLoad.stage = "session" /\ FirstLoad.pc = "sent" /\ FirstLoad.at = cookie
  BY ReopenCalls, FirstLoadIsSensible DEF Typed, TypeOK
<1>2. cookie' = cookie /\ form' = shown'
  BY DEF Reopen, Opened
<1>3. Loads(c)' /\ Orderly(calls[c])' /\ Knows(calls[c])'
  BY <1>1, <1>2 DEF Loads, Orderly, Knows
<1>4. ASSUME NEW d \in Call \ {c} PROVE ~Loads(d)' /\ Orderly(calls[d])'
  <2>1. CASE calls[d] = Idle
    BY <2>1, ReopenCalls DEF Loads, Orderly
  <2>2. CASE calls[d] # Idle
    <3>1. calls'[d] = [calls[d] EXCEPT !.here = FALSE] /\ calls[d] \in Request /\ Orderly(calls[d])
      BY <2>2, ReopenCalls DEF Typed, Sensible, Coherent
    <3>2. ~calls'[d].here /\ calls'[d].op = calls[d].op /\ calls'[d].stage = calls[d].stage
      BY <3>1 DEF Request
    <3>3. QED
      BY <2>2, <3>1, <3>2 DEF Loads, Orderly
  <2>3. QED
    BY <2>1, <2>2
<1>5. QED
  BY <1>2, <1>3, <1>4 DEF Coherent

(* While nobody creates a tenant or saves its name from this page, a page  *)
(* at rest whose load succeeded shows the active tenant, in its header, in *)
(* its form and in its lists, whatever switches, refusals, visits and      *)
(* changes of members and invites came before, unless a switch of an       *)
(* earlier visit was answered since it began to load.                      *)
THEOREM PageShowsActiveTenant ==
    ASSUME Buttons \cap {"create", "save"} = {}
    PROVE  Spec => []SettledIsActive
<1> DEFINE Inv == Typed /\ FlagsTellHandlers /\ Coherent
<1>1. Init => Inv
  BY TypedInit, FlagsInit, CoherentInit
<1>2. Inv /\ [Next]_vars => Inv'
  <2> SUFFICES ASSUME Inv, [Next]_vars PROVE Inv'
    OBVIOUS
  <2>1. Typed'
    BY TypedStep
  <2>2. CASE UNCHANGED vars
    <3>1. FlagsTellHandlers'
      BY <2>2 DEF vars, FlagsTellHandlers, Running
    <3>2. Coherent'
      BY <2>2 DEF vars, view, Coherent, Loads, Knows, Orderly, Agrees
    <3>3. QED
      BY <2>1, <3>1, <3>2
  <2>3. CASE Next
    <3>1. FlagsTellHandlers'
      BY <2>3, EveryStepMoves, FlagsStep
    <3>2. Coherent'
      BY <2>3, HandlersCohere, ServerCoheres, PageCoheres, OldCoheres, ReopenCoheres DEF Next
    <3>3. QED
      BY <2>1, <3>1, <3>2
  <2>4. QED
    BY <2>2, <2>3
<1>3. Inv => SettledIsActive
  <2> SUFFICES ASSUME Coherent, Settled PROVE shown \in {None, cookie} /\ form = shown /\ lists.of = cookie
    BY DEF SettledIsActive
  <2>1. \A c \in Call : ~Loads(c)
    BY DEF Settled, Free, Loads
  <2>2. Agrees /\ ~failed /\ ~overtaken /\ form = shown
    BY <2>1 DEF Coherent, Settled
  <2>3. QED
    BY <2>2 DEF Agrees
<1>4. QED
  BY <1>1, <1>2, <1>3, PTL DEF Spec
=============================================================================
