-------------------------- MODULE MCTenantSettings --------------------------
(***************************************************************************)
(* Small instances of TenantSettings and Accounts for TLC.  They share no  *)
(* state, so that they are explored side by side: the initial state        *)
(* chooses what is in use, the rest stays where it starts.                 *)
(*                                                                         *)
(* The constants of the configuration are those of TenantSettings, with    *)
(* the controls that change the tenant only by switching, and those of     *)
(* Accounts.                                                               *)
(***************************************************************************)
EXTENDS TenantSettings, TLC

CONSTANTS
    Slot,                                       \* of Controlled: the requests in progress
    Email, Lower, Company, Letter, Browser,     \* of Accounts: addresses, tenants, invites
    Shared,                                     \* of Accounts: the default tenant
    Staff, Employer                             \* of Accounts at the start: an owner and the tenant

(* Addresses that are spelled in lower case.                               *)
SameSpelling == [e \in Email |-> e]

(* Requests are interchangeable, and so are browsers.                      *)
Symmetry == Permutations(Call) \cup Permutations(Slot) \cup Permutations(Browser)

VARIABLES
    used,                                               \* what is in use
    session, tenants, roles, inviteRows, inviteIds, tenantShown, nameTyped,
    listsShown, held, loadFailed, late, requests,       \* of TenantSettings, every control
    accounts, membership, founder, unnamed, invites, made, loggedIn, page,
    waiting                                             \* of Accounts

(* One member, who leaves or changes the own role, with lost requests.     *)
Failing == INSTANCE TenantSettings WITH
    User <- {Me}, Buttons <- {"switch", "member"}, Faults <- TRUE

(* Every control that is held while its handler runs, and a tenant to      *)
(* create.                                                                 *)
Controlled == INSTANCE TenantSettingsProofs WITH
    User <- {Me}, Joined <- {Home}, Call <- Slot, Faults <- TRUE,
    Buttons <- {"switch", "create", "save", "invite", "uninvite"},
    cookie <- session, exists <- tenants, role <- roles, invited <- inviteRows, drawn <- inviteIds,
    shown <- tenantShown, form <- nameTyped, lists <- listsShown, flags <- held,
    failed <- loadFailed, overtaken <- late, calls <- requests

(* Every use, with failures.                                               *)
Entrance == INSTANCE AccountsProofs WITH
    Tenant <- Company, Invite <- Letter, Default <- {Shared},
    Uses <- {"signup", "join"}, Faults <- TRUE,
    role <- membership, drawn <- made, cookie <- loggedIn, calls <- waiting

ASSUME EntranceAssumption == Entrance!AccountsAssumption

controlledVars == <<session, tenants, roles, inviteRows, inviteIds, tenantShown, nameTyped,
                    listsShown, held, loadFailed, late, requests>>
entranceVars   == <<accounts, membership, founder, unnamed, invites, made, loggedIn, page, waiting>>
allVars        == <<used, vars, controlledVars, entranceVars>>

ControlledAtStart == Controlled!Init
EntranceAtStart   == Entrance!Init /\ accounts[Staff] = 1 /\ founder[Employer] = Staff

EachInit ==
    \/ used = "settings" /\ Init         /\ ControlledAtStart /\ EntranceAtStart
    \/ used = "failing"  /\ Failing!Init /\ ControlledAtStart /\ EntranceAtStart
    \/ used = "controls" /\ Init         /\ Controlled!Init   /\ EntranceAtStart
    \/ used = "entrance" /\ Init         /\ ControlledAtStart /\ EntranceAtStart

EachNext ==
    \/ used = "settings" /\ Next            /\ UNCHANGED <<used, controlledVars, entranceVars>>
    \/ used = "failing"  /\ Failing!Next    /\ UNCHANGED <<used, controlledVars, entranceVars>>
    \/ used = "controls" /\ Controlled!Next /\ UNCHANGED <<used, vars, entranceVars>>
    \/ used = "entrance" /\ Entrance!Next   /\ UNCHANGED <<used, vars, controlledVars>>

EachSpec == EachInit /\ [][EachNext]_allVars
-----------------------------------------------------------------------------
(* A control is held exactly while its handler of this visit runs, and no  *)
(* handler runs twice at once, whichever of the controls are used.         *)
HeldControlsTold == Controlled!FlagsTellHandlers

(* However sign-ups and acceptances of one address overlap, it has one     *)
(* account (the check of register-invite is not atomic with its insert).   *)
OneAccountPerEmail == Entrance!OneAccountPerEmail

(* Whoever is a member founded the tenant, or was invited to it at that    *)
(* address and for that role, or is an owner of the default tenant who     *)
(* signed up without naming an organization (auth.go:380): however         *)
(* requests overlap or fail halfway, no other way leads into a tenant.     *)
MembersWereLetIn == Entrance!MembersWereLetIn
=============================================================================
