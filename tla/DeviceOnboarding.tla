-------------------------- MODULE DeviceOnboarding --------------------------
(***************************************************************************)
(* How a device gets registered: a user tests an address with credentials, *)
(* the server hands out a token for what it probed, and a second request   *)
(* spends the token on a device.  Two pages do this over the same server   *)
(* (internal/server/device_registration.go, internal/devicereg): the form  *)
(* of legacy/pages/DeviceNew.jsx, with a button for each request, and the  *)
(* dialog of app/components/Devices.tsx, which sends both.                 *)
(***************************************************************************)
EXTENDS Naturals, FiniteSets

CONSTANTS
    Config,       \* what a form can hold: an address with credentials
    Address,      \* the address of each, as the server normalizes it
    Fingerprint,  \* what the server hashes of each: trimmed, and of one case but for the secrets
    Token,        \* test tokens
    Call,         \* bound: requests in progress
    MaxDevices,   \* tenants.max_devices; 0 is no limit
    Faults        \* BOOLEAN: statements and requests may fail

VARIABLES
    devices,      \* rows of the tenant: what was registered, and by which token
    issued,       \* what each token was issued for (None: not yet); kept when the token is gone
    live,         \* tokens with an unexpired row in device_tests
    spent,        \* history: how many devices a token admitted
    form,         \* DeviceNew.jsx: what is typed
    test,         \* DeviceNew.jsx: testState
    saving,       \* DeviceNew.jsx: saveState.status is 'saving'
    dialog,       \* Devices.tsx: the form of the open dialog, or None
    calls         \* requests in progress

server == <<devices, issued, live, spent>>
new    == <<form, test, saving>>
vars   == <<server, new, dialog, calls>>

None    == "none"

ASSUME DeviceOnboardingAssumption ==
    /\ DOMAIN Address = Config /\ DOMAIN Fingerprint = Config /\ Config \cap {None, "blank", "partial"} = {}
    /\ None \notin Token
    /\ MaxDevices \in Nat /\ Faults \in BOOLEAN

Typed   == Config \cup {"blank", "partial"}   \* partial: required by the test, not by its button
Row     == [config: Config, token: Token]
Tests   == [status: {"idle", "testing", "error"}, token: {None}] \cup [status: {"success"}, token: Token]
Untested == [status |-> "idle", token |-> None]
Idle    == [pc |-> "idle"]
Steps   == {"probe", "record", "tested", "count", "exists", "consume", "insert", "created", "failed"}
Request == [pc: Steps, from: {"test", "save", "dialog", "gone"}, config: Config, token: Token \cup {None}]

TypeOK ==
    /\ devices \subseteq Row
    /\ issued \in [Token -> Config \cup {None}] /\ live \subseteq Token
    /\ spent \in [Token -> Nat]
    /\ form \in Typed /\ test \in Tests /\ saving \in BOOLEAN
    /\ dialog \in Config \cup {None, "blank"}
    /\ calls \in [Call -> Request \cup {Idle}]
-----------------------------------------------------------------------------
(* The server.  Each request is cut at its database statements.            *)
Goto(c, pc) == calls' = [calls EXCEPT ![c].pc = pc]
Fail(c, pc) == Faults /\ calls[c].pc = pc /\ Goto(c, "failed") /\ UNCHANGED <<server, new, dialog>>

(* TestSNMP: the device answers these credentials, or it does not.         *)
TestConnection(c) ==
    /\ calls[c].pc = "probe"
    /\ \/ Goto(c, "record")
       \/ Goto(c, "failed")
    /\ UNCHANGED <<server, new, dialog>>

CreateDeviceTest(c) ==
    /\ calls[c].pc = "record"
    /\ \E t \in Token :
          /\ issued[t] = None
          /\ issued' = [issued EXCEPT ![t] = calls[c].config]
          /\ live' = live \cup {t}
          /\ calls' = [calls EXCEPT ![c].pc = "tested", ![c].token = t]
    /\ UNCHANGED <<devices, spent, new, dialog>>

Expire(t) ==
    /\ t \in live
    /\ live' = live \ {t}
    /\ UNCHANGED <<devices, issued, spent, new, dialog, calls>>

(* handleCreateDevice: the plan's limit; a count that fails is no limit.   *)
CheckLimit(c) ==
    /\ calls[c].pc = "count"
    /\ \/ /\ MaxDevices = 0 \/ Cardinality(devices) < MaxDevices \/ Faults
          /\ Goto(c, "exists")
       \/ /\ MaxDevices > 0 /\ Cardinality(devices) >= MaxDevices
          /\ Goto(c, "failed")
    /\ UNCHANGED <<server, new, dialog>>

Taken(config) == \E d \in devices : Address[d.config] = Address[config]

CheckExists(c) ==
    /\ calls[c].pc = "exists"
    /\ Goto(c, IF Taken(calls[c].config) THEN "failed" ELSE "consume")
    /\ UNCHANGED <<server, new, dialog>>

(* What the token's row holds of the configuration that was probed: the    *)
(* address and the hash, which forgets blanks around the community.        *)
SameTest(probed, config) ==
    Address[probed] = Address[config] /\ Fingerprint[probed] = Fingerprint[config]

MatchesAnything(t, config) == t \in live \* mutant
Matches(t, config) == t \in live /\ SameTest(issued[t], config)
StillLive(t) == live \* mutant
Deleted(t) == live \ {t}

(* ConsumeDeviceTest finds and deletes the row in one statement.           *)
ConsumeDeviceTest(c) ==
    /\ calls[c].pc = "consume"
    /\ LET t == calls[c].token IN
       IF t # None /\ Matches(t, calls[c].config)
       THEN live' = Deleted(t) /\ Goto(c, "insert")
       ELSE UNCHANGED live /\ Goto(c, "failed")
    /\ UNCHANGED <<devices, issued, spent, new, dialog>>

IndexIgnored(config) == FALSE \* mutant
ViolatesIndex(config) == Taken(config)

(* CreateDevice: the unique index on tenant and address has the last word. *)
CreateDevice(c) ==
    /\ calls[c].pc = "insert"
    /\ IF ViolatesIndex(calls[c].config)
       THEN Goto(c, "failed") /\ UNCHANGED <<devices, spent>>
       ELSE /\ devices' = devices \cup {[config |-> calls[c].config, token |-> calls[c].token]}
            /\ spent' = [spent EXCEPT ![calls[c].token] = @ + 1]
            /\ Goto(c, "created")
    /\ UNCHANGED <<issued, live, new, dialog>>

DeleteDevice(d) ==
    /\ d \in devices
    /\ devices' = devices \ {d}
    /\ UNCHANGED <<issued, live, spent, new, dialog, calls>>

Server(c) ==
    \/ TestConnection(c) \/ CreateDeviceTest(c) \/ CheckLimit(c) \/ CheckExists(c)
    \/ ConsumeDeviceTest(c) \/ CreateDevice(c)
    \/ \E pc \in {"record", "exists", "consume", "insert"} : Fail(c, pc)
-----------------------------------------------------------------------------
(* DeviceNew.jsx.                                                          *)
Free(c)  == calls[c] = Idle
Send(c, pc, from, config, token) ==
    calls' = [calls EXCEPT ![c] = [pc |-> pc, from |-> from, config |-> config, token |-> token]]

(* Any edit changes testKey, whose effect forgets the test.                *)
Edit(f) ==
    /\ f \in Typed \ {form}
    /\ form' = f
    /\ test' = Untested
    /\ UNCHANGED <<server, saving, dialog, calls>>

canTest == form # "blank" /\ test.status # "testing"
canSave == test.status = "success" /\ ~saving

handleTest(c) ==
    /\ canTest
    /\ IF form = "partial"                         \* validateBeforeTest
       THEN test' = [status |-> "error", token |-> None] /\ UNCHANGED calls
       ELSE /\ Free(c)
            /\ test' = [status |-> "testing", token |-> None]
            /\ Send(c, "probe", "test", form, None)
    /\ UNCHANGED <<server, form, saving, dialog>>

(* The answer of a test, for whatever the form holds by then.              *)
TestAnswered(c) ==
    /\ calls[c].from = "test"
    /\ \/ calls[c].pc = "tested" /\ test' = [status |-> "success", token |-> calls[c].token]
       \/ calls[c].pc = "failed" /\ test' = [status |-> "error", token |-> None]
    /\ calls' = [calls EXCEPT ![c] = Idle]
    /\ UNCHANGED <<server, form, saving, dialog>>

handleSave(c) ==
    /\ canSave /\ form \in Config /\ Free(c)
    /\ saving' = TRUE
    /\ Send(c, "count", "save", form, test.token)
    /\ UNCHANGED <<server, form, test, dialog>>

(* navigate: the page is gone, and its handlers set no state any more.     *)
Leave(answered) ==
    /\ form' = "blank" /\ test' = Untested /\ saving' = FALSE
    /\ calls' = [c \in Call |-> IF c \in answered THEN Idle
                                ELSE IF calls[c] # Idle /\ calls[c].from \in {"test", "save"}
                                THEN [calls[c] EXCEPT !.from = "gone"] ELSE calls[c]]
    /\ UNCHANGED <<server, dialog>>
Cancel == form # "blank" /\ Leave({})

SaveAnswered(c) ==
    /\ calls[c].from = "save"
    /\ \/ calls[c].pc = "created" /\ Leave({c})
       \/ /\ calls[c].pc = "failed"
          /\ saving' = FALSE
          /\ calls' = [calls EXCEPT ![c] = Idle]
          /\ UNCHANGED <<server, form, test, dialog>>

(* fetchWithTimeout gives a request up after a while: an error for the     *)
(* page, while the server may go on with it, or stop at the next statement *)
(* (Fail).  The token stays with the form, for another Save.               *)
GiveUp(c) ==
    /\ Faults
    /\ \/ calls[c].from = "test" /\ test' = [status |-> "error", token |-> None] /\ UNCHANGED saving
       \/ calls[c].from = "save" /\ saving' = FALSE /\ UNCHANGED test
    /\ calls' = [calls EXCEPT ![c].from = "gone"]
    /\ UNCHANGED <<server, form, dialog>>
-----------------------------------------------------------------------------
(* Devices.tsx: the dialog calls deviceAPI.create, which sends both        *)
(* requests; the form can be edited and submitted again meanwhile.         *)
OpenDialog == dialog = None /\ dialog' = "blank" /\ UNCHANGED <<server, new, calls>>
EditDialog(f) == dialog # None /\ f # dialog /\ dialog' = f /\ UNCHANGED <<server, new, calls>>
CloseDialog == dialog # None /\ dialog' = None /\ UNCHANGED <<server, new, calls>>

handleSubmit(c) ==
    /\ dialog \in Config /\ Free(c)
    /\ Send(c, "probe", "dialog", dialog, None)
    /\ UNCHANGED <<server, new, dialog>>

(* The token goes with the address and the credentials it was issued for.  *)
CreateNext(c) ==
    /\ calls[c].from = "dialog" /\ calls[c].pc = "tested"
    /\ Goto(c, "count")
    /\ UNCHANGED <<server, new, dialog>>

DialogAnswered(c) ==
    /\ calls[c].from = "dialog" /\ calls[c].pc \in {"created", "failed"}
    /\ dialog' = IF calls[c].pc = "created" THEN None ELSE dialog
    /\ calls' = [calls EXCEPT ![c] = Idle]
    /\ UNCHANGED <<server, new>>

(* An answer nobody waits for.                                             *)
Dropped(c) ==
    /\ calls[c].from = "gone" /\ calls[c].pc \in {"tested", "created", "failed"}
    /\ calls' = [calls EXCEPT ![c] = Idle]
    /\ UNCHANGED <<server, new, dialog>>
-----------------------------------------------------------------------------
Init ==
    /\ devices = {} /\ live = {}
    /\ issued = [t \in Token |-> None] /\ spent = [t \in Token |-> 0]
    /\ form = "blank" /\ test = Untested /\ saving = FALSE
    /\ dialog = None
    /\ calls = [c \in Call |-> Idle]

Answer(c) ==
    /\ calls[c] # Idle
    /\ \/ TestAnswered(c) \/ SaveAnswered(c) \/ GiveUp(c)
       \/ CreateNext(c) \/ DialogAnswered(c) \/ Dropped(c)

Next ==
    \/ \E c \in Call : Server(c) \/ Answer(c) \/ handleTest(c) \/ handleSave(c) \/ handleSubmit(c)
    \/ \E t \in Token : Expire(t)
    \/ \E d \in devices : DeleteDevice(d)
    \/ \E f \in Typed : Edit(f)
    \/ \E f \in Config : EditDialog(f)
    \/ Cancel \/ OpenDialog \/ CloseDialog

Spec == Init /\ [][Next]_vars
-----------------------------------------------------------------------------
(* A device is registered by the token of a probe that succeeded under its *)
(* address and under credentials of its fingerprint, whatever was edited,  *)
(* sent twice or answered late (CreateDevice).  The credentials stored may *)
(* differ from those in what the fingerprint forgets (tokens.go:23).       *)
RegisteredWasTested == \A d \in devices :
    issued[d.token] # None /\ SameTest(issued[d.token], d.config)

(* A token admits one device, even when two requests hold it at once, a    *)
(* request is repeated or the device is deleted again (ConsumeDeviceTest). *)
TokenAdmitsOne == \A t \in Token : spent[t] <= 1

(* Two requests that both found an address free do not both take it.       *)
AddressesDiffer == \A d, e \in devices : Address[d.config] = Address[e.config] => d = e
=============================================================================
