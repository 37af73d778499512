----------------------- MODULE DeviceOnboardingProofs -----------------------
(***************************************************************************)
(* What a test token is good for, for every number of configurations,      *)
(* tokens and requests in progress; and what the report shown on the page  *)
(* of reports is measured by, for every number of targets and handlers.    *)
(***************************************************************************)
EXTENDS MCDeviceOnboarding, TLAPS

(* A request about to insert holds a token that no other one holds, that   *)
(* is no longer live, has admitted no device and was issued for a probe    *)
(* that passes for what the request asks for: the delete of                *)
(* ConsumeDeviceTest gave it away.                                         *)
Admits(probed, config) == probed # None /\ SameTest(probed, config)
Holds(c) == calls[c].pc = "insert"
HoldersOwnTheirToken ==
    /\ \A c \in Call : Holds(c) =>
          /\ calls[c].token \in Token \ live
          /\ Admits(issued[calls[c].token], calls[c].config) /\ spent[calls[c].token] = 0
    /\ \A c, d \in Call : Holds(c) /\ Holds(d) /\ calls[c].token = calls[d].token => c = d
TestsNameToken == \A c \in Call : calls[c].pc = "tested" => calls[c].token \in Token
TokensFresh ==
    /\ \A t \in live : issued[t] # None /\ spent[t] = 0
    /\ \A t \in Token : issued[t] = None => spent[t] = 0
IInv == /\ TypeOK /\ HoldersOwnTheirToken /\ TestsNameToken /\ TokensFresh
        /\ RegisteredWasTested /\ TokenAdmitsOne
-----------------------------------------------------------------------------
(* Types.                                                                  *)
LEMMA CallTyped ==
    ASSUME TypeOK, NEW c \in Call, calls[c].pc # "idle"
    PROVE  calls[c] \in Request
BY DEF TypeOK, Idle

LEMMA GotoTyped ==
    ASSUME TypeOK, NEW c \in Call, NEW pc \in Steps, calls[c].pc # "idle", Goto(c, pc)
    PROVE  calls' \in [Call -> Request \cup {Idle}]
<1>1. [calls[c] EXCEPT !.pc = pc] \in Request
  BY CallTyped DEF Request
<1>2. QED
  BY <1>1 DEF TypeOK, Goto

LEMMA IdleTyped ==
    ASSUME TypeOK, NEW c \in Call, calls' = [calls EXCEPT ![c] = Idle]
    PROVE  calls' \in [Call -> Request \cup {Idle}]
BY DEF TypeOK

LEMMA SendTyped ==
    ASSUME TypeOK, NEW c \in Call, NEW pc \in Steps, NEW from \in {"test", "save", "dialog", "gone"},
           NEW config \in Config, NEW token \in Token \cup {None}, Send(c, pc, from, config, token)
    PROVE  calls' \in [Call -> Request \cup {Idle}]
BY DEF TypeOK, Send, Request

LEMMA LeaveTyped ==
    ASSUME TypeOK, NEW answered, Leave(answered)
    PROVE  TypeOK'
<1>1. ASSUME NEW c \in Call, calls[c] \in Request
      PROVE  [calls[c] EXCEPT !.from = "gone"] \in Request
  BY <1>1 DEF Request
<1>2. calls' \in [Call -> Request \cup {Idle}]
  BY <1>1 DEF TypeOK, Leave
<1>3. QED
  BY <1>2 DEF TypeOK, Leave, server, Typed, Tests, Untested

(* The server's side of a request.  That an inserting request has a token  *)
(* at all is part of what its holding it means.                            *)
LEMMA ServerTyped ==
    ASSUME TypeOK, HoldersOwnTheirToken, NEW c \in Call, Server(c)
    PROVE  TypeOK'
<1>1. CASE TestConnection(c)
  BY <1>1, GotoTyped DEF TestConnection, TypeOK, server, new, Steps
<1>2. CASE CreateDeviceTest(c)
  <2>1. PICK t \in Token :
           /\ issued' = [issued EXCEPT ![t] = calls[c].config]
           /\ live' = live \cup {t}
           /\ calls' = [calls EXCEPT ![c].pc = "tested", ![c].token = t]
    BY <1>2 DEF CreateDeviceTest
  <2>2. calls[c] \in Request
    BY <1>2, CallTyped DEF CreateDeviceTest
  <2>3. [calls[c] EXCEPT !.pc = "tested", !.token = t] \in Request
    BY <2>2 DEF Request, Steps
  <2>4. calls' \in [Call -> Request \cup {Idle}]
    BY <2>1, <2>3 DEF TypeOK
  <2>5. issued' \in [Token -> Config \cup {None}] /\ live' \subseteq Token
    BY <2>1, <2>2 DEF TypeOK, Request
  <2>6. QED
    BY <1>2, <2>4, <2>5 DEF CreateDeviceTest, TypeOK, new
<1>3. CASE CheckLimit(c)
  BY <1>3, GotoTyped DEF CheckLimit, TypeOK, server, new, Steps
<1>4. CASE CheckExists(c)
  BY <1>4, GotoTyped DEF CheckExists, TypeOK, server, new, Steps
<1>5. CASE ConsumeDeviceTest(c)
  <2>1. calls' \in [Call -> Request \cup {Idle}]
    BY <1>5, GotoTyped DEF ConsumeDeviceTest, Steps
  <2>2. live' \subseteq Token
    BY <1>5 DEF ConsumeDeviceTest, Deleted, TypeOK
  <2>3. QED
    BY <1>5, <2>1, <2>2 DEF ConsumeDeviceTest, TypeOK, new
<1>6. CASE CreateDevice(c)
  <2>1. calls' \in [Call -> Request \cup {Idle}]
    BY <1>6, GotoTyped DEF CreateDevice, Steps
  <2>2. calls[c] \in Request /\ calls[c].token \in Token
    BY <1>6, CallTyped DEF CreateDevice, HoldersOwnTheirToken, Holds
  <2>3. [config |-> calls[c].config, token |-> calls[c].token] \in Row
    BY <2>2 DEF Request, Row
  <2>4. devices' \subseteq Row /\ spent' \in [Token -> Nat]
    BY <1>6, <2>2, <2>3 DEF CreateDevice, TypeOK
  <2>5. QED
    BY <1>6, <2>1, <2>4 DEF CreateDevice, TypeOK, new
<1>7. ASSUME NEW pc \in {"record", "exists", "consume", "insert"}, Fail(c, pc) PROVE TypeOK'
  BY <1>7, GotoTyped DEF Fail, TypeOK, server, new, Steps
<1>8. QED
  BY <1>1, <1>2, <1>3, <1>4, <1>5, <1>6, <1>7 DEF Server

(* The two pages.                                                          *)
LEMMA PagesTyped ==
    ASSUME TypeOK, TestsNameToken,
           \/ \E c \in Call : Answer(c) \/ handleTest(c) \/ handleSave(c) \/ handleSubmit(c)
           \/ \E f \in Typed : Edit(f)
           \/ \E f \in Config : EditDialog(f)
           \/ Cancel \/ OpenDialog \/ CloseDialog
    PROVE  TypeOK'
<1> USE DeviceOnboardingAssumption
<1>1. ASSUME NEW c \in Call, Answer(c) PROVE TypeOK'
  <2>1. CASE TestAnswered(c)
    <3>1. calls' \in [Call -> Request \cup {Idle}]
      BY <2>1, IdleTyped DEF TestAnswered
    <3>2. test' \in Tests
      BY <2>1 DEF TestsNameToken, TestAnswered, Tests
    <3>3. QED
      BY <2>1, <3>1, <3>2 DEF TestAnswered, TypeOK, server
  <2>2. CASE SaveAnswered(c)
    <3>1. CASE Leave({c})
      BY <3>1, LeaveTyped
    <3>2. CASE ~Leave({c})
      BY <2>2, <3>2, IdleTyped DEF SaveAnswered, TypeOK, server
    <3>3. QED
      BY <3>1, <3>2
  <2>3. CASE CreateNext(c)
    BY <2>3, GotoTyped DEF CreateNext, TypeOK, server, new, Steps
  <2>4. CASE DialogAnswered(c)
    BY <2>4, IdleTyped DEF DialogAnswered, TypeOK, server, new
  <2>5. CASE Dropped(c)
    BY <2>5, IdleTyped DEF Dropped, TypeOK, server, new
  <2>6. CASE GiveUp(c)
    <3>1. [calls[c] EXCEPT !.from = "gone"] \in Request
      BY <1>1 DEF Answer, TypeOK, Request
    <3>2. calls' \in [Call -> Request \cup {Idle}]
      BY <2>6, <3>1 DEF GiveUp, TypeOK
    <3>3. [status |-> "error", token |-> None] \in Tests
      BY DEF Tests
    <3>4. test' \in Tests
      BY <2>6, <3>3 DEF GiveUp, TypeOK
    <3>5. saving' \in BOOLEAN
      BY <2>6 DEF GiveUp, TypeOK
    <3>6. QED
      BY <2>6, <3>2, <3>4, <3>5 DEF GiveUp, TypeOK, server
  <2>7. QED
    BY <1>1, <2>1, <2>2, <2>3, <2>4, <2>5, <2>6 DEF Answer
<1>2. ASSUME NEW c \in Call, handleTest(c) PROVE TypeOK'
  <2>1. test' \in Tests
    BY <1>2 DEF handleTest, Tests
  <2>2. form # "partial" => form \in Config
    BY <1>2 DEF handleTest, canTest, TypeOK, Typed
  <2>3. calls' \in [Call -> Request \cup {Idle}]
    BY <1>2, <2>2, SendTyped DEF handleTest, Steps, TypeOK
  <2>4. QED
    BY <1>2, <2>1, <2>3 DEF handleTest, TypeOK, server
<1>3. ASSUME NEW c \in Call, handleSave(c) PROVE TypeOK'
  <2>1. test.token \in Token \cup {None}
    BY DEF TypeOK, Tests
  <2>2. calls' \in [Call -> Request \cup {Idle}]
    BY <1>3, <2>1, SendTyped DEF handleSave, Steps
  <2>3. QED
    BY <1>3, <2>2 DEF handleSave, TypeOK, server
<1>4. ASSUME NEW c \in Call, handleSubmit(c) PROVE TypeOK'
  BY <1>4, SendTyped DEF handleSubmit, Steps, TypeOK, server, new
<1>5. ASSUME NEW f \in Typed, Edit(f) PROVE TypeOK'
  BY <1>5 DEF Edit, TypeOK, Tests, Untested, server
<1>6. ASSUME NEW f \in Config, EditDialog(f) PROVE TypeOK'
  BY <1>6 DEF EditDialog, TypeOK, server, new
<1>7. CASE Cancel
  BY <1>7, LeaveTyped DEF Cancel
<1>8. CASE OpenDialog \/ CloseDialog
  BY <1>8 DEF OpenDialog, CloseDialog, TypeOK, server, new
<1>9. QED
  BY <1>1, <1>2, <1>3, <1>4, <1>5, <1>6, <1>7, <1>8

LEMMA TypesStep ==
    ASSUME IInv, [Next]_vars
    PROVE  TypeOK'
<1>1. ASSUME NEW c \in Call, Server(c) PROVE TypeOK'
  BY <1>1, ServerTyped DEF IInv
<1>2. ASSUME NEW t \in Token, Expire(t) PROVE TypeOK'
  BY <1>2 DEF IInv, TypeOK, Expire, new
<1>3. ASSUME NEW d \in devices, DeleteDevice(d) PROVE TypeOK'
  BY <1>3 DEF IInv, TypeOK, DeleteDevice, new
<1>4. CASE UNCHANGED vars
  BY <1>4 DEF IInv, TypeOK, vars, server, new
<1>5. QED
  BY <1>1, <1>2, <1>3, <1>4, PagesTyped DEF Next, IInv
-----------------------------------------------------------------------------
(* Steps after which no request holds or brings a token that it did not    *)
(* before.                                                                 *)
Quieter == \A c \in Call : calls'[c].pc \in {"insert", "tested"} =>
    /\ calls'[c].pc = calls[c].pc
    /\ calls'[c].token = calls[c].token /\ calls'[c].config = calls[c].config

LEMMA QuietKeeps ==
    ASSUME IInv, TypeOK', Quieter, UNCHANGED <<issued, spent>>,
           live' \subseteq live, devices' \subseteq devices
    PROVE  IInv'
<1>1. HoldersOwnTheirToken'
  BY DEF IInv, HoldersOwnTheirToken, Holds, Quieter
<1>2. TestsNameToken'
  BY DEF IInv, TestsNameToken, Quieter
<1>3. TokensFresh'
  BY DEF IInv, TokensFresh
<1>4. RegisteredWasTested' /\ TokenAdmitsOne'
  BY DEF IInv, RegisteredWasTested, TokenAdmitsOne
<1>5. QED
  BY <1>1, <1>2, <1>3, <1>4 DEF IInv

LEMMA GotoQuiet ==
    ASSUME TypeOK, NEW c \in Call, NEW pc, pc \notin {"insert", "tested"}, calls[c].pc # "idle",
           Goto(c, pc)
    PROVE  Quieter
<1>1. calls'[c].pc = pc
  BY CallTyped DEF TypeOK, Goto, Request
<1>2. \A d \in Call \ {c} : calls'[d] = calls[d]
  BY DEF TypeOK, Goto
<1>3. QED
  BY <1>1, <1>2 DEF Quieter

LEMMA IdleQuiet ==
    ASSUME TypeOK, NEW c \in Call, calls' = [calls EXCEPT ![c] = Idle]
    PROVE  Quieter
BY DEF TypeOK, Quieter, Idle

LEMMA SendQuiet ==
    ASSUME TypeOK, NEW c \in Call, NEW pc, pc \notin {"insert", "tested"},
           NEW from, NEW config, NEW token, Send(c, pc, from, config, token)
    PROVE  Quieter
BY DEF TypeOK, Quieter, Send

LEMMA LeaveQuiet ==
    ASSUME TypeOK, NEW answered, Leave(answered)
    PROVE  Quieter
<1> SUFFICES ASSUME NEW c \in Call, calls'[c].pc \in {"insert", "tested"}
             PROVE  /\ calls'[c].pc = calls[c].pc
                    /\ calls'[c].token = calls[c].token /\ calls'[c].config = calls[c].config
  BY DEF Quieter
<1>1. calls'[c] \in {Idle, calls[c]} \/ (calls[c] # Idle /\ calls'[c] = [calls[c] EXCEPT !.from = "gone"])
  BY DEF Leave
<1>2. calls'[c] # Idle
  BY DEF Idle
<1>3. CASE calls[c] # Idle /\ calls'[c] = [calls[c] EXCEPT !.from = "gone"]
  BY <1>3 DEF TypeOK, Request
<1>4. QED
  BY <1>1, <1>2, <1>3

LEMMA PagesQuiet ==
    ASSUME TypeOK,
           \/ \E c \in Call : Answer(c) \/ handleTest(c) \/ handleSave(c) \/ handleSubmit(c)
           \/ \E f \in Typed : Edit(f)
           \/ \E f \in Config : EditDialog(f)
           \/ Cancel \/ OpenDialog \/ CloseDialog
    PROVE  Quieter /\ UNCHANGED server
<1>1. ASSUME NEW c \in Call, Answer(c) PROVE Quieter /\ UNCHANGED server
  <2>1. CASE TestAnswered(c) \/ DialogAnswered(c) \/ Dropped(c)
    BY <2>1, IdleQuiet DEF TestAnswered, DialogAnswered, Dropped
  <2>2. CASE SaveAnswered(c)
    BY <2>2, IdleQuiet, LeaveQuiet DEF SaveAnswered, Leave
  <2>3. CASE CreateNext(c)
    BY <2>3, GotoQuiet DEF CreateNext
  <2>4. CASE GiveUp(c)
    <3>1. calls[c] \in Request
      BY <1>1 DEF Answer, TypeOK
    <3>2. /\ \A d \in Call \ {c} : calls'[d] = calls[d]
          /\ calls'[c] = [calls[c] EXCEPT !.from = "gone"]
      BY <2>4 DEF GiveUp, TypeOK
    <3>3. Quieter
      BY <3>1, <3>2 DEF Quieter, Request
    <3>4. QED
      BY <2>4, <3>3 DEF GiveUp
  <2>5. QED
    BY <1>1, <2>1, <2>2, <2>3, <2>4 DEF Answer
<1>2. ASSUME UNCHANGED calls PROVE Quieter
  BY <1>2 DEF Quieter
<1>3. ASSUME NEW c \in Call, handleTest(c) \/ handleSave(c) \/ handleSubmit(c)
      PROVE  Quieter /\ UNCHANGED server
  BY <1>2, <1>3, SendQuiet DEF handleTest, handleSave, handleSubmit
<1>4. ASSUME NEW f, Edit(f) \/ EditDialog(f) PROVE Quieter /\ UNCHANGED server
  BY <1>2, <1>4 DEF Edit, EditDialog
<1>5. CASE OpenDialog \/ CloseDialog
  BY <1>2, <1>5 DEF OpenDialog, CloseDialog
<1>6. CASE Cancel
  <2>1. Leave({})
    BY <1>6 DEF Cancel
  <2>2. UNCHANGED server
    BY <2>1 DEF Leave
  <2>3. QED
    BY <2>1, <2>2, LeaveQuiet
<1>7. QED
  BY <1>1, <1>3, <1>4, <1>5, <1>6
-----------------------------------------------------------------------------
(* The three steps in which a token changes hands.                         *)
LEMMA TokenIssued ==
    ASSUME IInv, TypeOK', NEW c \in Call, CreateDeviceTest(c)
    PROVE  IInv'
<1> USE DeviceOnboardingAssumption
<1>1. PICK t \in Token :
         /\ issued[t] = None
         /\ issued' = [issued EXCEPT ![t] = calls[c].config]
         /\ live' = live \cup {t}
         /\ calls' = [calls EXCEPT ![c].pc = "tested", ![c].token = t]
  BY DEF CreateDeviceTest
<1>2. calls[c] \in Request /\ calls[c].config \in Config /\ calls[c].config # None
  BY CallTyped DEF CreateDeviceTest, IInv, Request
<1>3. calls'[c].pc = "tested" /\ calls'[c].token = t /\ \A d \in Call \ {c} : calls'[d] = calls[d]
  BY <1>1, <1>2 DEF IInv, TypeOK, Request
<1>4. issued'[t] = calls[c].config /\ \A u \in Token \ {t} : issued'[u] = issued[u]
  BY <1>1 DEF IInv, TypeOK
<1>5. spent' = spent /\ devices' = devices /\ spent[t] = 0
  BY <1>1 DEF CreateDeviceTest, IInv, TokensFresh
<1>6. ASSUME NEW d \in Call, calls'[d].pc = "insert"
      PROVE  Holds(d) /\ calls'[d] = calls[d] /\ calls[d].token # t
  <2>1. d # c
    BY <1>3, <1>6
  <2>2. Holds(d) /\ calls'[d] = calls[d]
    BY <1>3, <1>6, <2>1 DEF Holds
  <2>3. calls[d] \in Request /\ calls[d].config # None
    BY <2>2, CallTyped DEF Holds, IInv, Request
  <2>4. Admits(issued[calls[d].token], calls[d].config)
    BY <2>2 DEF IInv, HoldersOwnTheirToken
  <2>5. QED
    BY <1>1, <2>2, <2>3, <2>4 DEF Admits
<1>7. HoldersOwnTheirToken'
  <2>1. ASSUME NEW d \in Call, Holds(d)'
        PROVE  /\ calls'[d].token \in Token \ live'
               /\ Admits(issued'[calls'[d].token], calls'[d].config) /\ spent'[calls'[d].token] = 0
    <3>1. Holds(d) /\ calls'[d] = calls[d] /\ calls[d].token # t
      BY <1>6, <2>1 DEF Holds
    <3>2. /\ calls[d].token \in Token \ live
          /\ Admits(issued[calls[d].token], calls[d].config) /\ spent[calls[d].token] = 0
      BY <3>1 DEF IInv, HoldersOwnTheirToken
    <3> DEFINE u == calls[d].token
    <3>3. calls'[d].token = u /\ calls'[d].config = calls[d].config
      BY <3>1
    <3>4. u \in Token \ {t} /\ u \notin live' /\ issued'[u] = issued[u]
      BY <1>1, <1>4, <3>1, <3>2
    <3> HIDE DEF u
    <3>5. QED
      BY <1>5, <3>2, <3>3, <3>4 DEF u
  <2>2. ASSUME NEW d \in Call, NEW e \in Call, Holds(d)', Holds(e)', calls'[d].token = calls'[e].token
        PROVE  d = e
    BY <1>6, <2>2 DEF Holds, IInv, HoldersOwnTheirToken
  <2>3. QED
    BY <2>1, <2>2 DEF HoldersOwnTheirToken
<1>8. TestsNameToken'
  BY <1>3 DEF TestsNameToken, IInv
<1>9. TokensFresh'
  BY <1>1, <1>2, <1>4, <1>5 DEF TokensFresh, IInv, TypeOK
<1>10. RegisteredWasTested'
  <2>1. ASSUME NEW d \in devices PROVE d.token \in Token /\ d.token # t
    <3>1. d.token \in Token /\ d.config \in Config /\ Admits(issued[d.token], d.config)
      BY DEF IInv, TypeOK, Row, RegisteredWasTested, Admits
    <3>2. QED
      BY <1>1, <3>1 DEF Admits
  <2>2. QED
    BY <1>4, <1>5, <2>1 DEF RegisteredWasTested, IInv
<1>11. TokenAdmitsOne'
  BY <1>5 DEF TokenAdmitsOne, IInv
<1>12. QED
  BY <1>7, <1>8, <1>9, <1>10, <1>11 DEF IInv

(* The token found is deleted in the same statement: whoever goes on to    *)
(* insert is the only one.                                                 *)
LEMMA TokenConsumed ==
    ASSUME IInv, TypeOK', NEW c \in Call, ConsumeDeviceTest(c)
    PROVE  IInv'
<1>1. CASE UNCHANGED live /\ Goto(c, "failed")
  BY <1>1, QuietKeeps, GotoQuiet DEF ConsumeDeviceTest, IInv
<1> DEFINE t == calls[c].token
<1>2. CASE t # None /\ Matches(t, calls[c].config) /\ live' = Deleted(t) /\ Goto(c, "insert")
  <2>1. calls[c] \in Request /\ t \in live /\ Admits(issued[t], calls[c].config) /\ live' = live \ {t}
    BY <1>2, CallTyped DEF Matches, Admits, Deleted, ConsumeDeviceTest, IInv, TokensFresh
  <2>2. t \in Token /\ spent[t] = 0
    BY <2>1 DEF IInv, TypeOK, TokensFresh
  <2>3. /\ calls'[c].pc = "insert" /\ calls'[c].token = t /\ calls'[c].config = calls[c].config
        /\ \A d \in Call \ {c} : calls'[d] = calls[d]
    BY <1>2, <2>1 DEF Goto, IInv, TypeOK, Request
  <2>4. issued' = issued /\ spent' = spent /\ devices' = devices
    BY DEF ConsumeDeviceTest
  <2>5. \A d \in Call : Holds(d) => calls[d].token # t
    BY <2>1 DEF IInv, HoldersOwnTheirToken
  <2> HIDE DEF t
  <2>6. HoldersOwnTheirToken'
    BY <2>1, <2>2, <2>3, <2>4, <2>5 DEF HoldersOwnTheirToken, Holds, IInv
  <2>7. TestsNameToken'
    BY <2>3 DEF TestsNameToken, IInv
  <2>8. TokensFresh'
    BY <2>1, <2>4 DEF TokensFresh, IInv
  <2>9. RegisteredWasTested' /\ TokenAdmitsOne'
    BY <2>4 DEF RegisteredWasTested, TokenAdmitsOne, IInv
  <2>10. QED
    BY <2>6, <2>7, <2>8, <2>9 DEF IInv
<1>3. QED
  BY <1>1, <1>2 DEF ConsumeDeviceTest

LEMMA TokenSpent ==
    ASSUME IInv, TypeOK', NEW c \in Call, CreateDevice(c)
    PROVE  IInv'
<1>1. CASE Goto(c, "failed") /\ UNCHANGED <<devices, spent>>
  BY <1>1, QuietKeeps, GotoQuiet DEF CreateDevice, IInv
<1> DEFINE t == calls[c].token
<1>2. CASE /\ devices' = devices \cup {[config |-> calls[c].config, token |-> t]}
           /\ spent' = [spent EXCEPT ![t] = @ + 1]
           /\ Goto(c, "created")
  <2>1. calls[c] \in Request
    BY CallTyped DEF CreateDevice, IInv
  <2>2. /\ Holds(c) /\ t \in Token \ live /\ Admits(issued[t], calls[c].config) /\ spent[t] = 0
        /\ \A d \in Call \ {c} : Holds(d) => calls[d].token # t
    BY DEF CreateDevice, Holds, IInv, HoldersOwnTheirToken
  <2>3. calls'[c].pc = "created" /\ \A d \in Call \ {c} : calls'[d] = calls[d]
    BY <1>2, <2>1 DEF Goto, IInv, TypeOK, Request
  <2>4. issued' = issued /\ live' = live
    BY DEF CreateDevice
  <2>5. spent'[t] = 1 /\ \A u \in Token \ {t} : spent'[u] = spent[u]
    BY <1>2, <2>2 DEF IInv, TypeOK
  <2>6. issued[t] # None
    BY <2>2 DEF Admits
  <2>7. devices' = devices \cup {[config |-> calls[c].config, token |-> t]}
    BY <1>2
  <2> HIDE DEF t
  <2>8. HoldersOwnTheirToken'
    BY <2>2, <2>3, <2>4, <2>5 DEF HoldersOwnTheirToken, Holds, IInv
  <2>9. TestsNameToken'
    BY <2>3 DEF TestsNameToken, IInv
  <2>10. TokensFresh'
    BY <2>2, <2>4, <2>5, <2>6 DEF TokensFresh, IInv, TypeOK
  <2>11. RegisteredWasTested'
    BY <2>2, <2>4, <2>7 DEF RegisteredWasTested, Admits, IInv
  <2>12. TokenAdmitsOne'
    BY <2>5 DEF TokenAdmitsOne, IInv
  <2>13. QED
    BY <2>8, <2>9, <2>10, <2>11, <2>12 DEF IInv
<1>3. QED
  BY <1>1, <1>2 DEF CreateDevice
-----------------------------------------------------------------------------
LEMMA Inductive == Spec => []IInv
<1>1. Init => IInv
  <2> SUFFICES ASSUME Init PROVE IInv
    OBVIOUS
  <2>1. test \in Tests /\ form \in Typed
    BY DEF Init, Tests, Untested, Typed
  <2>2. \A c \in Call : calls[c].pc = "idle"
    BY DEF Init, Idle
  <2>3. TypeOK
    BY <2>1 DEF Init, TypeOK
  <2>4. HoldersOwnTheirToken /\ TestsNameToken
    BY <2>2 DEF HoldersOwnTheirToken, Holds, TestsNameToken
  <2>5. TokensFresh /\ RegisteredWasTested /\ TokenAdmitsOne
    BY DEF Init, TokensFresh, RegisteredWasTested, TokenAdmitsOne
  <2>6. QED
    BY <2>3, <2>4, <2>5 DEF IInv
<1>2. IInv /\ [Next]_vars => IInv'
  <2> SUFFICES ASSUME IInv, [Next]_vars PROVE IInv'
    OBVIOUS
  <2>1. TypeOK' /\ TypeOK
    BY TypesStep DEF IInv
  <2>2. ASSUME NEW c \in Call, Server(c) PROVE IInv'
    <3>1. CASE TestConnection(c) \/ CheckLimit(c) \/ CheckExists(c)
      BY <2>1, <3>1, QuietKeeps, GotoQuiet DEF TestConnection, CheckLimit, CheckExists, server
    <3>2. ASSUME NEW pc \in {"record", "exists", "consume", "insert"}, Fail(c, pc) PROVE IInv'
      BY <2>1, <3>2, QuietKeeps, GotoQuiet DEF Fail, server
    <3>3. QED
      BY <2>1, <2>2, <3>1, <3>2, TokenIssued, TokenConsumed, TokenSpent DEF Server
  <2>3. ASSUME UNCHANGED calls PROVE Quieter
    BY <2>3 DEF Quieter
  <2>4. ASSUME NEW t \in Token, Expire(t) PROVE IInv'
    BY <2>1, <2>3, <2>4, QuietKeeps DEF Expire
  <2>5. ASSUME NEW d \in devices, DeleteDevice(d) PROVE IInv'
    BY <2>1, <2>3, <2>5, QuietKeeps DEF DeleteDevice
  <2>6. CASE UNCHANGED vars
    BY <2>1, <2>3, <2>6, QuietKeeps DEF vars, server
  <2>7. ASSUME Quieter, UNCHANGED server PROVE IInv'
    BY <2>1, <2>7, QuietKeeps DEF server
  <2>8. QED
    BY <2>1, <2>2, <2>4, <2>5, <2>6, <2>7, PagesQuiet DEF Next
<1>3. QED
  BY <1>1, <1>2, PTL DEF Spec

(* Type correctness of the server's rows, the two forms and the requests.  *)
THEOREM OnboardingTypeCorrect == Spec => []TypeOK
<1>1. IInv => TypeOK
  BY DEF IInv
<1>2. QED
  BY <1>1, Inductive, PTL

(* Every device registered was probed under exactly its address and        *)
(* credentials, whatever is edited, sent twice or answered late.           *)
THEOREM OnlyTestedDevices == Spec => []RegisteredWasTested
<1>1. IInv => RegisteredWasTested
  BY DEF IInv
<1>2. QED
  BY <1>1, Inductive, PTL

(* However many requests carry it, a token admits one device.              *)
THEOREM OneDevicePerToken == Spec => []TokenAdmitsOne
<1>1. IInv => TokenAdmitsOne
  BY DEF IInv
<1>2. QED
  BY <1>1, Inductive, PTL

(* Two requests that both found an address free do not both take it: the   *)
(* unique index decides at the insert.                                     *)
THEOREM OneDevicePerAddress == Spec => []AddressesDiffer
<1>1. Init => AddressesDiffer
  BY DEF Init, AddressesDiffer
<1>2. AddressesDiffer /\ [Next]_vars => AddressesDiffer'
  <2> SUFFICES ASSUME AddressesDiffer, [Next]_vars PROVE AddressesDiffer'
    OBVIOUS
  <2>1. CASE devices' \subseteq devices
    BY <2>1 DEF AddressesDiffer
  <2>2. ASSUME NEW c \in Call, CreateDevice(c) PROVE AddressesDiffer'
    <3>1. CASE Taken(calls[c].config)
      BY <2>1, <2>2, <3>1 DEF CreateDevice, ViolatesIndex
    <3>2. CASE ~Taken(calls[c].config)
      <4> DEFINE row == [config |-> calls[c].config, token |-> calls[c].token]
      <4>1. devices' = devices \cup {row}
        BY <2>2, <3>2 DEF CreateDevice, ViolatesIndex
      <4>2. \A d \in devices : Address[d.config] # Address[row.config]
        BY <3>2 DEF Taken
      <4> HIDE DEF row
      <4>3. QED
        BY <4>1, <4>2 DEF AddressesDiffer
    <3>3. QED
      BY <3>1, <3>2
  <2>3. ASSUME NEW c \in Call, Server(c), ~CreateDevice(c) PROVE devices' \subseteq devices
    BY <2>3 DEF Server, TestConnection, CreateDeviceTest, CheckLimit, CheckExists, ConsumeDeviceTest,
       Fail, server
  <2>4. ASSUME NEW c \in Call, Answer(c) \/ handleTest(c) \/ handleSave(c) \/ handleSubmit(c)
        PROVE  devices' \subseteq devices
    BY <2>4 DEF Answer, TestAnswered, SaveAnswered, Leave, GiveUp, CreateNext, DialogAnswered,
       Dropped, handleTest, handleSave, handleSubmit, server
  <2>5. CASE UNCHANGED vars
    BY <2>1, <2>5 DEF vars, server
  <2>6. ASSUME \/ \E t \in Token : Expire(t)
               \/ \E d \in devices : DeleteDevice(d)
               \/ \E f \in Typed : Edit(f)
               \/ \E f \in Config : EditDialog(f)
               \/ Cancel \/ OpenDialog \/ CloseDialog
        PROVE  devices' \subseteq devices
    BY <2>6 DEF Expire, DeleteDevice, Edit, EditDialog, Cancel, Leave, OpenDialog, CloseDialog, server
  <2>7. ASSUME NEW c \in Call, Server(c) PROVE AddressesDiffer'
    BY <2>1, <2>2, <2>3, <2>7
  <2>8. QED
    <3>1. CASE \E c \in Call : Server(c)
      BY <2>7, <3>1
    <3>2. CASE \E c \in Call : Answer(c) \/ handleTest(c) \/ handleSave(c) \/ handleSubmit(c)
      BY <2>1, <2>4, <3>2
    <3>3. QED
      BY <2>1, <2>5, <2>6, <3>1, <3>2 DEF Next
<1>3. QED
  BY <1>1, <1>2, PTL DEF Spec
-----------------------------------------------------------------------------
(* The page of reports (module ReportsPage), in the parts beside the       *)
(* registration of devices.  A handler in progress is a record with these  *)
(* fields, and so is what it has read.                                     *)
Fields == {"op", "stage", "days", "target", "who", "n", "read", "left"}
Parts  == {"sla", "listed", "recipients", "history"}
Shaped(r) == /\ r = [f \in Fields |-> r[f]]
             /\ r.read = [p \in Parts |-> r.read[p]]

(* The report a handler of the page has read was measured by the target t. *)
HasRead(r)     == r.stage = "reading" /\ "sla" \notin r.left
Measured(r, t) == r.op \in {"generate", "saveTarget"} /\ HasRead(r) => r.read.sla.target = t

(* A handler that saved a target, and shows no report measured by it yet.  *)
Saves(r) == r.op = "saveTarget" /\ r.stage \in {"ok", "reading", "unread"}
-----------------------------------------------------------------------------
(* Until a saved target overtakes a report that is on its way: every       *)
(* report read was measured by the target stored, and so was the one       *)
(* shown, if no handler has still to replace it and none failed to.        *)
TargetInv ==
    /\ handlers = [c \in Slot |-> handlers[c]] /\ failed \in BOOLEAN /\ late \in BOOLEAN
    /\ \A c \in Slot : handlers[c] # Reports!Idle => Shaped(handlers[c]) /\ (late = TRUE \/ Measured(handlers[c], target))
    /\ \/ late = TRUE \/ failed = TRUE \/ sla = Reports!NoReport \/ sla.target = target
       \/ \E c \in Slot : handlers[c] # Reports!Idle /\ Saves(handlers[c])

LEMMA InProgress ==
    ASSUME NEW r, Shaped(r)
    PROVE  r # Reports!Idle
<1>1. r = [f \in Fields |-> r[f]] /\ "stage" \in Fields
  BY DEF Shaped, Fields
<1>2. QED
  BY <1>1 DEF Reports!Idle

(* One handler replaced: what is shown is measured by the target stored,   *)
(* or the handler will see to it, or nothing of this changes.              *)
LEMMA ReportsReplaced ==
    ASSUME TargetInv, NEW c \in Slot, NEW r, handlers' = [handlers EXCEPT ![c] = r],
           r # Reports!Idle => Shaped(r) /\ (late' = TRUE \/ Measured(r, target')),
           late' = TRUE \/ target' = target \/ \A d \in Slot \ {c} : ~Reports!OnItsWay(d),
           late' \in BOOLEAN, late = TRUE => late' = TRUE, failed' \in BOOLEAN,
           \/ late' = TRUE \/ failed' = TRUE \/ sla'.target = target' \/ (r # Reports!Idle /\ Saves(r))
           \/ UNCHANGED <<sla, failed, target>> /\ ~(handlers[c] # Reports!Idle /\ Saves(handlers[c]))
    PROVE  TargetInv'
<1>1. /\ handlers' = [d \in Slot |-> handlers'[d]] /\ handlers'[c] = r
      /\ \A d \in Slot \ {c} : handlers'[d] = handlers[d]
  BY DEF TargetInv
<1>2. Reports!Idle' = Reports!Idle /\ Reports!NoReport' = Reports!NoReport
  BY DEF Reports!Idle, Reports!NoReport, Reports!None
<1>3. ASSUME NEW d \in Slot \ {c}, handlers[d] # Reports!Idle
      PROVE  Shaped(handlers[d]) /\ (late' = TRUE \/ Measured(handlers[d], target'))
  <2>1. Shaped(handlers[d]) /\ (late = TRUE \/ Measured(handlers[d], target))
    BY <1>3 DEF TargetInv
  <2>2. CASE ~Reports!OnItsWay(d)
    BY <1>3, <2>1, <2>2 DEF Reports!OnItsWay, Reports!Generates, Measured, HasRead
  <2>3. QED
    BY <2>1, <2>2
<1> HIDE DEF Shaped, Measured, Saves
<1>4. \A d \in Slot : handlers'[d] # Reports!Idle => Shaped(handlers'[d]) /\ (late' = TRUE \/ Measured(handlers'[d], target'))
  BY <1>1, <1>3
<1>5. \/ late' = TRUE \/ failed' = TRUE \/ sla' = Reports!NoReport \/ sla'.target = target'
      \/ \E d \in Slot : handlers'[d] # Reports!Idle /\ Saves(handlers'[d])
  BY <1>1 DEF TargetInv
<1>6. QED
  BY <1>1, <1>2, <1>4, <1>5 DEF TargetInv

(* The same, where nothing that is shown changes, nor the target.          *)
LEMMA ReportsKept ==
    ASSUME TargetInv, NEW c \in Slot, NEW r, handlers' = [handlers EXCEPT ![c] = r],
           r # Reports!Idle => Shaped(r) /\ (late = TRUE \/ Measured(r, target)),
           handlers[c] # Reports!Idle /\ Saves(handlers[c]) => r # Reports!Idle /\ Saves(r),
           UNCHANGED <<target, failed, sla, late>>
    PROVE  TargetInv'
<1> HIDE DEF Shaped, Measured, Saves
<1>1. failed' \in BOOLEAN /\ late' \in BOOLEAN /\ late' = late /\ target' = target
  BY DEF TargetInv
<1>2. QED
  BY <1>1, ReportsReplaced

(* What a handler begins as.                                               *)
LEMMA ReportsNew ==
    ASSUME NEW op, NEW stage, NEW left
    PROVE  /\ Shaped(Reports!New(op, stage, left))
           /\ Reports!New(op, stage, left).op = op
           /\ Reports!New(op, stage, left).stage = stage
           /\ Reports!New(op, stage, left).left = left
BY DEF Reports!New, Reports!NoRead, Shaped, Fields, Parts

LEMMA ReportsBegins ==
    ASSUME TargetInv, NEW c \in Slot,
           \/ Reports!generate(c) \/ Reports!saveTarget(c) \/ Reports!sendNow(c)
           \/ Reports!ReportPrint(c)
           \/ \E r \in Recipient : Reports!addRecipient(c, r) \/ Reports!removeRecipient(c, r)
    PROVE  TargetInv'
<1>1. handlers[c] = Reports!Idle /\ UNCHANGED <<target, failed, sla, late>>
  BY DEF Reports!generate, Reports!saveTarget, Reports!sendNow, Reports!ReportPrint, Reports!report,
         Reports!addRecipient, Reports!removeRecipient, Reports!screen, Reports!Begin, Reports!server,
         Reports!Free
<1>2. ASSUME NEW op, NEW stage, NEW left, op \in {"generate", "saveTarget"} => stage = "sent" \/ "sla" \in left,
             handlers' = [handlers EXCEPT ![c] = Reports!New(op, stage, left)]
      PROVE  TargetInv'
  <2> DEFINE begun == Reports!New(op, stage, left)
  <2>1. Shaped(begun) /\ begun.op = op /\ begun.left = left /\ begun.stage = stage
    BY ReportsNew
  <2>2. handlers' = [handlers EXCEPT ![c] = begun]
    BY <1>2
  <2> HIDE DEF begun
  <2>3. Measured(begun, target)
    BY <1>2, <2>1 DEF Measured, HasRead
  <2>4. QED
    BY <1>1, <2>1, <2>2, <2>3, ReportsKept
<1>3. ASSUME NEW r, NEW op \in {"add", "remove"},
             handlers' = [handlers EXCEPT ![c] = [Reports!New(op, "sent", {}) EXCEPT !.who = {r}]]
      PROVE  TargetInv'
  <2> DEFINE begun == [Reports!New(op, "sent", {}) EXCEPT !.who = {r}]
  <2>1. Shaped(begun) /\ begun.op = op
    BY DEF Reports!New, Reports!NoRead, Shaped, Fields, Parts
  <2>2. handlers' = [handlers EXCEPT ![c] = begun]
    BY <1>3
  <2> HIDE DEF begun
  <2>3. Measured(begun, target)
    BY <2>1 DEF Measured
  <2>4. QED
    BY <1>1, <2>1, <2>2, <2>3, ReportsKept
<1>4. QED
  BY <1>2, <1>3
  DEF Reports!generate, Reports!saveTarget, Reports!sendNow, Reports!ReportPrint,
      Reports!addRecipient, Reports!removeRecipient, Reports!Begin

LEMMA ReportsServer ==
    ASSUME TargetInv, NEW c \in Slot, Reports!Server(c)
    PROVE  TargetInv'
<1> DEFINE old == handlers[c]
<1>0. /\ old # Reports!Idle /\ Shaped(old) /\ (late = TRUE \/ Measured(old, target))
      /\ UNCHANGED <<sla, failed>> /\ failed' \in BOOLEAN /\ (Reports!UpdateSLATarget(c) \/ late' = late)
  BY DEF TargetInv, Reports!Server, Reports!UpdateSLATarget, Reports!UpsertRecipient, Reports!report,
         Reports!DeleteRecipient, Reports!StartSending, Reports!Refuse, Reports!RefuseRead,
         Reports!SendMail, Reports!Read, Reports!Sent, Reports!screen
<1>1. ASSUME NEW s \in {"ok", "refused", "unread"}, Reports!Respond(c, s), target' = target, late' = late,
             old.op # "saveTarget" \/ ~Saves(old) \/ s = "unread"
      PROVE  TargetInv'
  <2> DEFINE r == [old EXCEPT !.stage = s]
  <2>1. handlers' = [handlers EXCEPT ![c] = r]
    BY <1>1 DEF Reports!Respond
  <2>2. Shaped(r) /\ r.stage = s /\ r.op = old.op
    BY <1>0 DEF Shaped, Fields, Parts
  <2> HIDE DEF r
  <2>3. Measured(r, target)
    BY <1>1, <2>2 DEF Measured, HasRead
  <2>4. r # Reports!Idle
    BY <2>2, InProgress
  <2>5. QED
    BY <1>0, <1>1, <2>1, <2>2, <2>3, <2>4, ReportsKept DEF Saves
<1>2. CASE Reports!UpdateSLATarget(c)
  <2> DEFINE r == [old EXCEPT !.stage = "ok"]
  <2>1. handlers' = [handlers EXCEPT ![c] = r] /\ old.op = "saveTarget"
    BY <1>2 DEF Reports!UpdateSLATarget, Reports!Sent, Reports!Respond
  <2>2. Shaped(r) /\ r.stage = "ok" /\ r.op = old.op
    BY <1>0 DEF Shaped, Fields, Parts
  <2> HIDE DEF r
  <2>3. Measured(r, target') /\ Saves(r)
    BY <2>1, <2>2 DEF Measured, HasRead, Saves
  <2>4. /\ late' = TRUE \/ \A d \in Slot \ {c} : ~Reports!OnItsWay(d)
        /\ late' \in BOOLEAN /\ (late = TRUE => late' = TRUE)
    BY <1>2 DEF Reports!UpdateSLATarget, TargetInv
  <2>5. (r # Reports!Idle => Shaped(r) /\ Measured(r, target')) /\ (r # Reports!Idle)
    BY <2>2, <2>3, InProgress
  <2>6. QED
    BY <1>0, <2>1, <2>2, <2>3, <2>4, <2>5, ReportsReplaced
<1>3. CASE Reports!UpsertRecipient(c) \/ Reports!DeleteRecipient(c) \/ Reports!Refuse(c)
  BY <1>1, <1>3
  DEF Reports!UpsertRecipient, Reports!DeleteRecipient, Reports!Refuse, Reports!Sent, Saves, Reports!server, Reports!screen
<1>4. CASE Reports!RefuseRead(c)
  BY <1>1, <1>4 DEF Reports!RefuseRead, Reports!server, Reports!screen
<1>5. CASE Reports!StartSending(c)
  <2> DEFINE r == [old EXCEPT !.stage = "reading", !.who = mailed, !.n = Reports!NextReport]
  <2>1. handlers' = [handlers EXCEPT ![c] = r] /\ old.op = "send" /\ target' = target /\ late' = late
    BY <1>5 DEF Reports!StartSending, Reports!Sent, Reports!screen
  <2>2. Shaped(r) /\ r.op = old.op
    BY <1>0 DEF Shaped, Fields, Parts
  <2> HIDE DEF r
  <2>3. QED
    BY <1>0, <2>1, <2>2, ReportsKept DEF Measured, Saves
<1>6. ASSUME NEW m \in Recipient, Reports!SendMail(c, m) PROVE TargetInv'
  <2> DEFINE rest == Reports!Remaining(c, m)
             r == [old EXCEPT !.who = rest, !.stage = IF rest = {} THEN "ok" ELSE @]
  <2>1. handlers' = [handlers EXCEPT ![c] = r] /\ old.op = "send" /\ target' = target /\ late' = late
    BY <1>6 DEF Reports!SendMail, Reports!screen
  <2>2. Shaped(r) /\ r.op = old.op
    BY <1>0 DEF Shaped, Fields, Parts
  <2> HIDE DEF r
  <2>3. QED
    BY <1>0, <2>1, <2>2, ReportsKept DEF Measured, Saves
<1>7. ASSUME NEW p \in Parts, Reports!Read(c, p) PROVE TargetInv'
  <2> DEFINE sum == [window |-> old.days, incidents |-> Reports!Within(old.days), target |-> target]
             x == IF p = "sla" THEN [old.read EXCEPT !.sla = sum]
                  ELSE IF p = "listed" THEN [old.read EXCEPT !.listed = Reports!Within(Reports!Default)]
                  ELSE IF p = "recipients" THEN [old.read EXCEPT !.recipients = mailed]
                  ELSE [old.read EXCEPT !.history = deliveries]
             r == [old EXCEPT !.left = @ \ {p}, !.read = x]
  <2>1. handlers' = [handlers EXCEPT ![c] = r] /\ target' = target /\ late' = late
    BY <1>7 DEF Reports!Read, Reports!server, Reports!screen
  <2>2. /\ x = [o \in Parts |-> x[o]]
        /\ x.sla = IF p = "sla" THEN sum ELSE old.read.sla
    BY <1>0 DEF Shaped, Parts
  <2> HIDE DEF x
  <2>3. Shaped(r) /\ r.op = old.op /\ r.stage = old.stage /\ r.left = old.left \ {p} /\ r.read = x
    BY <1>0, <2>2 DEF Shaped, Fields
  <2> HIDE DEF r
  <2>4. late = TRUE \/ Measured(r, target)
    BY <1>0, <2>2, <2>3 DEF Measured, HasRead, Parts
  <2>5. r # Reports!Idle
    BY <2>3, InProgress
  <2>6. QED
    BY <1>0, <2>1, <2>3, <2>4, <2>5, ReportsKept DEF Saves
<1>8. QED
  BY <1>2, <1>3, <1>4, <1>5, <1>6, <1>7 DEF Reports!Server, Parts

LEMMA ReportsStep ==
    ASSUME TargetInv, [Reports!Next]_(Reports!vars)
    PROVE  TargetInv'
<1>0. Reports!Idle' = Reports!Idle /\ Reports!NoReport' = Reports!NoReport
  BY DEF Reports!Idle, Reports!NoReport, Reports!None
<1>1. ASSUME UNCHANGED <<target, sla, failed, late, handlers>> PROVE TargetInv'
  BY <1>0, <1>1 DEF TargetInv
<1>2. CASE \/ UNCHANGED Reports!vars \/ \E d \in Window : Reports!setDays(d)
           \/ \E t \in Target : Reports!setTarget(t)
  BY <1>1, <1>2 DEF Reports!vars, Reports!screen, Reports!server, Reports!report, Reports!setDays,
     Reports!setTarget, Reports!kept
<1>3. ASSUME NEW c \in Slot, Reports!Saved(c) PROVE TargetInv'
  <2>1. /\ Shaped(handlers[c]) /\ handlers[c].op = "saveTarget" /\ handlers[c] # Reports!Idle
        /\ UNCHANGED <<target, failed, sla, late>>
        /\ handlers' = [handlers EXCEPT ![c] = Reports!Regenerates(c)]
    BY <1>3 DEF Reports!Saved, TargetInv, Reports!server, Reports!report
  <2> DEFINE r == Reports!Regenerates(c)
  <2>2. /\ Shaped(r) /\ r.op = "saveTarget" /\ r.stage = "reading" /\ r.left = {"sla", "listed"}
    BY <2>1 DEF Reports!Regenerates, Shaped, Fields, Parts
  <2>3. handlers' = [handlers EXCEPT ![c] = r]
    BY <2>1
  <2> HIDE DEF r
  <2>4. Measured(r, target) /\ Saves(r)
    BY <2>2 DEF Measured, HasRead, Saves
  <2>5. r # Reports!Idle
    BY <2>2, InProgress
  <2>6. QED
    BY <2>1, <2>2, <2>3, <2>4, <2>5, ReportsKept
<1>4. ASSUME NEW c \in Slot, Reports!Changed(c) PROVE TargetInv'
  <2> DEFINE begun == Reports!New("delivery", "reading", {"recipients", "history"})
  <2>1. /\ handlers' = [handlers EXCEPT ![c] = begun] /\ handlers[c] # Reports!Idle
        /\ handlers[c].op # "saveTarget" /\ UNCHANGED <<target, failed, sla, late>>
    BY <1>4 DEF Reports!Changed, Reports!screen, Reports!server, Reports!report
  <2>2. Shaped(begun) /\ begun.op = "delivery"
    BY ReportsNew
  <2> HIDE DEF begun
  <2>3. QED
    BY <2>1, <2>2, ReportsKept DEF Measured, Saves
<1>5. ASSUME NEW c \in Slot, Reports!Generated(c) PROVE TargetInv'
  <2>1. /\ handlers' = [handlers EXCEPT ![c] = Reports!Idle] /\ failed' \in BOOLEAN
        /\ target' = target /\ late' = late /\ sla' = handlers[c].read.sla
    BY <1>5 DEF Reports!Generated, Reports!Finally, Reports!server
  <2>2. /\ handlers[c].op \in {"generate", "saveTarget"} /\ HasRead(handlers[c]) /\ handlers[c] # Reports!Idle
    BY <1>5 DEF Reports!Generated, Reports!Arrived, Reports!Generates, HasRead
  <2>3. late' = TRUE \/ sla'.target = target'
    BY <2>1, <2>2 DEF TargetInv, Measured
  <2>4. late' \in BOOLEAN
    BY <2>1 DEF TargetInv
  <2>5. QED
    BY <2>1, <2>3, <2>4, ReportsReplaced
<1>6. ASSUME NEW c \in Slot, Reports!Delivery(c) \/ Reports!Printed(c) PROVE TargetInv'
  <2>1. /\ handlers' = [handlers EXCEPT ![c] = Reports!Idle] /\ UNCHANGED <<target, failed, sla, late>>
        /\ handlers[c].op # "saveTarget"
    BY <1>6 DEF Reports!Delivery, Reports!Printed, Reports!Finally, Reports!Arrived, Reports!server, Reports!report
  <2>2. QED
    BY <2>1, ReportsKept DEF Saves
<1>7. ASSUME NEW c \in Slot, Reports!Failed(c) PROVE TargetInv'
  <2>1. /\ handlers' = [handlers EXCEPT ![c] = Reports!Idle] /\ UNCHANGED <<target, sla, late>>
        /\ failed' = (failed \/ handlers[c].op \in Reports!Generates)
    BY <1>7 DEF Reports!Failed, Reports!Finally, Reports!server, Reports!report
  <2>2. failed' \in BOOLEAN /\ late' \in BOOLEAN
    BY <2>1 DEF TargetInv
  <2>3. CASE handlers[c].op \in Reports!Generates
    <3>1. failed' = TRUE
      BY <2>1, <2>3
    <3>2. QED
      BY <2>1, <2>2, <3>1, ReportsReplaced
  <2>4. CASE handlers[c].op \notin Reports!Generates
    <3>1. failed' = failed /\ ~Saves(handlers[c])
      BY <2>1, <2>4 DEF Saves, Reports!Generates, TargetInv
    <3>2. QED
      BY <2>1, <3>1, ReportsKept
  <2>5. QED
    BY <2>3, <2>4
<1>8. QED
  BY <1>2, <1>3, <1>4, <1>5, <1>6, <1>7, ReportsBegins, ReportsServer DEF Reports!Next

LEMMA ReportsInit ==
    ASSUME Reports!Init
    PROVE  TargetInv
<1>1. \A op, stage, left : /\ Shaped(Reports!New(op, stage, left))
                           /\ Reports!New(op, stage, left).op = op
                           /\ Reports!New(op, stage, left).left = left
  BY ReportsNew
<1>2. PICK c, d \in Slot : handlers = [e \in Slot |->
          IF e = c THEN Reports!New("generate", "reading", {"sla", "listed"})
          ELSE IF e = d THEN Reports!New("delivery", "reading", {"recipients", "history"})
          ELSE Reports!Idle]
  BY DEF Reports!Init
<1>3. \A e \in Slot : handlers[e] # Reports!Idle =>
          Shaped(handlers[e]) /\ handlers[e].op # "saveTarget" /\ (handlers[e].op = "generate" => "sla" \in handlers[e].left)
  BY <1>1, <1>2
<1>4. QED
  BY <1>2, <1>3 DEF Reports!Init, TargetInv, Measured, HasRead
-----------------------------------------------------------------------------
(* The page moves where it is open, and stays as it starts elsewhere.      *)
LEMMA ReportsInductive == EachSpec => []TargetInv
<1>1. EachInit => TargetInv
  BY ReportsInit DEF EachInit, ReportsAtStart
<1>2. ASSUME TargetInv, [EachNext]_allVars PROVE TargetInv'
  <2>1. [Reports!Next]_(Reports!vars)
    BY <1>2 DEF EachNext, allVars, reportsVars, Reports!vars, Reports!server, Reports!screen, Reports!report
  <2>2. QED
    BY <1>2, <2>1, ReportsStep
<1>3. QED
  BY <1>1, <1>2, PTL DEF EachSpec

(* However generating and saving overlap, at rest and with nothing failed  *)
(* the target the report shown was measured by is the one stored, unless a *)
(* target was saved while a report read before it was on its way: saving a *)
(* target generates the report again (Reports.tsx).                        *)
THEOREM ReportOfTarget == EachSpec => []ReportHasTarget
<1>1. TargetInv => ReportHasTarget
  BY DEF TargetInv, ReportHasTarget, Reports!ReportHasTarget, Reports!AtRest, Reports!Free
<1>2. QED
  BY <1>1, ReportsInductive, PTL
=============================================================================
