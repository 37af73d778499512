------------------------- MODULE DevicePagesProofs --------------------------
(***************************************************************************)
(* The dialog and the delete button of the legacy device page, the device  *)
(* shown by the new one, and the cards and dialogs of the incidents page   *)
(* (MCDevicePages), for every number of devices, alerts and handlers in    *)
(* progress, with the browser's buttons at work.                           *)
(***************************************************************************)
EXTENDS MCDevicePages, Naturals, TLAPS

(* Requests.                                                               *)
LEMMA RequestTyped ==
    ASSUME TypeOK, NEW op \in {"list", "detail", "delete", "poll"}, NEW d \in Device \cup {None}
    PROVE  /\ Request(op, d) \in Handler /\ Request(op, d).op = op
           /\ Request(op, d).stage = "sent" /\ Request(op, d).mounted
BY DEF TypeOK, Request, Handler

LEMMA NotIdle ==
    ASSUME TypeOK
    PROVE  /\ \A r \in Handler : r # Idle
           /\ \A c \in Call : calls[c] # Idle => calls[c] \in Handler
BY DEF TypeOK, Handler, Idle, None

(* What leaving a page does to the handlers: one begins, those that are    *)
(* over are gone, the others are cut off.                                  *)
LEMMA LeaveEffect ==
    ASSUME TypeOK, NEW over, NEW op \in {"list", "detail"}, NEW d \in Device \cup {None},
           Leave(over, Request(op, d))
    PROVE  /\ calls' \in [Call -> Handler \cup {Idle}]
           /\ \A c \in Call : calls'[c] # Idle => calls'[c].op = op \/ ~calls'[c].mounted
           /\ \A c \in Call : calls[c] # Idle /\ calls[c].stage = "asked" /\ c \notin over =>
                 /\ calls'[c] # Idle /\ calls'[c].stage = "asked"
                 /\ calls'[c].op = calls[c].op /\ ~calls'[c].mounted
           /\ \A c \in Call : calls'[c] # Idle /\ calls'[c].stage = "asked" =>
                 calls[c] # Idle /\ calls[c].stage = "asked" /\ c \notin over
<1> DEFINE a == [Request(op, d) EXCEPT !.saw = None]
<1>1. PICK n \in Call :
         /\ Free(n) \/ n \in over
         /\ calls' = [c \in Call |-> IF c = n THEN a
                                     ELSE IF Free(c) \/ c \in over THEN Idle
                                     ELSE [calls[c] EXCEPT !.mounted = FALSE]]
  BY DEF Leave
<1>2. a \in Handler /\ a.op = op /\ a.stage = "sent"
  BY DEF TypeOK, Request, Handler
<1> HIDE DEF a
<1>3. ASSUME NEW c \in Call, calls[c] # Idle
      PROVE  /\ [calls[c] EXCEPT !.mounted = FALSE] \in Handler
             /\ ~[calls[c] EXCEPT !.mounted = FALSE].mounted
             /\ [calls[c] EXCEPT !.mounted = FALSE].stage = calls[c].stage
             /\ [calls[c] EXCEPT !.mounted = FALSE].op = calls[c].op
  BY <1>3, NotIdle DEF Handler
<1>4. calls' \in [Call -> Handler \cup {Idle}]
  BY <1>1, <1>2, <1>3 DEF Free
<1>5. ASSUME NEW c \in Call, calls'[c] # Idle PROVE calls'[c].op = op \/ ~calls'[c].mounted
  BY <1>1, <1>2, <1>3, <1>5 DEF Free
<1>6. ASSUME NEW c \in Call, calls[c] # Idle, calls[c].stage = "asked", c \notin over
      PROVE  /\ calls'[c] # Idle /\ calls'[c].stage = "asked"
             /\ calls'[c].op = calls[c].op /\ ~calls'[c].mounted
  <2>1. c # n
    BY <1>1, <1>6 DEF Free
  <2>2. calls'[c] = [calls[c] EXCEPT !.mounted = FALSE]
    BY <1>1, <1>6, <2>1 DEF Free
  <2>3. QED
    BY <1>3, <1>6, <2>2, NotIdle
<1>7. ASSUME NEW c \in Call, calls'[c] # Idle, calls'[c].stage = "asked"
      PROVE  calls[c] # Idle /\ calls[c].stage = "asked" /\ c \notin over
  <2>1. c # n /\ ~Free(c) /\ c \notin over
    BY <1>1, <1>2, <1>7
  <2>2. calls'[c] = [calls[c] EXCEPT !.mounted = FALSE]
    BY <1>1, <2>1
  <2>3. QED
    BY <1>3, <1>7, <2>1, <2>2 DEF Free
<1>8. QED
  BY <1>4, <1>5, <1>6, <1>7
-----------------------------------------------------------------------------
(* The invariant.  The button is disabled for one confirmed deletion of    *)
(* the page that is mounted, and not while the dialog of that page is      *)
(* open: no second deletion can be confirmed beside the first.             *)
Asked(c)     == calls[c] # Idle /\ calls[c].stage = "asked"
Confirmed(c) == /\ calls[c] # Idle /\ calls[c].op = "delete" /\ calls[c].mounted
                /\ calls[c].stage # "asked" /\ App = "legacy"
Single ==
    /\ App # "legacy" => dialog = None
    /\ \A c \in Call : Asked(c) => calls[c].op = "delete"
    /\ \A c \in Call : Asked(c) /\ calls[c].mounted => ~deleting /\ route # List
    /\ \A c \in Call : Confirmed(c) => route # List
    /\ \A c, d \in Call : Confirmed(c) /\ Confirmed(d) => c = d
IInv == TypeOK /\ AskersWait /\ DeletingTellsHandler /\ Single

(* A step of one handler that neither begins nor ends its waiting: if it   *)
(* was the confirmed deletion and is no more, the button is given back.    *)
LEMMA OneHandler ==
    ASSUME IInv, TypeOK', NEW c \in Call, ~Asked(c), ~Asked(c)',
           \A d \in Call \ {c} : calls'[d] = calls[d],
           dialog' = dialog, route' \in Device \/ route' = route,
           Confirmed(c)' => Confirmed(c),
           deleting' <=> deleting /\ (Confirmed(c) => Confirmed(c)')
    PROVE  IInv'
<1>1. \A d \in Call \ {c} : (Asked(d)' <=> Asked(d)) /\ (Confirmed(d)' <=> Confirmed(d))
  BY DEF Asked, Confirmed
<1>2. AskersWait'
  BY <1>1 DEF IInv, AskersWait, Asked
<1>3. deleting <=> \E d \in Call : Confirmed(d)
  BY DEF IInv, DeletingTellsHandler, Confirmed
<1>4. deleting' <=> \E d \in Call : Confirmed(d)'
  BY <1>1, <1>3 DEF IInv, Single
<1>5. DeletingTellsHandler'
  BY <1>4 DEF DeletingTellsHandler, Confirmed
<1>6. ASSUME NEW d \in Call, Asked(d)'
      PROVE  calls'[d].op = "delete" /\ (calls'[d].mounted => ~deleting' /\ route' # List)
  <2>1. d # c /\ Asked(d) /\ calls'[d] = calls[d]
    BY <1>1, <1>6
  <2>2. QED
    BY <2>1, DevicePagesAssumption DEF IInv, Single
<1>7. \A d \in Call : Confirmed(d)' => Confirmed(d)
  BY <1>1
<1>8. Single'
  BY <1>6, <1>7, DevicePagesAssumption DEF IInv, Single
<1>9. QED
  BY <1>2, <1>5, <1>8 DEF IInv

(* A page left: nothing confirmed there shows on the next one, and the     *)
(* dialog stays with the handler that waits for it.                        *)
LEMMA Leaving ==
    ASSUME IInv, TypeOK', NEW over, \A c \in Call : c \in over => ~Asked(c),
           NEW op \in {"list", "detail"}, NEW d \in Device \cup {None}, Leave(over, Request(op, d)),
           dialog' = dialog, deleting' = FALSE
    PROVE  IInv'
<1>1. /\ \A c \in Call : calls'[c] # Idle => calls'[c].op = op \/ ~calls'[c].mounted
      /\ \A c \in Call : Asked(c) => Asked(c)' /\ calls'[c].op = calls[c].op /\ ~calls'[c].mounted
      /\ \A c \in Call : Asked(c)' => Asked(c)
  BY LeaveEffect DEF IInv, Asked
<1>2. AskersWait'
  BY <1>1 DEF IInv, AskersWait, Asked
<1>3. \A c \in Call : ~Confirmed(c)'
  BY <1>1 DEF Confirmed
<1>4. DeletingTellsHandler'
  BY <1>3 DEF DeletingTellsHandler, Confirmed
<1>5. Single'
  BY <1>1, <1>3 DEF IInv, Single
<1>6. QED
  BY <1>2, <1>4, <1>5 DEF IInv

(* The handler asks, and waits.                                            *)
LEMMA Asking ==
    ASSUME IInv, TypeOK', NEW c \in Call, AskDelete(c)
    PROVE  IInv'
<1> DEFINE r == [Request("delete", route) EXCEPT !.stage = "asked"]
<1>1. /\ calls[c] = Idle /\ calls' = [calls EXCEPT ![c] = r] /\ dialog = None /\ dialog' = c
      /\ ~deleting /\ deleting' = deleting /\ route # List /\ route' = route /\ App = "legacy"
  BY DEF AskDelete, Start, Free, OnDevice
<1>2. r.op = "delete" /\ r.stage = "asked"
  BY DEF Request
<1> HIDE DEF r
<1>3. r # Idle
  BY <1>2 DEF Idle, None
<1>4. calls'[c] = r /\ \A d \in Call \ {c} : calls'[d] = calls[d]
  BY <1>1 DEF IInv, TypeOK
<1>5. \A d \in Call : ~Asked(d)
  BY <1>1, DevicePagesAssumption DEF IInv, AskersWait, Asked
<1>6. \A d \in Call : Asked(d)' <=> d = c
  BY <1>2, <1>3, <1>4, <1>5 DEF Asked
<1>7. \A d \in Call : Confirmed(d)' <=> Confirmed(d)
  BY <1>1, <1>2, <1>4 DEF Confirmed
<1>8. AskersWait'
  BY <1>1, <1>6 DEF AskersWait, Asked
<1>9. deleting <=> \E d \in Call : Confirmed(d)
  BY DEF IInv, DeletingTellsHandler, Confirmed
<1>10. DeletingTellsHandler'
  BY <1>1, <1>7, <1>9 DEF DeletingTellsHandler, Confirmed
<1>11. Single'
  BY <1>1, <1>2, <1>4, <1>6, <1>7 DEF IInv, Single
<1>12. QED
  BY <1>8, <1>10, <1>11 DEF IInv

(* The dialog answers the one handler that waits.                          *)
LEMMA Closing ==
    ASSUME IInv, TypeOK', NEW yes \in BOOLEAN, Close(yes)
    PROVE  IInv'
<1>1. PICK c \in Call : c = dialog /\ Asked(c) /\ \A d \in Call : Asked(d) => d = c
  BY DEF Close, IInv, TypeOK, AskersWait, Asked
<1> DEFINE r == [calls[c] EXCEPT !.stage = "sent", !.saw = device]
<1>2. /\ calls' = [calls EXCEPT ![c] = IF yes THEN r ELSE Idle]
      /\ deleting' = (deleting \/ (yes /\ calls[c].mounted))
      /\ dialog' = None /\ route' = route
  BY <1>1 DEF Close, Closed
<1>3. calls[c] \in Handler /\ calls[c].op = "delete" /\ App = "legacy"
  BY <1>1, NotIdle DEF IInv, Single, Asked, Close
<1>4. r.op = "delete" /\ r.stage = "sent" /\ r.mounted = calls[c].mounted
  BY <1>3 DEF Handler
<1> HIDE DEF r
<1>5. calls'[c] = (IF yes THEN r ELSE Idle) /\ \A d \in Call \ {c} : calls'[d] = calls[d]
  BY <1>1, <1>2 DEF IInv, TypeOK
<1>6. r # Idle
  BY <1>4 DEF Idle, None
<1>7. \A d \in Call : ~Asked(d)'
  BY <1>1, <1>4, <1>5 DEF Asked
<1>8. AskersWait'
  BY <1>2, <1>7, DevicePagesAssumption DEF AskersWait, Asked
<1>9. \A d \in Call \ {c} : Confirmed(d)' <=> Confirmed(d)
  BY <1>5 DEF Confirmed
<1>10. ~Confirmed(c)
  BY <1>1 DEF Confirmed, Asked
<1>11. deleting <=> \E d \in Call : Confirmed(d)
  BY DEF IInv, DeletingTellsHandler, Confirmed
<1>12. calls[c].mounted => ~deleting /\ route # List
  BY <1>1 DEF IInv, Single
<1>13. CASE yes /\ calls[c].mounted
  <2>1. Confirmed(c)'
    <3>1. calls'[c] = r
      BY <1>5, <1>13
    <3>2. r.mounted
      BY <1>4, <1>13
    <3>3. QED
      BY <1>3, <1>4, <1>6, <3>1, <3>2 DEF Confirmed
  <2>2. \A d \in Call : Confirmed(d)' <=> d = c
    BY <1>9, <1>11, <1>12, <1>13, <2>1
  <2>3. deleting'
    BY <1>2, <1>13
  <2>4. route' # List
    BY <1>2, <1>12, <1>13
  <2>5. DeletingTellsHandler'
    BY <1>1, <2>1, <2>3 DEF DeletingTellsHandler, Confirmed
  <2>6. Single'
    BY <1>2, <1>7, <2>2, <2>4 DEF Single
  <2>7. QED
    BY <1>8, <2>5, <2>6 DEF IInv
<1>14. CASE ~(yes /\ calls[c].mounted)
  <2>1. ~Confirmed(c)'
    <3>1. CASE yes
      BY <1>4, <1>5, <1>14, <3>1 DEF Confirmed
    <3>2. CASE ~yes
      BY <1>5, <3>2 DEF Confirmed
    <3>3. QED
      BY <3>1, <3>2
  <2>2. \A d \in Call : Confirmed(d)' <=> Confirmed(d)
    BY <1>9, <1>10, <2>1
  <2>3. deleting' <=> deleting
    BY <1>2, <1>14
  <2>4. DeletingTellsHandler'
    BY <1>11, <2>2, <2>3 DEF DeletingTellsHandler, Confirmed
  <2>5. Single'
    BY <1>2, <1>7, <2>2 DEF IInv, Single
  <2>6. QED
    BY <1>8, <2>4, <2>5 DEF IInv
<1>15. QED
  BY <1>13, <1>14
-----------------------------------------------------------------------------
(* Types.                                                                  *)
LEMMA MountTyped ==
    ASSUME TypeOK, NEW r \in Device \cup {List}, NEW over, NEW op \in {"list", "detail"},
           NEW d \in Device \cup {None}, Mounted(r), Leave(over, Request(op, d)),
           stored' = stored, dialog' = dialog, visited' \subseteq Device
    PROVE  TypeOK'
<1>1. calls' \in [Call -> Handler \cup {Idle}]
  BY LeaveEffect
<1>2. QED
  BY <1>1 DEF TypeOK, Mounted

LEMMA CallTyped ==
    ASSUME TypeOK, NEW c \in Call, NEW r \in Handler \cup {Idle}, calls' = [calls EXCEPT ![c] = r]
    PROVE  calls' \in [Call -> Handler \cup {Idle}]
BY DEF TypeOK

LEMMA ButtonsTyped ==
    ASSUME TypeOK, NEW c \in Call, NEW d \in Device,
           Jump(c, d) \/ handleDelete(c, d) \/ handlePoll(c, d) \/ onDelete(c) \/ AskDelete(c)
    PROVE  TypeOK'
<1>1. CASE Jump(c, d) \/ handleDelete(c, d) \/ handlePoll(c, d)
  <2>1. PICK op \in {"detail", "delete", "poll"} : calls' = [calls EXCEPT ![c] = Request(op, d)]
    BY <1>1 DEF Jump, handleDelete, handlePoll, Start
  <2>2. calls' \in [Call -> Handler \cup {Idle}]
    BY <2>1, RequestTyped, CallTyped
  <2>3. QED
    BY <1>1, <2>2 DEF TypeOK, Jump, handleDelete, handlePoll
<1>2. CASE onDelete(c)
  <2>1. route \in Device /\ calls' = [calls EXCEPT ![c] = Request("delete", route)]
    BY <1>2 DEF onDelete, OnDevice, Start, TypeOK
  <2>2. calls' \in [Call -> Handler \cup {Idle}]
    BY <2>1, RequestTyped, CallTyped
  <2>3. QED
    BY <1>2, <2>2 DEF TypeOK, onDelete
<1>3. CASE AskDelete(c)
  <2> DEFINE a == Request("delete", route)
             r == [a EXCEPT !.stage = "asked"]
  <2>1. route \in Device /\ calls' = [calls EXCEPT ![c] = r]
    BY <1>3 DEF AskDelete, OnDevice, Start, TypeOK
  <2>2. a \in Handler
    BY <2>1, RequestTyped
  <2> HIDE DEF a
  <2>3. r \in Handler
    BY <2>2 DEF Handler
  <2>4. calls' \in [Call -> Handler \cup {Idle}]
    BY <2>1, <2>3, CallTyped
  <2>5. QED
    BY <1>3, <2>4 DEF TypeOK, AskDelete
<1>4. QED
  BY <1>1, <1>2, <1>3

LEMMA CloseTyped ==
    ASSUME TypeOK, NEW yes \in BOOLEAN, Close(yes)
    PROVE  TypeOK'
<1>1. dialog \in Call /\ calls[dialog] \in Handler
  BY NotIdle DEF Close, TypeOK
<1> DEFINE r == IF yes THEN [calls[dialog] EXCEPT !.stage = "sent", !.saw = device] ELSE Idle
<1>2. calls' = [calls EXCEPT ![dialog] = r]
  BY DEF Close
<1>3. r \in Handler \cup {Idle}
  BY <1>1 DEF TypeOK, Handler
<1> HIDE DEF r
<1>4. calls' \in [Call -> Handler \cup {Idle}]
  BY <1>1, <1>2, <1>3, CallTyped
<1>5. deleting' \in BOOLEAN
  BY <1>1 DEF Close, TypeOK, Handler
<1>6. QED
  BY <1>4, <1>5 DEF Close, Closed, TypeOK

LEMMA ServerTyped ==
    ASSUME TypeOK, NEW c \in Call, ReadDevices(c) \/ DeleteDevice(c) \/ Refuse(c)
    PROVE  TypeOK'
<1>1. PICK stage \in {"ok", "refused"} : calls' = [calls EXCEPT ![c].stage = stage, ![c].read = stored]
  BY DEF ReadDevices, DeleteDevice, Refuse, Respond
<1>2. calls[c] \in Handler
  BY NotIdle DEF ReadDevices, DeleteDevice, Refuse, Sent
<1>3. [calls[c] EXCEPT !.stage = stage, !.read = stored] \in Handler
  BY <1>2 DEF TypeOK, Handler
<1>4. calls' \in [Call -> Handler \cup {Idle}]
  BY <1>1, <1>3 DEF TypeOK
<1>5. QED
  BY <1>4 DEF ReadDevices, DeleteDevice, Refuse, TypeOK

LEMMA AnswersTyped ==
    ASSUME TypeOK, NEW c \in Call,
           ListAnswered(c) \/ DetailAnswered(c) \/ Reloads(c) \/ Deleted(c) \/ Refused(c)
    PROVE  TypeOK'
<1>1. calls[c] \in Handler
  BY NotIdle DEF ListAnswered, DetailAnswered, Reloads, Deleted, Refused, Done
<1>2. Drop(c) => calls' \in [Call -> Handler \cup {Idle}]
  BY CallTyped DEF Drop
<1>3. CASE ListAnswered(c)
  <2>1. devices' \subseteq Device /\ loading' \in BOOLEAN
    BY <1>1, <1>3 DEF ListAnswered, TypeOK, Handler
  <2>2. QED
    BY <1>2, <1>3, <2>1 DEF ListAnswered, TypeOK
<1>4. CASE DetailAnswered(c)
  <2>1. device' \in Device \cup {None} /\ loading' \in BOOLEAN
    BY <1>1, <1>4 DEF DetailAnswered, TypeOK, Handler
  <2>2. QED
    BY <1>2, <1>4, <2>1 DEF DetailAnswered, TypeOK
<1>5. CASE Reloads(c)
  <2> DEFINE a == Request("list", None)
             r == [a EXCEPT !.mounted = calls[c].mounted]
  <2>1. calls' = [calls EXCEPT ![c] = r]
    BY <1>5 DEF Reloads, ReadAgain
  <2>2. a \in Handler
    BY RequestTyped
  <2> HIDE DEF a
  <2>3. r \in Handler
    BY <1>1, <2>2 DEF Handler
  <2>4. calls' \in [Call -> Handler \cup {Idle}]
    BY <2>1, <2>3, CallTyped
  <2>5. QED
    BY <1>5, <2>4 DEF Reloads, TypeOK
<1>6. CASE Deleted(c)
  <2>1. CASE route = List
    BY <1>2, <1>6, <2>1 DEF Deleted, TypeOK
  <2>2. CASE route # List
    BY <1>6, <2>2, MountTyped DEF Deleted, MountList, TypeOK
  <2>3. QED
    BY <2>1, <2>2
<1>7. CASE Refused(c)
  <2>1. deleting' \in BOOLEAN
    BY <1>1, <1>7 DEF Refused, DeletingAfter, TypeOK, Handler
  <2>2. QED
    BY <1>2, <1>7, <2>1 DEF Refused, TypeOK
<1>8. QED
  BY <1>3, <1>4, <1>5, <1>6, <1>7

LEMMA TypesStep ==
    ASSUME TypeOK, [Next]_vars
    PROVE  TypeOK'
<1>1. CASE Back
  BY <1>1, MountTyped DEF Back, MountList, TypeOK
<1>2. ASSUME NEW d \in Device, OpenDevice(d) PROVE TypeOK'
  BY <1>2, MountTyped DEF OpenDevice, TypeOK
<1>3. ASSUME NEW c \in Call, onDelete(c) \/ AskDelete(c) PROVE TypeOK'
  <2>1. route \in Device
    BY <1>3 DEF onDelete, AskDelete, OnDevice, TypeOK
  <2>2. QED
    BY <1>3, <2>1, ButtonsTyped
<1>4. CASE UNCHANGED vars
  BY <1>4 DEF vars, TypeOK
<1>5. QED
  BY <1>1, <1>2, <1>3, <1>4, CloseTyped, ButtonsTyped, ServerTyped, AnswersTyped DEF Next
-----------------------------------------------------------------------------
(* The legacy pages have no button that polls.                             *)
NoPolls == App = "legacy" => \A c \in Call : calls[c] # Idle => calls[c].op # "poll"

LEMMA NoPollsStep ==
    ASSUME TypeOK, NoPolls, [Next]_vars
    PROVE  NoPolls'
<1> SUFFICES ASSUME App = "legacy", NEW c \in Call, calls'[c] # Idle PROVE calls'[c].op # "poll"
  BY DEF NoPolls
<1>1. calls[c] # Idle => calls[c] \in Handler /\ calls[c].op # "poll"
  BY NotIdle DEF NoPolls
<1>2. ASSUME NEW over, NEW op \in {"list", "detail"}, NEW d, Leave(over, Request(op, d))
      PROVE  calls'[c].op # "poll"
  <2>1. \/ calls'[c] = [Request(op, d) EXCEPT !.saw = None]
        \/ calls[c] # Idle /\ calls'[c] = [calls[c] EXCEPT !.mounted = FALSE]
    BY <1>2 DEF Leave, Free
  <2>2. [Request(op, d) EXCEPT !.saw = None].op = op
    BY DEF Request
  <2>3. calls[c] # Idle => [calls[c] EXCEPT !.mounted = FALSE].op = calls[c].op
    BY <1>1 DEF Handler
  <2>4. QED
    BY <1>1, <2>1, <2>2, <2>3
<1>3. ASSUME NEW d \in Call, NEW r, r = Idle \/ r.op # "poll", calls' = [calls EXCEPT ![d] = r]
      PROVE  calls'[c].op # "poll"
  BY <1>1, <1>3 DEF TypeOK
<1>4. CASE Back
  BY <1>2, <1>4 DEF Back, MountList
<1>5. ASSUME NEW yes \in BOOLEAN, Close(yes) PROVE calls'[c].op # "poll"
  <2>1. dialog \in Call /\ calls[dialog] \in Handler /\ calls[dialog].op # "poll"
    BY <1>5, NotIdle DEF Close, TypeOK, NoPolls
  <2> DEFINE r == IF yes THEN [calls[dialog] EXCEPT !.stage = "sent", !.saw = device] ELSE Idle
  <2>2. calls' = [calls EXCEPT ![dialog] = r]
    BY <1>5 DEF Close
  <2>3. r = Idle \/ r.op # "poll"
    BY <2>1 DEF Handler
  <2> HIDE DEF r
  <2>4. QED
    BY <1>3, <2>1, <2>2, <2>3
<1>6. ASSUME NEW d \in Device, OpenDevice(d) PROVE calls'[c].op # "poll"
  BY <1>2, <1>6 DEF OpenDevice
<1>7. ASSUME NEW e \in Call, NEW d, Jump(e, d) PROVE calls'[c].op # "poll"
  BY <1>3, <1>7 DEF Jump, Start, Request
<1>8. ASSUME NEW e \in Call, AskDelete(e) PROVE calls'[c].op # "poll"
  BY <1>3, <1>8 DEF AskDelete, Start, Request
<1>9. ASSUME NEW e \in Call, ReadDevices(e) \/ DeleteDevice(e) \/ Refuse(e) PROVE calls'[c].op # "poll"
  <2>1. PICK stage : calls' = [calls EXCEPT ![e].stage = stage, ![e].read = stored]
    BY <1>9 DEF ReadDevices, DeleteDevice, Refuse, Respond
  <2>2. calls[e] \in Handler /\ calls[e].op # "poll"
    BY <1>9, NotIdle DEF ReadDevices, DeleteDevice, Refuse, Sent, NoPolls
  <2> DEFINE r == [calls[e] EXCEPT !.stage = stage, !.read = stored]
  <2>3. calls' = [calls EXCEPT ![e] = r] /\ r.op = calls[e].op
    BY <2>1, <2>2 DEF Handler
  <2> HIDE DEF r
  <2>4. QED
    BY <1>3, <2>2, <2>3
<1>10. ASSUME NEW e \in Call, Drop(e) PROVE calls'[c].op # "poll"
  BY <1>3, <1>10 DEF Drop
<1>11. ASSUME NEW e \in Call, Reloads(e) PROVE calls'[c].op # "poll"
  BY <1>3, <1>11 DEF Reloads, ReadAgain, Request
<1>12. ASSUME NEW e \in Call, Deleted(e) PROVE calls'[c].op # "poll"
  BY <1>2, <1>10, <1>12 DEF Deleted, MountList
<1>13. ASSUME NEW e \in Call, NEW d \in Device, handleDelete(e, d) \/ handlePoll(e, d) \/ onDelete(e)
       PROVE  FALSE
  BY <1>13 DEF handleDelete, handlePoll, onDelete, OnList
<1>14. CASE UNCHANGED vars
  BY <1>1, <1>14 DEF vars
<1>15. ASSUME NEW e \in Call, onDelete(e) PROVE FALSE
  BY <1>15 DEF onDelete
<1>16. QED
  BY <1>4, <1>5, <1>6, <1>7, <1>8, <1>9, <1>10, <1>11, <1>12, <1>13, <1>14, <1>15
     DEF Next, ListAnswered, DetailAnswered, Refused

(* The requests go on and end.                                             *)
LEMMA Begun ==
    ASSUME IInv, TypeOK', NEW c \in Call, NEW op \in {"list", "detail", "delete", "poll"}, NEW d \in Device,
           App = "new" \/ op # "delete", Start(c, Request(op, d)), UNCHANGED <<dialog, deleting>>,
           route' \in Device \/ route' = route
    PROVE  IInv'
<1>1. /\ calls[c] = Idle /\ calls'[c] = Request(op, d)
      /\ \A e \in Call \ {c} : calls'[e] = calls[e]
  BY DEF Start, Free, IInv, TypeOK
<1>2. Request(op, d).op = op /\ Request(op, d).stage = "sent"
  BY DEF Request
<1>3. ~Asked(c) /\ ~Asked(c)' /\ ~Confirmed(c) /\ ~Confirmed(c)'
  BY <1>1, <1>2 DEF Asked, Confirmed
<1>4. QED
  BY <1>1, <1>3, OneHandler

LEMMA Responds ==
    ASSUME IInv, TypeOK', NEW c \in Call, ReadDevices(c) \/ DeleteDevice(c) \/ Refuse(c)
    PROVE  IInv'
<1>1. PICK stage \in {"ok", "refused"} : calls' = [calls EXCEPT ![c].stage = stage, ![c].read = stored]
  BY DEF ReadDevices, DeleteDevice, Refuse, Respond
<1>2. calls[c] \in Handler /\ calls[c] # Idle /\ calls[c].stage = "sent"
  BY NotIdle DEF ReadDevices, DeleteDevice, Refuse, Sent, IInv
<1>3. /\ calls'[c].op = calls[c].op /\ calls'[c].mounted = calls[c].mounted /\ calls'[c].stage = stage
      /\ \A d \in Call \ {c} : calls'[d] = calls[d]
  BY <1>1, <1>2 DEF IInv, TypeOK, Handler
<1>4. calls'[c] # Idle
  BY <1>2, <1>3 DEF Handler, Idle, None
<1>5. ~Asked(c) /\ ~Asked(c)' /\ (Confirmed(c)' <=> Confirmed(c))
  BY <1>2, <1>3, <1>4 DEF Asked, Confirmed
<1>6. UNCHANGED <<dialog, route, deleting>>
  BY DEF ReadDevices, DeleteDevice, Refuse
<1>7. QED
  BY <1>3, <1>5, <1>6, OneHandler

LEMMA Answering ==
    ASSUME IInv, NoPolls, TypeOK', NEW c \in Call,
           ListAnswered(c) \/ DetailAnswered(c) \/ Reloads(c) \/ Deleted(c) \/ Refused(c)
    PROVE  IInv'
<1>1. calls[c] \in Handler /\ calls[c] # Idle /\ calls[c].stage # "asked"
  BY NotIdle DEF ListAnswered, DetailAnswered, Reloads, Deleted, Refused, Done, IInv
<1>2. ~Asked(c)
  BY <1>1 DEF Asked
<1>3. ASSUME Drop(c)
      PROVE  /\ \A d \in Call \ {c} : calls'[d] = calls[d]
             /\ ~Asked(c)' /\ ~Confirmed(c)'
  BY <1>3 DEF Drop, Asked, Confirmed, IInv, TypeOK
<1>4. CASE ListAnswered(c) \/ DetailAnswered(c)
  <2>1. Drop(c) /\ UNCHANGED <<dialog, route, deleting>> /\ ~Confirmed(c)
    BY <1>4 DEF ListAnswered, DetailAnswered, Done, Confirmed
  <2>2. QED
    BY <1>2, <1>3, <2>1, OneHandler
<1>5. CASE Reloads(c)
  <2>1. UNCHANGED <<dialog, route, deleting>> /\ ~Confirmed(c)
    BY <1>5, DevicePagesAssumption DEF Reloads, FromList, Done, Confirmed
  <2>2. calls' = [calls EXCEPT ![c] = [Request("list", None) EXCEPT !.mounted = calls[c].mounted]]
    BY <1>5 DEF Reloads, ReadAgain
  <2>3. /\ calls'[c].op = "list" /\ calls'[c].stage = "sent"
        /\ \A d \in Call \ {c} : calls'[d] = calls[d]
    BY <2>2 DEF Request, IInv, TypeOK
  <2>4. ~Asked(c)' /\ ~Confirmed(c)'
    BY <2>3 DEF Asked, Confirmed
  <2>5. QED
    BY <1>2, <2>1, <2>3, <2>4, OneHandler
<1>6. CASE Deleted(c)
  <2>1. CASE route = List
    <3>1. Drop(c) /\ UNCHANGED <<dialog, route, deleting>>
      BY <1>6, <2>1 DEF Deleted
    <3>2. ~Confirmed(c)
      BY <2>1 DEF IInv, Single
    <3>3. QED
      BY <1>2, <1>3, <3>1, <3>2, OneHandler
  <2>2. CASE route # List
    <3>1. Leave({c}, Request("list", None)) /\ dialog' = dialog /\ deleting' = FALSE
      BY <1>6, <2>2 DEF Deleted, MountList, Mounted
    <3>2. \A d \in Call : d \in {c} => ~Asked(d)
      BY <1>2
    <3>3. QED
      BY <3>1, <3>2, Leaving
  <2>3. QED
    BY <2>1, <2>2
<1>7. CASE Refused(c)
  <2>1. Drop(c) /\ UNCHANGED <<dialog, route>> /\ deleting' = (deleting /\ ~calls[c].mounted)
    BY <1>7 DEF Refused, DeletingAfter
  <2>2. ASSUME deleting, calls[c].mounted PROVE Confirmed(c)
    <3>1. App = "legacy"
      BY <2>2 DEF IInv, DeletingTellsHandler
    <3>2. calls[c].op = "delete"
      BY <1>1, <1>7, <3>1 DEF Refused, Done, NoPolls
    <3>3. QED
      BY <1>1, <2>2, <3>1, <3>2 DEF Confirmed
  <2>3. Confirmed(c) => calls[c].mounted
    BY DEF Confirmed
  <2>4. deleting' <=> deleting /\ ~Confirmed(c)
    BY <2>1, <2>2, <2>3
  <2>5. QED
    BY <1>2, <1>3, <2>1, <2>4, OneHandler
<1>8. QED
  BY <1>4, <1>5, <1>6, <1>7

LEMMA InvariantStep ==
    ASSUME IInv, NoPolls, [Next]_vars
    PROVE  IInv'
<1>1. TypeOK' /\ TypeOK
  BY TypesStep DEF IInv
<1>2. CASE Back
  <2>1. Leave({}, Request("list", None)) /\ dialog' = dialog /\ deleting' = FALSE
    BY <1>2 DEF Back, MountList, Mounted
  <2>2. QED
    BY <1>1, <2>1, Leaving
<1>3. ASSUME NEW d \in Device, OpenDevice(d) PROVE IInv'
  <2>1. Leave({}, Request("detail", d)) /\ dialog' = dialog /\ deleting' = FALSE
    BY <1>3 DEF OpenDevice, Mounted
  <2>2. QED
    BY <1>1, <2>1, Leaving
<1>4. ASSUME NEW c \in Call, NEW d \in Device, Jump(c, d) PROVE IInv'
  BY <1>1, <1>4, Begun DEF Jump
<1>5. ASSUME NEW c \in Call, NEW d \in Device, handleDelete(c, d) \/ handlePoll(c, d) PROVE IInv'
  BY <1>1, <1>5, Begun DEF handleDelete, handlePoll, OnList
<1>6. ASSUME NEW c \in Call, onDelete(c) PROVE IInv'
  <2>1. route \in Device
    BY <1>6 DEF onDelete, OnDevice, IInv, TypeOK
  <2>2. QED
    BY <1>1, <1>6, <2>1, Begun DEF onDelete
<1>7. CASE UNCHANGED vars
  BY <1>7 DEF vars, IInv, TypeOK, AskersWait, DeletingTellsHandler, Single, Asked, Confirmed
<1>8. ASSUME NEW yes \in BOOLEAN, Close(yes) PROVE IInv'
  BY <1>1, <1>8, Closing
<1>9. ASSUME NEW c \in Call,
             \/ AskDelete(c) \/ ReadDevices(c) \/ DeleteDevice(c) \/ Refuse(c)
             \/ ListAnswered(c) \/ DetailAnswered(c) \/ Reloads(c) \/ Deleted(c) \/ Refused(c)
      PROVE  IInv'
  BY <1>1, <1>9, Asking, Responds, Answering
<1>10. QED
  BY <1>2, <1>3, <1>4, <1>5, <1>6, <1>7, <1>8, <1>9 DEF Next

LEMMA InvariantInit ==
    ASSUME Init
    PROVE  IInv /\ NoPolls
<1>1. PICK c \in Call : calls = [d \in Call |-> IF d = c THEN Request("list", None) ELSE Idle]
  BY DEF Init
<1>2. Request("list", None) \in Handler /\ Request("list", None).op = "list"
      /\ Request("list", None).stage = "sent"
  BY DEF Request, Handler, Init
<1>3. \A d \in Call : calls[d] # Idle => calls[d].op = "list" /\ calls[d].stage = "sent"
  BY <1>1, <1>2
<1>4. TypeOK
  BY <1>1, <1>2 DEF Init, TypeOK
<1>5. \A d \in Call : ~Asked(d) /\ ~Confirmed(d)
  BY <1>3 DEF Asked, Confirmed
<1>6. AskersWait
  BY <1>5, DevicePagesAssumption DEF Init, AskersWait, Asked
<1>7. DeletingTellsHandler
  BY <1>5 DEF Init, DeletingTellsHandler, Confirmed
<1>8. Single
  BY <1>5 DEF Init, Single
<1>9. QED
  BY <1>3, <1>4, <1>6, <1>7, <1>8 DEF IInv, NoPolls

LEMMA Inductive == Spec => [](IInv /\ NoPolls)
<1>1. Init => IInv /\ NoPolls
  BY InvariantInit
<1>2. IInv /\ NoPolls /\ [Next]_vars => IInv' /\ NoPolls'
  BY InvariantStep, NoPollsStep DEF IInv
<1>3. QED
  BY <1>1, <1>2, PTL DEF Spec

(* The dialog is answered to the handler that waits for it, and a handler  *)
(* that waits has its dialog, wherever the browser's buttons lead.         *)
THEOREM DialogHasItsHandler == Spec => []AskersWait
<1>1. IInv => AskersWait
  BY DEF IInv
<1>2. QED
  BY <1>1, Inductive, PTL

(* The legacy button is held exactly while a deletion confirmed on its     *)
(* page runs.                                                              *)
THEOREM DeleteButtonHeld == Spec => []DeletingTellsHandler
<1>1. IInv => DeletingTellsHandler
  BY DEF IInv
<1>2. QED
  BY <1>1, Inductive, PTL
-----------------------------------------------------------------------------
(* The device pages of the new application, where the history leads from   *)
(* no device page to another.  The device shown, and a device being read   *)
(* for the page mounted, are the device of the address; so a deletion that *)
(* begins on a device page is of the device shown.                         *)
NewInv ==
    /\ New!TypeOK
    /\ dialogNew = None
    /\ deviceShown # None => deviceShown = address
    /\ \A c \in Call : requests[c] # Idle =>
          /\ requests[c].op = "detail" /\ requests[c].mounted => requests[c].of = address
          /\ requests[c].op = "delete" /\ requests[c].saw # None => requests[c].of = requests[c].saw

(* What a single handler must satisfy, the page mounted being of "at".     *)
Shows(r, at) ==
    /\ r.op = "detail" /\ r.mounted => r.of = at
    /\ r.op = "delete" /\ r.saw # None => r.of = r.saw

LEMMA Names ==
    /\ New!None = None /\ New!List = List /\ New!Idle = Idle /\ New!Handler = Handler
    /\ None # List /\ None \notin Device /\ List \notin Device /\ None \notin Call
    /\ \A r \in Handler : r # Idle
<1>1. New!None = None /\ New!List = List /\ New!Idle = Idle
  BY DEF New!None, None, New!List, List, New!Idle, Idle
<1>2. New!Handler = Handler
  BY <1>1 DEF New!Handler, Handler
<1>3. \A r \in Handler : r # Idle
  BY DEF Handler, Idle, None
<1>4. QED
  BY <1>1, <1>2, <1>3, DevicePagesAssumption DEF None, List

(* One handler replaced while the page stays.                              *)
LEMMA NewReplaced ==
    ASSUME NewInv, NEW c \in Call, NEW r \in Handler \cup {Idle}, requests' = [requests EXCEPT ![c] = r],
           r # Idle => Shows(r, address), UNCHANGED <<history, dialogNew>>,
           rows' \subseteq Device, list' \subseteq Device, loadingNew' \in BOOLEAN, deletingNew' \in BOOLEAN,
           address' = address, deviceShown' \in {deviceShown, address} \cap (Device \cup {None})
    PROVE  NewInv'
<1>1. requests \in [Call -> Handler \cup {Idle}]
  BY Names DEF NewInv, New!TypeOK
<1>2. /\ requests' \in [Call -> Handler \cup {Idle}] /\ requests'[c] = r
      /\ \A d \in Call \ {c} : requests'[d] = requests[d]
  BY <1>1
<1>3. New!TypeOK'
  BY <1>2, Names DEF NewInv, New!TypeOK
<1>4. ASSUME NEW d \in Call, requests'[d] # Idle PROVE Shows(requests'[d], address)
  BY <1>2, <1>4 DEF NewInv, Shows
<1>5. deviceShown' # None => deviceShown' = address
  BY DEF NewInv
<1>6. QED
  BY <1>3, <1>4, <1>5 DEF NewInv, Shows

(* The page is left for another.                                           *)
LEMMA NewLeft ==
    ASSUME NewInv, NEW over, NEW op \in {"list", "detail"}, NEW d \in Device \cup {None},
           NEW at \in Device \cup {List}, op = "detail" => d = at,
           New!Mounted(at), New!Leave(over, New!Request(op, d)),
           history' \subseteq Device, UNCHANGED <<rows, dialogNew>>
    PROVE  NewInv'
<1> DEFINE a == [New!Request(op, d) EXCEPT !.saw = New!None]
<1>1. PICK n \in Call :
         requests' = [c \in Call |-> IF c = n THEN a
                                     ELSE IF New!Free(c) \/ c \in over THEN New!Idle
                                     ELSE [requests[c] EXCEPT !.mounted = FALSE]]
  BY DEF New!Leave
<1>2. a \in Handler /\ a.op = op /\ a.of = d
  BY Names DEF NewInv, New!TypeOK, New!Request, Handler
<1> HIDE DEF a
<1>3. requests \in [Call -> Handler \cup {Idle}]
  BY Names DEF NewInv, New!TypeOK
<1>4. ASSUME NEW c \in Call, requests[c] # Idle
      PROVE  /\ [requests[c] EXCEPT !.mounted = FALSE] \in Handler
             /\ Shows([requests[c] EXCEPT !.mounted = FALSE], at)
  <2>1. requests[c] \in Handler
    BY <1>3, <1>4
  <2>2. QED
    BY <1>4, <2>1 DEF NewInv, Handler, Shows
<1>5. Shows(a, at)
  BY <1>2 DEF Shows
<1>6. requests' \in [Call -> Handler \cup {Idle}]
  BY <1>1, <1>2, <1>4, Names DEF New!Free
<1>7. \A c \in Call : requests'[c] # Idle => Shows(requests'[c], at)
  BY <1>1, <1>4, <1>5, Names DEF New!Free
<1>8. /\ address' = at /\ deviceShown' = None /\ list' = {} /\ loadingNew' = TRUE /\ deletingNew' = FALSE
  BY Names DEF New!Mounted
<1>9. New!TypeOK'
  BY <1>6, <1>8, Names DEF NewInv, New!TypeOK
<1>10. QED
  BY <1>7, <1>8, <1>9, Names DEF NewInv, Shows

LEMMA NewRequest ==
    ASSUME NewInv, NEW op \in {"list", "detail", "delete", "poll"}, NEW d \in Device \cup {None}
    PROVE  /\ New!Request(op, d) \in Handler /\ New!Request(op, d).op = op
           /\ New!Request(op, d).of = d /\ New!Request(op, d).saw = deviceShown
BY Names DEF NewInv, New!TypeOK, New!Request, Handler

LEMMA NewKept ==
    ASSUME NewInv, NEW c \in Call, requests[c] # New!Idle, NEW stage \in {"asked", "sent", "ok", "refused"}
    PROVE  /\ requests[c] \in Handler /\ Shows(requests[c], address)
           /\ [requests[c] EXCEPT !.stage = stage, !.read = rows] \in Handler
           /\ Shows([requests[c] EXCEPT !.stage = stage, !.read = rows], address)
<1>1. requests[c] \in Handler /\ rows \subseteq Device
  BY Names DEF NewInv, New!TypeOK
<1>2. Shows(requests[c], address)
  BY Names DEF NewInv, Shows
<1>3. QED
  BY <1>1, <1>2 DEF Handler, Shows

LEMMA NewStep ==
    ASSUME NewInv, [New!Next]_(New!vars)
    PROVE  NewInv'
<1>0. /\ rows \subseteq Device /\ list \subseteq Device /\ loadingNew \in BOOLEAN /\ deletingNew \in BOOLEAN
      /\ deviceShown \in Device \cup {None} /\ address \in Device \cup {List} /\ history \subseteq Device
  BY Names DEF NewInv, New!TypeOK
<1>1. CASE UNCHANGED New!vars
  BY <1>1 DEF New!vars, NewInv, New!TypeOK
<1>2. CASE New!Back
  BY <1>0, <1>2, NewLeft, Names DEF New!Back, New!MountList
<1>3. ASSUME NEW yes \in BOOLEAN, New!Close(yes) PROVE NewInv'
  BY <1>3, Names DEF New!Close, NewInv
<1>4. ASSUME NEW d \in Device, New!OpenDevice(d) PROVE NewInv'
  BY <1>0, <1>4, NewLeft, Names DEF New!OpenDevice
<1>5. ASSUME NEW c \in Call, NEW d \in Device, New!Jump(c, d) PROVE FALSE
  BY <1>5 DEF New!Jump
<1>6. ASSUME NEW c \in Call, NEW d \in Device, New!handleDelete(c, d) \/ New!handlePoll(c, d) PROVE NewInv'
  <2>1. address = List /\ deviceShown = None
    BY <1>0, <1>6, Names DEF New!handleDelete, New!handlePoll, New!OnList, NewInv
  <2>2. \E op \in {"delete", "poll"} : requests' = [requests EXCEPT ![c] = New!Request(op, d)]
    BY <1>6 DEF New!handleDelete, New!handlePoll, New!Start
  <2>3. \A op \in {"delete", "poll"} : New!Request(op, d) \in Handler /\ Shows(New!Request(op, d), address)
    BY <2>1, NewRequest DEF Shows
  <2>4. QED
    BY <1>0, <1>6, <2>1, <2>2, <2>3, NewReplaced DEF New!handleDelete, New!handlePoll
<1>7. ASSUME NEW c \in Call, New!onDelete(c) PROVE NewInv'
  <2>1. address \in Device /\ deviceShown = address
    BY <1>0, <1>7, Names DEF New!onDelete, New!OnDevice, NewInv
  <2>2. New!Request("delete", address) \in Handler /\ Shows(New!Request("delete", address), address)
    BY <2>1, NewRequest DEF Shows
  <2>3. QED
    BY <1>0, <1>7, <2>1, <2>2, NewReplaced DEF New!onDelete, New!Start
<1>8. ASSUME NEW c \in Call, New!AskDelete(c) PROVE FALSE
  BY <1>8 DEF New!AskDelete
<1>9. ASSUME NEW c \in Call, New!ReadDevices(c) \/ New!DeleteDevice(c) \/ New!Refuse(c) PROVE NewInv'
  <2>1. PICK stage \in {"ok", "refused"} : /\ New!Respond(c, stage) /\ requests[c] # New!Idle
                                         /\ rows' \subseteq Device
    BY <1>0, <1>9 DEF New!ReadDevices, New!DeleteDevice, New!Refuse, New!Sent
  <2>2. requests' = [requests EXCEPT ![c] = [requests[c] EXCEPT !.stage = stage, !.read = rows]]
    BY <2>1 DEF New!Respond
  <2>3. UNCHANGED <<address, history, list, deviceShown, loadingNew, deletingNew, dialogNew>>
    BY <1>9 DEF New!ReadDevices, New!DeleteDevice, New!Refuse
  <2>4. QED
    BY <1>0, <2>1, <2>2, <2>3, NewKept, NewReplaced
<1>10. ASSUME NEW c \in Call, New!ListAnswered(c) PROVE NewInv'
  <2>1. requests[c] \in Handler /\ requests' = [requests EXCEPT ![c] = Idle]
    BY <1>10, NewKept, Names DEF New!ListAnswered, New!Done, New!Drop
  <2>2. list' \subseteq Device /\ loadingNew' \in BOOLEAN
    BY <1>0, <1>10, <2>1 DEF New!ListAnswered, Handler
  <2>3. QED
    BY <1>0, <1>10, <2>1, <2>2, NewReplaced DEF New!ListAnswered
<1>11. ASSUME NEW c \in Call, New!DetailAnswered(c) PROVE NewInv'
  <2>1. /\ requests[c] \in Handler /\ requests' = [requests EXCEPT ![c] = Idle]
        /\ Shows(requests[c], address) /\ requests[c].op = "detail"
    BY <1>11, NewKept, Names DEF New!DetailAnswered, New!Done, New!Drop
  <2>2. deviceShown' \in {deviceShown, address} \cap (Device \cup {None}) /\ loadingNew' \in BOOLEAN
    BY <1>0, <1>11, <2>1 DEF New!DetailAnswered, Handler, Shows
  <2>3. QED
    BY <1>0, <1>11, <2>1, <2>2, NewReplaced DEF New!DetailAnswered
<1>12. ASSUME NEW c \in Call, New!Reloads(c) PROVE NewInv'
  <2> DEFINE r == [New!Request("list", New!None) EXCEPT !.mounted = requests[c].mounted]
  <2>1. requests[c] \in Handler /\ requests' = [requests EXCEPT ![c] = r]
    BY <1>12, NewKept, Names DEF New!Reloads, New!Done, New!ReadAgain
  <2>2. r \in Handler /\ r.op = "list"
    BY <2>1, NewRequest, Names DEF Handler
  <2> HIDE DEF r
  <2>3. QED
    BY <1>0, <1>12, <2>1, <2>2, NewReplaced DEF New!Reloads, Shows
<1>13. ASSUME NEW c \in Call, New!Deleted(c) PROVE NewInv'
  <2>1. CASE address = New!List
    BY <1>0, <1>13, <2>1, NewReplaced, Names DEF New!Deleted, New!Drop
  <2>2. CASE address # New!List
    BY <1>0, <1>13, <2>2, NewLeft, Names DEF New!Deleted, New!MountList
  <2>3. QED
    BY <2>1, <2>2
<1>14. ASSUME NEW c \in Call, New!Refused(c) PROVE NewInv'
  <2>1. deletingNew' \in BOOLEAN
    BY <1>0, <1>14 DEF New!Refused, New!DeletingAfter
  <2>2. QED
    BY <1>0, <1>14, <2>1, NewReplaced, Names DEF New!Refused, New!Drop
<1>15. QED
  BY <1>1, <1>2, <1>3, <1>4, <1>5, <1>6, <1>7, <1>8, <1>9, <1>10, <1>11, <1>12, <1>13, <1>14 DEF New!Next

LEMMA NewStart ==
    ASSUME New!Init
    PROVE  NewInv
<1>1. PICK c \in Call : requests = [d \in Call |-> IF d = c THEN New!Request("list", New!None) ELSE New!Idle]
  BY DEF New!Init
<1>2. New!Request("list", New!None) \in Handler /\ New!Request("list", New!None).op = "list"
  BY Names DEF New!Init, New!Request, Handler
<1>3. requests \in [Call -> Handler \cup {Idle}] /\ \A d \in Call : requests[d] # Idle => requests[d].op = "list"
  BY <1>1, <1>2, Names
<1>4. QED
  BY <1>3, Names DEF New!Init, NewInv, New!TypeOK
-----------------------------------------------------------------------------
(* The page of incidents (module IncidentsPage), in the parts beside the   *)
(* device pages.  The handlers in progress have one of three shapes.       *)
Card(A)    == [id: A, status: {"open", "resolved"}, ack: BOOLEAN]
Load(A)    == [op: {"load"}, tab: {"open", "resolved", "all"}, phase: {"first", "second", "answered"},
               got: SUBSET Card(A), known: SUBSET A, submit: BOOLEAN]
Acting     == {"acknowledge", "resolve", "assign", "mute", "comment", "simulateDown", "simulateRecover"}
Action(A)  == [op: Acting, id: A \cup {0}, tab: {"open", "resolved", "all"}, done: BOOLEAN,
               reread: BOOLEAN]
Reading(A) == [op: {"timeline"}, id: A \cup {0}, submit: BOOLEAN]
Waits(A)   == Load(A) \cup Action(A) \cup Reading(A) \cup {[op |-> "none"]}

IncidentsTyped(A) ==
    /\ alerts \in [A -> [status: {"none", "active", "resolved"}, ack: BOOLEAN]]
    /\ tab \in {"open", "resolved", "all"}
    /\ timeline \in [A -> [open: BOOLEAN, loading: BOOLEAN, cached: BOOLEAN]]
    /\ incidents \subseteq Card(A)
    /\ submitting \in BOOLEAN
    /\ asked \in [kind: {"none", "assign", "mute", "comment"}, id: A \cup {0}]
    /\ draft \in [{"assign", "mute", "comment"} -> BOOLEAN]
    /\ handlers \in [Slot -> Waits(A)]

(* What a handler is tells its shape.                                      *)
LEMMA Shapes ==
    ASSUME NEW A, NEW r \in Waits(A)
    PROVE  /\ r.op = "load" => r \in Load(A)
           /\ r.op \in Acting => r \in Action(A)
           /\ r.op = "timeline" => r \in Reading(A)
           /\ "done" \in DOMAIN r => r \in Action(A)
BY DEF Waits, Load, Action, Reading, Acting

LEMMA Either ==
    ASSUME NEW x \in BOOLEAN, NEW y \in BOOLEAN
    PROVE  (x \/ y) \in BOOLEAN /\ (x /\ y) \in BOOLEAN /\ (~x) \in BOOLEAN
OBVIOUS

LEMMA RowChanged ==
    ASSUME NEW A, NEW f \in [A -> [open: BOOLEAN, loading: BOOLEAN, cached: BOOLEAN]], NEW a \in A,
           NEW x \in BOOLEAN, NEW y \in BOOLEAN
    PROVE  /\ [f EXCEPT ![a].open = x, ![a].loading = y]
                  \in [A -> [open: BOOLEAN, loading: BOOLEAN, cached: BOOLEAN]]
           /\ [f EXCEPT ![a].loading = x, ![a].cached = y]
                  \in [A -> [open: BOOLEAN, loading: BOOLEAN, cached: BOOLEAN]]
           /\ [f EXCEPT ![a].loading = x]
                  \in [A -> [open: BOOLEAN, loading: BOOLEAN, cached: BOOLEAN]]
OBVIOUS

(* A new load, and a handler that begins.                                  *)
LEMMA CardsBegin ==
    ASSUME IncidentsTyped(Alert), NEW t \in {"open", "resolved", "all"}, NEW s \in BOOLEAN
    PROVE  Cards!NewLoad(t, s) \in Load(Alert)
BY DEF IncidentsTyped, Cards!NewLoad, Cards!Existing, Load

LEMMA CardsStarted ==
    ASSUME IncidentsTyped(Alert), NEW c \in Slot, NEW op \in Acting, NEW a \in Alert \cup {0},
           Cards!Start(c, op, a)
    PROVE  handlers' \in [Slot -> Waits(Alert)] /\ handlers'[c] \in Action(Alert)
           /\ handlers'[c].op = op /\ \A d \in Slot \ {c} : handlers'[d] = handlers[d]
<1> DEFINE r == [op |-> op, id |-> a, tab |-> tab, done |-> FALSE, reread |-> a \in Alert /\ timeline[a].open]
<1>1. (a \in Alert /\ timeline[a].open) \in BOOLEAN
  BY DEF IncidentsTyped
<1>2. r \in Action(Alert) /\ r.op = op
  BY <1>1 DEF IncidentsTyped, Action
<1>3. handlers' = [handlers EXCEPT ![c] = r]
  BY DEF Cards!Start
<1> HIDE DEF r
<1>4. QED
  BY <1>2, <1>3 DEF IncidentsTyped, Waits

(* One handler replaced.                                                   *)
LEMMA CardsReplaced ==
    ASSUME IncidentsTyped(Alert), NEW c \in Slot, NEW r \in Waits(Alert), handlers' = [handlers EXCEPT ![c] = r]
    PROVE  /\ handlers' \in [Slot -> Waits(Alert)]
           /\ handlers'[c] = r /\ \A d \in Slot \ {c} : handlers'[d] = handlers[d]
BY DEF IncidentsTyped

(* Every step keeps the shapes.                                            *)
LEMMA CardsUserTyped ==
    ASSUME IncidentsTyped(Alert), Cards!User
    PROVE  IncidentsTyped(Alert)'
<1> USE IncidentsAssumption DEF Cards!IncidentsPageAssumption
<1>1. ASSUME NEW c \in Slot, NEW t \in CardTabs, Cards!SelectTab(c, t) PROVE IncidentsTyped(Alert)'
  <2>1. t \in {"open", "resolved", "all"} /\ Cards!NewLoad(t, FALSE) \in Waits(Alert)
    BY CardsBegin DEF Waits
  <2>2. handlers' \in [Slot -> Waits(Alert)]
    BY <1>1, <2>1, CardsReplaced DEF Cards!SelectTab, Cards!loadIncidents
  <2>3. QED
    BY <1>1, <2>1, <2>2 DEF Cards!SelectTab, IncidentsTyped
<1>2. ASSUME NEW c \in Slot, NEW a \in Alert, Cards!handleAcknowledge(c, a) \/ Cards!handleResolve(c, a)
      PROVE  IncidentsTyped(Alert)'
  <2>1. PICK op \in Acting : Cards!Start(c, op, a)
    BY <1>2 DEF Cards!handleAcknowledge, Cards!handleResolve, Acting
  <2>2. handlers' \in [Slot -> Waits(Alert)]
    BY <2>1, CardsStarted
  <2>3. UNCHANGED <<alerts, tab, incidents, submitting, asked, draft, timeline>>
    BY <1>2 DEF Cards!handleAcknowledge, Cards!handleResolve, Cards!page
  <2>4. QED
    BY <2>2, <2>3 DEF IncidentsTyped
<1>3. ASSUME NEW c \in Slot, NEW a \in Alert, Cards!toggleTimeline(c, a) PROVE IncidentsTyped(Alert)'
  <2>1. [op |-> "timeline", id |-> a, submit |-> FALSE] \in Waits(Alert)
    BY DEF Waits, Reading
  <2>2. handlers' \in [Slot -> Waits(Alert)]
    BY <1>3, <2>1, CardsReplaced DEF Cards!toggleTimeline, IncidentsTyped
  <2>3. timeline' \in [Alert -> [open: BOOLEAN, loading: BOOLEAN, cached: BOOLEAN]]
    <3> DEFINE load == ~timeline[a].open /\ ~timeline[a].cached
    <3>0. /\ timeline[a].open \in BOOLEAN /\ timeline[a].loading \in BOOLEAN
          /\ timeline[a].cached \in BOOLEAN
      BY DEF IncidentsTyped
    <3>1. (~timeline[a].open) \in BOOLEAN /\ (~timeline[a].cached) \in BOOLEAN
      BY <3>0, Either
    <3>2. load \in BOOLEAN
      BY <3>1, Either
    <3>3. timeline' = [timeline EXCEPT ![a].open = ~@, ![a].loading = @ \/ load]
      BY <1>3 DEF Cards!toggleTimeline
    <3> HIDE DEF load
    <3>4. (timeline[a].loading \/ load) \in BOOLEAN
      BY <3>0, <3>2, Either
    <3>5. QED
      BY <3>1, <3>3, <3>4, RowChanged DEF IncidentsTyped
  <2>4. QED
    BY <1>3, <2>2, <2>3 DEF Cards!toggleTimeline, IncidentsTyped
<1>4. ASSUME NEW c \in Slot, NEW op \in {"simulateDown", "simulateRecover"}, Cards!handleSimulate(c, op)
      PROVE  IncidentsTyped(Alert)'
  <2>1. handlers' \in [Slot -> Waits(Alert)]
    BY <1>4, CardsStarted DEF Cards!handleSimulate, Cards!NoAlert, Acting
  <2>2. QED
    BY <1>4, <2>1 DEF Cards!handleSimulate, Cards!page, IncidentsTyped
<1>5. ASSUME NEW c \in Slot, NEW k \in Cards!Dialogs, Cards!Submit(c, k) PROVE IncidentsTyped(Alert)'
  <2>1. k \in Acting /\ asked.id \in Alert \cup {0} /\ Cards!Start(c, k, asked.id)
    BY <1>5 DEF Cards!Submit, Cards!Dialogs, IncidentsTyped, Acting
  <2>2. handlers' \in [Slot -> Waits(Alert)]
    BY <2>1, CardsStarted
  <2>3. QED
    BY <1>5, <2>2 DEF Cards!Submit, IncidentsTyped
<1>6. ASSUME NEW k \in Cards!Dialogs, Cards!EditDraft(k) PROVE IncidentsTyped(Alert)'
  BY <1>6 DEF Cards!EditDraft, Cards!Dialogs, IncidentsTyped
<1>7. ASSUME NEW k \in Cards!Dialogs, NEW a \in Alert, Cards!OpenDialog(k, a) PROVE IncidentsTyped(Alert)'
  BY <1>7 DEF Cards!OpenDialog, Cards!Dialogs, IncidentsTyped
<1>8. ASSUME Cards!CancelDialog PROVE IncidentsTyped(Alert)'
  BY <1>8 DEF Cards!CancelDialog, Cards!Closed, Cards!NoAlert, IncidentsTyped
<1>9. QED
  BY <1>1, <1>2, <1>3, <1>4, <1>5, <1>6, <1>7, <1>8 DEF Cards!User

(* Alerts only begin, are acknowledged, and are resolved for good.         *)
AlertsMove ==
    \A a \in Alert : /\ alerts[a].status = "resolved" => alerts'[a].status = "resolved"
                     /\ alerts[a].status # "none" => alerts'[a].status # "none"

LEMMA AlertChanged ==
    ASSUME IncidentsTyped(Alert), NEW a,
           \/ alerts' = [alerts EXCEPT ![a].ack = TRUE]
           \/ alerts' = [alerts EXCEPT ![a].status = "resolved"]
           \/ alerts' = [alerts EXCEPT ![a].status = "active"] /\ alerts[a].status = "none"
    PROVE  /\ alerts' \in [Alert -> [status: {"none", "active", "resolved"}, ack: BOOLEAN]]
           /\ AlertsMove
<1>1. CASE a \notin Alert
  <2>1. alerts' = alerts
    BY <1>1 DEF IncidentsTyped
  <2>2. QED
    BY <2>1 DEF IncidentsTyped, AlertsMove
<1>2. CASE a \in Alert
  <2>1. alerts[a] \in [status: {"none", "active", "resolved"}, ack: BOOLEAN]
    BY <1>2 DEF IncidentsTyped
  <2>2. ASSUME NEW r \in [status: {"none", "active", "resolved"}, ack: BOOLEAN],
               alerts' = [alerts EXCEPT ![a] = r],
               alerts[a].status = "resolved" => r.status = "resolved",
               alerts[a].status # "none" => r.status # "none"
        PROVE  /\ alerts' \in [Alert -> [status: {"none", "active", "resolved"}, ack: BOOLEAN]]
               /\ AlertsMove
    BY <1>2, <2>2 DEF IncidentsTyped, AlertsMove
  <2>3. CASE alerts' = [alerts EXCEPT ![a].ack = TRUE]
    <3>1. alerts' = [alerts EXCEPT ![a] = [alerts[a] EXCEPT !.ack = TRUE]]
      BY <2>3
    <3>2. QED
      BY <2>1, <2>2, <3>1
  <2>4. CASE alerts' = [alerts EXCEPT ![a].status = "resolved"]
    <3>1. alerts' = [alerts EXCEPT ![a] = [alerts[a] EXCEPT !.status = "resolved"]]
      BY <2>4
    <3>2. QED
      BY <2>1, <2>2, <3>1
  <2>5. CASE alerts' = [alerts EXCEPT ![a].status = "active"] /\ alerts[a].status = "none"
    <3>1. alerts' = [alerts EXCEPT ![a] = [alerts[a] EXCEPT !.status = "active"]]
      BY <2>5
    <3>2. QED
      BY <2>1, <2>2, <2>5, <3>1
  <2>6. QED
    BY <2>3, <2>4, <2>5
<1>3. QED
  BY <1>1, <1>2

LEMMA CardsExecute ==
    ASSUME IncidentsTyped(Alert), NEW c \in Slot, Cards!Execute(c)
    PROVE  /\ IncidentsTyped(Alert)' /\ AlertsMove
           /\ \E r \in Action(Alert) : handlers' = [handlers EXCEPT ![c] = r]
<1>1. handlers[c] \in Action(Alert)
  BY Shapes DEF Cards!Execute, IncidentsTyped, Acting
<1> DEFINE r == [handlers[c] EXCEPT !.done = TRUE]
<1>2. r \in Action(Alert)
  BY <1>1 DEF Action
<1>3. handlers' = [handlers EXCEPT ![c] = r]
  BY DEF Cards!Execute
<1> HIDE DEF r
<1>4. handlers' \in [Slot -> Waits(Alert)]
  BY <1>2, <1>3 DEF IncidentsTyped, Waits
<1>5. \/ UNCHANGED alerts
      \/ \E a : alerts' = [alerts EXCEPT ![a].ack = TRUE]
      \/ \E a : alerts' = [alerts EXCEPT ![a].status = "resolved"]
      \/ \E n \in Cards!With("none") : alerts' = [alerts EXCEPT ![n].status = "active"]
  BY <1>1 DEF Cards!Execute, Action
<1>6. /\ alerts' \in [Alert -> [status: {"none", "active", "resolved"}, ack: BOOLEAN]]
      /\ AlertsMove
  <2>1. ASSUME NEW a, alerts' = [alerts EXCEPT ![a].ack = TRUE] PROVE /\ alerts' \in [Alert -> [status: {"none", "active", "resolved"}, ack: BOOLEAN]]
             /\ AlertsMove
    BY <2>1, AlertChanged
  <2>2. ASSUME NEW a, alerts' = [alerts EXCEPT ![a].status = "resolved"] PROVE /\ alerts' \in [Alert -> [status: {"none", "active", "resolved"}, ack: BOOLEAN]]
             /\ AlertsMove
    BY <2>2, AlertChanged
  <2>3. ASSUME NEW a \in Cards!With("none"), alerts' = [alerts EXCEPT ![a].status = "active"] PROVE /\ alerts' \in [Alert -> [status: {"none", "active", "resolved"}, ack: BOOLEAN]]
             /\ AlertsMove
    BY <2>3, AlertChanged DEF Cards!With
  <2>4. CASE UNCHANGED alerts
    BY <2>4 DEF IncidentsTyped, AlertsMove
  <2>5. QED
    BY <1>5, <2>1, <2>2, <2>3, <2>4
<1>7. QED
  BY <1>2, <1>3, <1>4, <1>6 DEF Cards!Execute, Cards!page, IncidentsTyped

LEMMA CardsPoller ==
    ASSUME IncidentsTyped(Alert), Cards!Poller
    PROVE  IncidentsTyped(Alert)' /\ AlertsMove /\ UNCHANGED <<incidents, handlers>>
<1>1. /\ alerts' \in [Alert -> [status: {"none", "active", "resolved"}, ack: BOOLEAN]]
      /\ AlertsMove
  BY AlertChanged DEF Cards!Poller
<1>2. QED
  BY <1>1 DEF Cards!Poller, Cards!page, IncidentsTyped

LEMMA CardsClear ==
    ASSUME IncidentsTyped(Alert), NEW k \in {"assign", "mute", "comment"}, Cards!Clear(k)
    PROVE  /\ asked' \in [kind: {"none", "assign", "mute", "comment"}, id: Alert \cup {0}]
           /\ draft' \in [{"assign", "mute", "comment"} -> BOOLEAN]
BY DEF IncidentsTyped, Cards!Clear, Cards!Closed, Cards!NoAlert

(* The handlers after their first await, and the reloads they begin.       *)
LEMMA CardsContinue ==
    ASSUME IncidentsTyped(Alert), NEW c \in Slot,
           \/ Cards!Acted(c) \/ Cards!Assigned(c) \/ Cards!Commented(c)
           \/ Cards!TimelineLoaded(c) \/ Cards!Failed(c)
    PROVE  /\ IncidentsTyped(Alert)' /\ UNCHANGED <<alerts, incidents>>
           /\ \E r \in Waits(Alert) :
                 /\ handlers' = [handlers EXCEPT ![c] = r]
                 /\ r.op # "load" \/ \E t, s : r = Cards!NewLoad(t, s)
<1>1. CASE Cards!Acted(c)
  <2>1. handlers[c] \in Action(Alert)
    BY <1>1, Shapes DEF Cards!Acted, IncidentsTyped, Acting
  <2>2. Cards!NewLoad(handlers[c].tab, FALSE) \in Waits(Alert)
    BY <2>1, CardsBegin DEF Action, Waits
  <2>3. handlers' \in [Slot -> Waits(Alert)]
    BY <1>1, <2>2 DEF Cards!Acted, IncidentsTyped
  <2>4. QED
    BY <1>1, <2>2, <2>3 DEF Cards!Acted, Cards!page, IncidentsTyped
<1>2. CASE Cards!Assigned(c)
  <2>1. handlers[c] \in Action(Alert) /\ handlers[c].op \in {"assign", "mute"}
    BY <1>2, Shapes DEF Cards!Assigned, IncidentsTyped, Acting
  <2>2. Cards!NewLoad(handlers[c].tab, TRUE) \in Waits(Alert)
    BY <2>1, CardsBegin DEF Action, Waits
  <2>3. handlers' \in [Slot -> Waits(Alert)]
    BY <1>2, <2>2 DEF Cards!Assigned, IncidentsTyped
  <2>4. /\ asked' \in [kind: {"none", "assign", "mute", "comment"}, id: Alert \cup {0}]
        /\ draft' \in [{"assign", "mute", "comment"} -> BOOLEAN]
    BY <1>2, <2>1, CardsClear DEF Cards!Assigned
  <2>5. QED
    BY <1>2, <2>2, <2>3, <2>4 DEF Cards!Assigned, IncidentsTyped
<1>3. CASE Cards!Commented(c)
  <2>1. handlers[c] \in Action(Alert)
    BY <1>3, Shapes DEF Cards!Commented, IncidentsTyped, Acting
  <2>2. CASE handlers[c].reread
    <3>1. /\ timeline' = [timeline EXCEPT ![handlers[c].id].loading = TRUE]
          /\ UNCHANGED <<alerts, tab, incidents, asked, draft, submitting>>
      BY <1>3, <2>2 DEF Cards!Commented
    <3>2. timeline' \in [Alert -> [open: BOOLEAN, loading: BOOLEAN, cached: BOOLEAN]]
      BY <3>1 DEF IncidentsTyped
    <3>3. [op |-> "timeline", id |-> handlers[c].id, submit |-> TRUE] \in Waits(Alert)
      BY <2>1 DEF Action, Waits, Reading
    <3>4. handlers' = [handlers EXCEPT ![c] = [op |-> "timeline", id |-> handlers[c].id, submit |-> TRUE]]
      BY <1>3, <2>2 DEF Cards!Commented
    <3>5. handlers' \in [Slot -> Waits(Alert)]
      BY <3>3, <3>4 DEF IncidentsTyped
    <3>6. QED
      BY <3>1, <3>2, <3>3, <3>4, <3>5 DEF IncidentsTyped
  <2>3. CASE ~handlers[c].reread
    <3>1. Cards!Clear("comment") /\ submitting' = FALSE /\ handlers' = [handlers EXCEPT ![c] = Cards!Idle]
          /\ UNCHANGED <<alerts, tab, incidents, timeline>>
      BY <1>3, <2>3 DEF Cards!Commented
    <3>2. Cards!Idle \in Waits(Alert) /\ Cards!Idle.op # "load"
      BY DEF Cards!Idle, Waits
    <3>3. handlers' \in [Slot -> Waits(Alert)]
      BY <3>1, <3>2 DEF IncidentsTyped
    <3>4. QED
      BY <3>1, <3>2, <3>3, CardsClear DEF IncidentsTyped
  <2>4. QED
    BY <2>2, <2>3
<1>4. CASE Cards!TimelineLoaded(c)
  <2>1. handlers[c] \in Reading(Alert) /\ Cards!Idle \in Waits(Alert) /\ Cards!Idle.op # "load"
    BY <1>4, Shapes DEF Cards!TimelineLoaded, Cards!Idle, IncidentsTyped, Waits
  <2>2. handlers' \in [Slot -> Waits(Alert)]
    BY <1>4, <2>1 DEF Cards!TimelineLoaded, IncidentsTyped
  <2>3. /\ submitting' \in BOOLEAN
        /\ asked' \in [kind: {"none", "assign", "mute", "comment"}, id: Alert \cup {0}]
        /\ draft' \in [{"assign", "mute", "comment"} -> BOOLEAN]
    BY <1>4, CardsClear DEF Cards!TimelineLoaded, IncidentsTyped
  <2>4. timeline' \in [Alert -> [open: BOOLEAN, loading: BOOLEAN, cached: BOOLEAN]]
    <3> DEFINE a == handlers[c].id
    <3>1. PICK ok \in {TRUE, ~Faults} :
             timeline' = [timeline EXCEPT ![a].loading = FALSE, ![a].cached = @ \/ ok]
      BY <1>4 DEF Cards!TimelineLoaded
    <3>2. CASE a \in Alert
      <4>1. ok \in BOOLEAN /\ timeline[a].cached \in BOOLEAN
        BY <3>2, Either, IncidentsAssumption DEF Cards!IncidentsPageAssumption, IncidentsTyped
      <4>2. (timeline[a].cached \/ ok) \in BOOLEAN
        BY <4>1, Either
      <4> DEFINE y == timeline[a].cached \/ ok
      <4>3. timeline' = [timeline EXCEPT ![a].loading = FALSE, ![a].cached = y]
        BY <3>1
      <4> HIDE DEF y, a
      <4>4. y \in BOOLEAN
        BY <4>2 DEF y
      <4>5. timeline \in [Alert -> [open: BOOLEAN, loading: BOOLEAN, cached: BOOLEAN]]
        BY DEF IncidentsTyped
      <4>6. QED
        BY <3>2, <4>3, <4>4, <4>5, RowChanged
    <3>3. CASE a \notin Alert
      BY <3>1, <3>3 DEF IncidentsTyped
    <3>4. QED
      BY <3>2, <3>3
  <2>5. QED
    BY <1>4, <2>1, <2>2, <2>3, <2>4 DEF Cards!TimelineLoaded, IncidentsTyped
<1>5. CASE Cards!Failed(c)
  <2>1. Cards!Idle \in Waits(Alert) /\ Cards!Idle.op # "load"
    BY DEF Cards!Idle, Waits
  <2>2. handlers' \in [Slot -> Waits(Alert)]
    BY <1>5, <2>1 DEF Cards!Failed, IncidentsTyped
  <2>3. submitting' \in BOOLEAN
    BY <1>5 DEF Cards!Failed, IncidentsTyped
  <2>4. QED
    BY <1>5, <2>1, <2>2, <2>3 DEF Cards!Failed, IncidentsTyped
<1>6. QED
  BY <1>1, <1>2, <1>3, <1>4, <1>5

(* The answers of a load, and its end.                                     *)
ShownAs(status) == IF status = "active" THEN "open" ELSE "resolved"

(* The cards of a full answer of this status are all newer than an alert.  *)
Full(cards, status, a) ==
    Cards!Cardinality(Cards!Shown(cards, status)) = Limit /\ \A b \in Cards!Shown(cards, status) : a < b

(* An answer holds rows of its status, shown as such, and leaves out only  *)
(* what is older than a full answer.                                       *)
LEMMA CardsListed ==
    ASSUME IncidentsTyped(Alert), NEW status \in {"active", "resolved"}, NEW some \in Cards!Answers(status)
    PROVE  /\ Cards!Listed(some) \subseteq Card(Alert)
           /\ \A i \in Cards!Listed(some) : alerts[i.id].status = status /\ i.status = ShownAs(status)
           /\ \A a \in Alert : alerts[a].status = status =>
                 a \in {i.id : i \in Cards!Listed(some)} \/ Full(Cards!Listed(some), ShownAs(status), a)
<1>1. ASSUME NEW a \in some
      PROVE  /\ Cards!mapIncident(a) \in Card(Alert) /\ Cards!mapIncident(a).id = a
             /\ Cards!mapIncident(a).status = ShownAs(status) /\ alerts[a].status = status
             /\ Cards!mapIncident(a) \in Cards!Listed(some)
  <2>1. a \in Alert /\ alerts[a].status = status
    BY DEF Cards!Answers, Cards!With
  <2>2. alerts[a] \in [status: {"none", "active", "resolved"}, ack: BOOLEAN]
    BY <2>1 DEF IncidentsTyped
  <2>3. QED
    BY <2>1, <2>2 DEF Cards!mapIncident, Card, Cards!Listed, ShownAs
<1>2. \A i \in Cards!Listed(some) : \E a \in some : i = Cards!mapIncident(a)
  BY DEF Cards!Listed
<1>3. Cards!Shown(Cards!Listed(some), ShownAs(status)) = some
  <2>1. \A a \in some : a \in Cards!Shown(Cards!Listed(some), ShownAs(status))
    BY <1>1 DEF Cards!Shown
  <2>2. \A a \in Cards!Shown(Cards!Listed(some), ShownAs(status)) : a \in some
    BY <1>1, <1>2 DEF Cards!Shown
  <2>3. QED
    BY <2>1, <2>2
<1>4. ASSUME NEW a \in Alert, alerts[a].status = status, a \notin some
      PROVE  Full(Cards!Listed(some), ShownAs(status), a)
  <2>0. a \in Cards!With(status) \ some
    BY <1>4 DEF Cards!With
  <2>1. Cards!Cardinality(some) = Limit /\ \A b \in some : a < b
    BY <2>0 DEF Cards!Answers
  <2> DEFINE shown == Cards!Shown(Cards!Listed(some), ShownAs(status))
  <2>2. shown = some
    BY <1>3
  <2> HIDE DEF shown
  <2>3. Cards!Cardinality(shown) = Limit /\ \A b \in shown : a < b
    BY <2>1, <2>2
  <2>4. QED
    BY <2>3 DEF Full, shown
<1>5. QED
  BY <1>1, <1>2, <1>4

(* The answer that follows leaves the open cards as they are.              *)
LEMMA FullStays ==
    ASSUME NEW cards, NEW others, \A i \in others : i.status = "resolved", NEW a, Full(cards, "open", a)
    PROVE  Full(cards \cup others, "open", a)
<1>1. Cards!Shown(cards \cup others, "open") = Cards!Shown(cards, "open")
  BY DEF Cards!Shown
<1>2. QED
  BY <1>1 DEF Full

LEMMA FullAdded ==
    ASSUME NEW cards, NEW others, \A i \in cards : i.status = "open", NEW a, Full(others, "resolved", a)
    PROVE  Full(cards \cup others, "resolved", a)
<1>1. Cards!Shown(cards \cup others, "resolved") = Cards!Shown(others, "resolved")
  BY DEF Cards!Shown
<1>2. QED
  BY <1>1 DEF Full

LEMMA CardsAnswerFirst ==
    ASSUME IncidentsTyped(Alert), NEW c \in Slot, Cards!AnswerFirst(c)
    PROVE  /\ IncidentsTyped(Alert)' /\ UNCHANGED <<alerts, incidents>>
           /\ \A d \in Slot \ {c} : handlers'[d] = handlers[d]
           /\ handlers'[c] \in Load(Alert) /\ handlers'[c].tab = handlers[c].tab
           /\ handlers'[c].known = handlers[c].known /\ handlers'[c].submit = handlers[c].submit
           /\ \E some \in Cards!Answers(Cards!FirstQuery(handlers[c].tab)) : handlers'[c].got = Cards!Listed(some)
           /\ handlers[c].tab = "all" => handlers'[c].phase = "second"
<1>1. handlers[c] \in Load(Alert)
  BY Shapes DEF Cards!AnswerFirst, IncidentsTyped
<1>0. PICK some \in Cards!Answers(Cards!FirstQuery(handlers[c].tab)) : \E p \in {"second", "answered"} :
         /\ handlers' = [handlers EXCEPT ![c].got = Cards!Listed(some), ![c].phase = p]
         /\ handlers[c].tab = "all" => p = "second"
  BY DEF Cards!AnswerFirst
<1> DEFINE cards == Cards!Listed(some)
<1>2. cards \subseteq Card(Alert)
  BY CardsListed DEF Cards!FirstQuery
<1>3. \E p \in {"second", "answered"} :
         /\ handlers' = [handlers EXCEPT ![c].got = cards, ![c].phase = p]
         /\ handlers[c].tab = "all" => p = "second"
  BY <1>0
<1> HIDE DEF cards
<1>4. PICK p \in {"second", "answered"} :
         /\ handlers' = [handlers EXCEPT ![c] = [handlers[c] EXCEPT !.got = cards, !.phase = p]]
         /\ handlers[c].tab = "all" => p = "second"
  BY <1>3
<1> DEFINE r == [handlers[c] EXCEPT !.got = cards, !.phase = p]
<1>5. /\ r \in Load(Alert) /\ r.tab = handlers[c].tab /\ r.known = handlers[c].known
      /\ r.submit = handlers[c].submit /\ r.got = cards /\ r.phase = p
  BY <1>1, <1>2 DEF Load
<1> HIDE DEF r
<1>6. handlers' \in [Slot -> Waits(Alert)] /\ handlers'[c] = r /\ \A d \in Slot \ {c} : handlers'[d] = handlers[d]
  BY <1>4, <1>5 DEF IncidentsTyped, Waits, r
<1>7. QED
  BY <1>4, <1>5, <1>6 DEF Cards!AnswerFirst, Cards!page, IncidentsTyped, cards

LEMMA CardsAnswerSecond ==
    ASSUME IncidentsTyped(Alert), NEW c \in Slot, Cards!AnswerSecond(c)
    PROVE  /\ IncidentsTyped(Alert)' /\ UNCHANGED <<alerts, incidents>>
           /\ \A d \in Slot \ {c} : handlers'[d] = handlers[d]
           /\ handlers'[c] \in Load(Alert) /\ handlers'[c].tab = handlers[c].tab
           /\ handlers'[c].known = handlers[c].known /\ handlers'[c].submit = handlers[c].submit
           /\ handlers[c] \in Load(Alert) /\ handlers[c].phase = "second"
           /\ handlers'[c].phase = "answered"
           /\ IF handlers[c].tab = "all"
              THEN \E some \in Cards!Answers("resolved") : handlers'[c].got = handlers[c].got \cup Cards!Listed(some)
              ELSE \A i \in handlers'[c].got : i.status = "open"
<1>1. handlers[c] \in Load(Alert) /\ handlers[c].phase = "second"
  BY Shapes DEF Cards!AnswerSecond, IncidentsTyped
<1>2. \A some \in Cards!Answers("resolved") : Cards!Listed(some) \subseteq Card(Alert)
  BY CardsListed
<1>3. Cards!Fallback \subseteq Card(Alert) /\ \A i \in Cards!Fallback : i.status = "open"
  <2>1. ASSUME NEW i \in Cards!Fallback PROVE i \in Card(Alert) /\ i.status = "open"
    <3>1. PICK a \in Alert : i = [id |-> a, status |-> "open", ack |-> TRUE]
      BY DEF Cards!Fallback, Cards!With
    <3>2. QED
      BY <3>1 DEF Card
  <2>2. QED
    BY <2>1
<1>4. PICK got \in SUBSET Card(Alert) :
         /\ handlers' = [handlers EXCEPT ![c].got = got, ![c].phase = "answered"]
         /\ IF handlers[c].tab = "all"
            THEN \E some \in Cards!Answers("resolved") : got = handlers[c].got \cup Cards!Listed(some)
            ELSE \A i \in got : i.status = "open"
  <2>1. PICK got \in (IF handlers[c].tab = "all"
                      THEN {handlers[c].got \cup Cards!Listed(some) : some \in Cards!Answers("resolved")}
                      ELSE {Cards!Fallback})
                     \cup (IF Faults /\ handlers[c].tab = "open" THEN {{}} ELSE {}) :
           handlers' = [handlers EXCEPT ![c].got = got, ![c].phase = "answered"]
    BY DEF Cards!AnswerSecond, Cards!SecondQuery
  <2>2. \/ /\ handlers[c].tab = "all"
           /\ \E some \in Cards!Answers("resolved") : got = handlers[c].got \cup Cards!Listed(some)
        \/ handlers[c].tab # "all" /\ got = Cards!Fallback
        \/ handlers[c].tab = "open" /\ got = {}
    BY <2>1
  <2>3. got \in SUBSET Card(Alert)
    BY <1>1, <1>2, <1>3, <2>2 DEF Load
  <2>4. IF handlers[c].tab = "all"
        THEN \E some \in Cards!Answers("resolved") : got = handlers[c].got \cup Cards!Listed(some)
        ELSE \A i \in got : i.status = "open"
    BY <1>3, <2>2
  <2>5. QED
    BY <2>1, <2>3, <2>4
<1> DEFINE r == [handlers[c] EXCEPT !.got = got, !.phase = "answered"]
<1>5. handlers' = [handlers EXCEPT ![c] = r]
  BY <1>4
<1>6. /\ r \in Load(Alert) /\ r.tab = handlers[c].tab /\ r.known = handlers[c].known
      /\ r.submit = handlers[c].submit /\ r.got = got /\ r.phase = "answered"
  BY <1>1, <1>4 DEF Load
<1> HIDE DEF r
<1>7. /\ handlers' \in [Slot -> Waits(Alert)] /\ handlers'[c] = r
      /\ \A d \in Slot \ {c} : handlers'[d] = handlers[d]
  BY <1>5, <1>6 DEF IncidentsTyped, Waits
<1>8. IF handlers[c].tab = "all"
      THEN \E some \in Cards!Answers("resolved") : handlers'[c].got = handlers[c].got \cup Cards!Listed(some)
      ELSE \A i \in handlers'[c].got : i.status = "open"
  BY <1>4, <1>6, <1>7
<1>9. QED
  BY <1>1, <1>6, <1>7, <1>8 DEF Cards!AnswerSecond, Cards!page, IncidentsTyped

LEMMA CardsLoaded ==
    ASSUME IncidentsTyped(Alert), NEW c \in Slot, Cards!DeliverLoad(c) \/ Cards!FailLoad(c)
    PROVE  /\ IncidentsTyped(Alert)' /\ UNCHANGED alerts
           /\ handlers' = [handlers EXCEPT ![c] = Cards!Idle]
           /\ handlers[c] \in Load(Alert) /\ incidents' \in {incidents, handlers[c].got}
<1>1. handlers[c] \in Load(Alert) /\ Cards!Idle \in Waits(Alert)
  BY Shapes DEF Cards!DeliverLoad, Cards!FailLoad, Cards!Idle, IncidentsTyped, Waits
<1>2. PICK shown \in BOOLEAN : Cards!Loaded(c, shown)
  BY DEF Cards!DeliverLoad, Cards!FailLoad
<1>3. handlers' = [handlers EXCEPT ![c] = Cards!Idle] /\ handlers' \in [Slot -> Waits(Alert)]
  BY <1>1, <1>2 DEF Cards!Loaded, IncidentsTyped
<1>4. incidents' \in {incidents, handlers[c].got} /\ incidents' \subseteq Card(Alert)
  BY <1>1, <1>2 DEF Cards!Loaded, IncidentsTyped, Load
<1>5. submitting' \in BOOLEAN
  BY <1>2 DEF Cards!Loaded, IncidentsTyped
<1>6. QED
  BY <1>1, <1>2, <1>3, <1>4, <1>5 DEF Cards!Loaded, IncidentsTyped
-----------------------------------------------------------------------------
(* What is true of the cards shown and of those on their way: a resolved   *)
(* one is of a resolved alert; and of the loads of the tab "all": the      *)
(* alerts that existed when it began exist, and each is among the cards    *)
(* of the first answer or resolved, and among those of both answers, but   *)
(* for those that a full answer left out.                                  *)
Over(cards) == \A i \in cards : i.status = "resolved" => alerts[i.id].status = "resolved"
Among(cards) == {i.id : i \in cards}
LoadTrue(r) ==
    /\ Over(r.got)
    /\ r.tab = "all" =>
          /\ \A a \in r.known : alerts[a].status # "none"
          /\ r.phase = "second" =>
                /\ \A i \in r.got : i.status = "open"
                /\ \A a \in r.known : a \in Among(r.got) \/ alerts[a].status = "resolved" \/ Full(r.got, "open", a)
          /\ r.phase = "answered" =>
                \A a \in r.known : a \in Among(r.got) \/ \E s \in {"open", "resolved"} : Full(r.got, s, a)
CardsTrue == Over(incidents) /\ \A c \in Slot : handlers[c].op = "load" => LoadTrue(handlers[c])

(* What was true of a load stays true, whatever happens to the alerts.     *)
LEMMA LoadStaysTrue ==
    ASSUME AlertsMove, NEW r \in Load(Alert), LoadTrue(r)
    PROVE  LoadTrue(r)'
BY DEF AlertsMove, LoadTrue, Over, Among, Load, Card

LEMMA OverStays ==
    ASSUME AlertsMove, NEW cards \in SUBSET Card(Alert), Over(cards)
    PROVE  Over(cards)'
BY DEF AlertsMove, Over, Card

LEMMA NewLoadTrue ==
    ASSUME IncidentsTyped(Alert), NEW t, NEW s
    PROVE  LoadTrue(Cards!NewLoad(t, s))
BY DEF LoadTrue, Over, Cards!NewLoad, Cards!Existing

(* An invariant step: the handlers keep what they hold, or hold something  *)
(* else that is true, and the page shows what it showed or what one held.  *)
LEMMA CardsKept ==
    ASSUME IncidentsTyped(Alert), IncidentsTyped(Alert)', CardsTrue, AlertsMove,
           \A d \in Slot : handlers'[d] = handlers[d] \/ (handlers'[d].op = "load" => LoadTrue(handlers[d])'),
           incidents' = incidents
             \/ \E c \in Slot : handlers[c].op = "load" /\ incidents' = handlers[c].got
    PROVE  CardsTrue'
<1>1. Over(incidents)'
  <2>1. CASE incidents' = incidents
    <3>1. Over(incidents) /\ incidents \in SUBSET Card(Alert)
      BY DEF CardsTrue, IncidentsTyped
    <3>2. QED
      BY <2>1, <3>1 DEF AlertsMove, Over, Card
  <2>2. ASSUME NEW c \in Slot, handlers[c].op = "load", incidents' = handlers[c].got PROVE Over(incidents)'
    <3>1. Over(handlers[c].got) /\ handlers[c].got \in SUBSET Card(Alert)
      BY <2>2, Shapes DEF CardsTrue, LoadTrue, IncidentsTyped, Load
    <3>2. QED
      BY <2>2, <3>1 DEF AlertsMove, Over, Card
  <2>3. QED
    BY <2>1, <2>2
<1>2. ASSUME NEW d \in Slot, handlers'[d].op = "load" PROVE LoadTrue(handlers[d])'
  <2>1. CASE handlers'[d] = handlers[d]
    <3>1. handlers[d] \in Load(Alert) /\ LoadTrue(handlers[d])
      BY <1>2, <2>1, Shapes DEF CardsTrue, IncidentsTyped
    <3>2. QED
      BY <2>1, <3>1 DEF AlertsMove, LoadTrue, Over, Among, Load, Card
  <2>2. QED
    BY <1>2, <2>1
<1>3. QED
  BY <1>1, <1>2 DEF CardsTrue

(* No handler begins or goes on, or one does with no load or a new one.    *)
CardsBegun == \/ handlers' = handlers
              \/ \E c \in Slot : \E r :
                    /\ handlers' = [handlers EXCEPT ![c] = r]
                    /\ r.op # "load" \/ \E t, s : r = Cards!NewLoad(t, s)

LEMMA CardsBegunBy ==
    ASSUME NEW c \in Slot, NEW r, handlers' = [handlers EXCEPT ![c] = r],
           r.op # "load" \/ \E t, s : r = Cards!NewLoad(t, s)
    PROVE  CardsBegun
BY DEF CardsBegun

LEMMA CardsChanged ==
    ASSUME IncidentsTyped(Alert), UNCHANGED alerts, CardsBegun
    PROVE  \A d \in Slot : handlers'[d] = handlers[d] \/ (handlers'[d].op = "load" => LoadTrue(handlers[d])')
<1>1. ASSUME NEW c \in Slot, NEW r, handlers' = [handlers EXCEPT ![c] = r], NEW t, NEW s, r = Cards!NewLoad(t, s)
      PROVE  LoadTrue(handlers[c])'
  <2>1. handlers'[c] = r /\ LoadTrue(r)
    BY <1>1, NewLoadTrue DEF IncidentsTyped
  <2>2. QED
    BY <2>1 DEF LoadTrue, Over, Among
<1>2. QED
  BY <1>1 DEF IncidentsTyped, CardsBegun

LEMMA CardsTrueStep ==
    ASSUME IncidentsTyped(Alert), CardsTrue, [Cards!Next]_(Cards!vars)
    PROVE  IncidentsTyped(Alert)' /\ CardsTrue'
<1>1. CASE UNCHANGED Cards!vars
  BY <1>1 DEF Cards!vars, Cards!page, IncidentsTyped, CardsTrue, Over, LoadTrue, Among
<1>2. CASE Cards!User
  <2>1. IncidentsTyped(Alert)'
    BY <1>2, CardsUserTyped
  <2>2. UNCHANGED <<alerts, incidents>>
    BY <1>2 DEF Cards!User, Cards!SelectTab, Cards!handleAcknowledge, Cards!handleResolve, Cards!toggleTimeline,
                Cards!handleSimulate, Cards!Submit, Cards!EditDraft, Cards!OpenDialog, Cards!CancelDialog, Cards!page
  <2>3. AlertsMove
    BY <2>2 DEF AlertsMove
  <2>4. CardsBegun
    <3>1. ASSUME NEW c \in Slot, NEW op, NEW x, op # "load", Cards!Start(c, op, x) PROVE CardsBegun
      <4> DEFINE r == [op |-> op, id |-> x, tab |-> tab, done |-> FALSE, reread |-> x \in Alert /\ timeline[x].open]
      <4>1. r.op # "load" /\ handlers' = [handlers EXCEPT ![c] = r]
        BY <3>1 DEF Cards!Start
      <4>2. QED
        BY <4>1, CardsBegunBy
    <3>2. ASSUME NEW c \in Slot, NEW t, Cards!SelectTab(c, t) PROVE CardsBegun
      BY <3>2, CardsBegunBy DEF Cards!SelectTab, Cards!loadIncidents
    <3>3. ASSUME NEW c \in Slot, NEW x, Cards!handleAcknowledge(c, x) \/ Cards!handleResolve(c, x) PROVE CardsBegun
      BY <3>1, <3>3 DEF Cards!handleAcknowledge, Cards!handleResolve
    <3>4. ASSUME NEW c \in Slot, NEW x, Cards!toggleTimeline(c, x) PROVE CardsBegun
      <4>1. [op |-> "timeline", id |-> x, submit |-> FALSE].op # "load"
        OBVIOUS
      <4>2. QED
        BY <3>4, <4>1 DEF Cards!toggleTimeline, CardsBegun
    <3>5. ASSUME NEW c \in Slot, NEW op \in {"simulateDown", "simulateRecover"}, Cards!handleSimulate(c, op)
          PROVE  CardsBegun
      BY <3>1, <3>5 DEF Cards!handleSimulate
    <3>6. ASSUME NEW c \in Slot, NEW k \in Cards!Dialogs, Cards!Submit(c, k) PROVE CardsBegun
      BY <3>1, <3>6 DEF Cards!Submit, Cards!Dialogs
    <3>7. ASSUME NEW k, NEW x, Cards!EditDraft(k) \/ Cards!OpenDialog(k, x) \/ Cards!CancelDialog PROVE CardsBegun
      BY <3>7 DEF Cards!EditDraft, Cards!OpenDialog, Cards!CancelDialog, CardsBegun
    <3>8. QED
      BY <1>2, <3>2, <3>3, <3>4, <3>5, <3>6, <3>7 DEF Cards!User
  <2>5. QED
    BY <2>1, <2>2, <2>3, <2>4, CardsKept, CardsChanged
<1>3. CASE Cards!Poller
  <2>1. IncidentsTyped(Alert)' /\ AlertsMove /\ UNCHANGED <<incidents, handlers>>
    BY <1>3, CardsPoller
  <2>2. QED
    BY <2>1, CardsKept
<1>4. ASSUME NEW c \in Slot, Cards!Execute(c) PROVE IncidentsTyped(Alert)' /\ CardsTrue'
  <2>1. PICK r \in Action(Alert) : handlers' = [handlers EXCEPT ![c] = r]
    BY <1>4, CardsExecute
  <2>2. \A d \in Slot : handlers'[d] = handlers[d] \/ handlers'[d].op # "load"
    BY <2>1 DEF IncidentsTyped, Action, Acting
  <2>3. IncidentsTyped(Alert)' /\ AlertsMove /\ UNCHANGED incidents
    BY <1>4, CardsExecute DEF Cards!Execute, Cards!page
  <2>4. QED
    BY <2>2, <2>3, CardsKept
<1>5. ASSUME NEW c \in Slot,
             \/ Cards!Acted(c) \/ Cards!Assigned(c) \/ Cards!Commented(c)
             \/ Cards!TimelineLoaded(c) \/ Cards!Failed(c)
      PROVE  IncidentsTyped(Alert)' /\ CardsTrue'
  <2>1. IncidentsTyped(Alert)' /\ UNCHANGED <<alerts, incidents>> /\ CardsBegun
    BY <1>5, CardsContinue DEF CardsBegun
  <2>2. AlertsMove
    BY <2>1 DEF AlertsMove
  <2>3. QED
    BY <2>1, <2>2, CardsKept, CardsChanged
<1>6. ASSUME NEW c \in Slot, Cards!AnswerFirst(c) PROVE IncidentsTyped(Alert)' /\ CardsTrue'
  <2>1. /\ IncidentsTyped(Alert)' /\ UNCHANGED <<alerts, incidents>>
        /\ \A d \in Slot \ {c} : handlers'[d] = handlers[d]
        /\ handlers'[c] \in Load(Alert) /\ handlers'[c].tab = handlers[c].tab
        /\ handlers'[c].known = handlers[c].known
        /\ handlers[c].tab = "all" => handlers'[c].phase = "second"
        /\ \E some \in Cards!Answers(Cards!FirstQuery(handlers[c].tab)) : handlers'[c].got = Cards!Listed(some)
    BY <1>6, CardsAnswerFirst
  <2>0. PICK some \in Cards!Answers(Cards!FirstQuery(handlers[c].tab)) : handlers'[c].got = Cards!Listed(some)
    BY <2>1
  <2>2. handlers[c] \in Load(Alert) /\ LoadTrue(handlers[c])
    BY <1>6, Shapes DEF Cards!AnswerFirst, IncidentsTyped, CardsTrue
  <2>3. Over(handlers'[c].got)
    <3>1. Cards!FirstQuery(handlers[c].tab) \in {"active", "resolved"}
      BY DEF Cards!FirstQuery
    <3>2. \A i \in Cards!Listed(some) :
             /\ alerts[i.id].status = Cards!FirstQuery(handlers[c].tab)
             /\ i.status = ShownAs(Cards!FirstQuery(handlers[c].tab))
      BY <3>1, CardsListed
    <3>3. QED
      BY <2>0, <3>1, <3>2 DEF Over, ShownAs
  <2> DEFINE got == handlers'[c].got
  <2>4. ASSUME handlers[c].tab = "all"
        PROVE  /\ \A a \in handlers'[c].known : alerts[a].status # "none"
               /\ \A i \in got : i.status = "open"
               /\ \A a \in handlers'[c].known :
                     a \in Among(got) \/ alerts[a].status = "resolved" \/ Full(got, "open", a)
    <3>1. some \in Cards!Answers("active") /\ ShownAs("active") = "open"
      BY <2>4 DEF Cards!FirstQuery, ShownAs
    <3>2. /\ \A i \in got : i.status = "open"
          /\ \A a \in Alert : alerts[a].status = "active" => a \in Among(got) \/ Full(got, "open", a)
      BY <2>0, <3>1, CardsListed DEF Among
    <3>3. ASSUME NEW a \in handlers[c].known
          PROVE  a \in Alert /\ alerts[a].status \in {"active", "resolved"}
      BY <2>2, <2>4, <3>3 DEF LoadTrue, Load, IncidentsTyped
    <3> HIDE DEF got
    <3>4. QED
      BY <2>1, <3>2, <3>3
  <2>5. LoadTrue(handlers[c])'
    BY <2>1, <2>3, <2>4 DEF LoadTrue, Over, Among, Full
  <2>6. AlertsMove
    BY <2>1 DEF AlertsMove
  <2>7. QED
    BY <2>1, <2>5, <2>6, CardsKept
<1>7. ASSUME NEW c \in Slot, Cards!AnswerSecond(c) PROVE IncidentsTyped(Alert)' /\ CardsTrue'
  <2>1. /\ IncidentsTyped(Alert)' /\ UNCHANGED <<alerts, incidents>>
        /\ \A d \in Slot \ {c} : handlers'[d] = handlers[d]
        /\ handlers'[c] \in Load(Alert) /\ handlers'[c].tab = handlers[c].tab
        /\ handlers'[c].known = handlers[c].known
        /\ handlers[c] \in Load(Alert) /\ handlers[c].phase = "second"
        /\ handlers'[c].phase = "answered"
        /\ IF handlers[c].tab = "all"
           THEN \E some \in Cards!Answers("resolved") : handlers'[c].got = handlers[c].got \cup Cards!Listed(some)
           ELSE \A i \in handlers'[c].got : i.status = "open"
    BY <1>7, CardsAnswerSecond
  <2>2. LoadTrue(handlers[c])
    BY <2>1 DEF CardsTrue, Load
  <2>3. Over(handlers'[c].got)
    <3>1. ASSUME NEW some \in Cards!Answers("resolved"), NEW i \in Cards!Listed(some)
          PROVE  alerts[i.id].status = "resolved"
      BY CardsListed
    <3>2. QED
      BY <2>1, <2>2, <3>1 DEF Over, LoadTrue
  <2> DEFINE got == handlers'[c].got
  <2>4. ASSUME handlers[c].tab = "all", NEW a \in handlers[c].known
        PROVE  /\ alerts[a].status # "none"
               /\ a \in Among(got) \/ \E s \in {"open", "resolved"} : Full(got, s, a)
    <3>1. PICK some \in Cards!Answers("resolved") : got = handlers[c].got \cup Cards!Listed(some)
      BY <2>1, <2>4
    <3>2. /\ a \in Alert /\ alerts[a].status # "none" /\ \A i \in handlers[c].got : i.status = "open"
          /\ a \in Among(handlers[c].got) \/ alerts[a].status = "resolved" \/ Full(handlers[c].got, "open", a)
      BY <2>1, <2>2, <2>4 DEF LoadTrue, Load
    <3> DEFINE before == handlers[c].got
               added  == Cards!Listed(some)
    <3>3. /\ \A i \in added : i.status = "resolved"
          /\ alerts[a].status = "resolved" => a \in Among(added) \/ Full(added, "resolved", a)
      BY <3>2, CardsListed DEF Among, ShownAs
    <3>4. Among(before) \subseteq Among(got) /\ Among(added) \subseteq Among(got)
      BY <3>1 DEF Among
    <3>5. got = before \cup added /\ \A i \in before : i.status = "open"
      BY <3>1, <3>2
    <3> HIDE DEF before, added, got
    <3>6. Full(before, "open", a) => Full(got, "open", a)
      BY <3>3, <3>5, FullStays
    <3>7. Full(added, "resolved", a) => Full(got, "resolved", a)
      BY <3>5, FullAdded
    <3>8. QED
      BY <3>2, <3>3, <3>4, <3>6, <3>7 DEF before
  <2>5. LoadTrue(handlers[c])'
    BY <2>1, <2>3, <2>4 DEF LoadTrue, Over, Among, Full
  <2>6. AlertsMove
    BY <2>1 DEF AlertsMove
  <2>7. QED
    BY <2>1, <2>5, <2>6, CardsKept
<1>8. ASSUME NEW c \in Slot, Cards!DeliverLoad(c) \/ Cards!FailLoad(c) PROVE IncidentsTyped(Alert)' /\ CardsTrue'
  <2>1. /\ IncidentsTyped(Alert)' /\ UNCHANGED alerts
        /\ handlers' = [handlers EXCEPT ![c] = Cards!Idle]
        /\ handlers[c] \in Load(Alert) /\ incidents' \in {incidents, handlers[c].got}
    BY <1>8, CardsLoaded
  <2>2. Cards!Idle.op # "load" /\ AlertsMove /\ handlers[c].op = "load"
    BY <2>1 DEF AlertsMove, Cards!Idle, Load
  <2>3. CardsBegun
    BY <2>1, <2>2, CardsBegunBy
  <2>4. QED
    BY <2>1, <2>2, <2>3, CardsKept, CardsChanged
<1>9. QED
  BY <1>1, <1>2, <1>3, <1>4, <1>5, <1>6, <1>7, <1>8 DEF Cards!Next, Cards!Arrival

LEMMA CardsInit ==
    ASSUME Cards!Init
    PROVE  IncidentsTyped(Alert) /\ CardsTrue
<1>1. PICK c \in Slot : handlers = [d \in Slot |-> IF d = c THEN Cards!NewLoad("open", FALSE) ELSE Cards!Idle]
  BY DEF Cards!Init
<1>2. Cards!NewLoad("open", FALSE) \in Load(Alert)
  BY DEF Cards!NewLoad, Cards!Existing, Load
<1>3. Cards!Idle \in Waits(Alert) /\ Cards!Idle.op # "load"
  BY DEF Cards!Idle, Waits
<1>4. handlers \in [Slot -> Waits(Alert)]
  BY <1>1, <1>2, <1>3 DEF Waits
<1>5. IncidentsTyped(Alert)
  BY <1>4 DEF Cards!Init, Cards!Dialogs, Cards!Closed, Cards!NoAlert, IncidentsTyped
<1>6. \A d \in Slot : handlers[d].op = "load" => LoadTrue(handlers[d])
  BY <1>1, <1>3, <1>5, NewLoadTrue
<1>7. QED
  BY <1>5, <1>6 DEF Cards!Init, CardsTrue, Over

LEMMA CardsInductive ==
    /\ Cards!Init => IncidentsTyped(Alert) /\ CardsTrue
    /\ IncidentsTyped(Alert) /\ CardsTrue /\ [Cards!Next]_(Cards!vars)
          => (IncidentsTyped(Alert) /\ CardsTrue)'
    /\ IncidentsTyped(Alert) /\ CardsTrue
          => Cards!ResolvedShownIsResolved /\ Cards!AllMissesOnlyOlder
<1>1. CardsTrue => Cards!ResolvedShownIsResolved
  BY DEF CardsTrue, Over, Cards!ResolvedShownIsResolved, Cards!resolvedIncidents
<1>2. CardsTrue => Cards!AllMissesOnlyOlder
  <2> SUFFICES ASSUME CardsTrue, NEW c \in Slot, handlers[c].op = "load", handlers[c].tab = "all",
                      handlers[c].phase = "answered", NEW a \in handlers[c].known
               PROVE  (\E i \in handlers[c].got : i.id = a) \/ Cards!CutOff(handlers[c].got, a)
    BY DEF Cards!AllMissesOnlyOlder
  <2>1. a \in Among(handlers[c].got) \/ \E s \in {"open", "resolved"} : Full(handlers[c].got, s, a)
    BY DEF CardsTrue, LoadTrue
  <2>2. (\E s \in {"open", "resolved"} : Full(handlers[c].got, s, a)) => Cards!CutOff(handlers[c].got, a)
    BY DEF Full, Cards!CutOff
  <2>3. QED
    BY <2>1, <2>2 DEF Among
<1>3. QED
  BY <1>1, <1>2, CardsInit, CardsTrueStep
-----------------------------------------------------------------------------
(* The dialogs of the page of incidents.  Of a handler matters whether it  *)
(* is a submission, and which fields it has: only one that waits for an    *)
(* action can fail as one.                                                 *)
DialogKinds == {"assign", "mute", "comment"}
Submits(r) == r.op \in DialogKinds \/ (r.op \in {"load", "timeline"} /\ r.submit)
Formed(r) ==
    /\ "op" \in DOMAIN r
    /\ r.op \in {"load", "timeline"} => /\ "submit" \in DOMAIN r /\ r.submit \in BOOLEAN
                                        /\ "done" \notin DOMAIN r

SubmitInv ==
    /\ handlers = [c \in Slot |-> handlers[c]] /\ \A c \in Slot : Formed(handlers[c])
    /\ submitting \in BOOLEAN
    /\ submitting <=> \E c \in Slot : Submits(handlers[c])
    /\ \A c, d \in Slot : Submits(handlers[c]) /\ Submits(handlers[d]) => c = d

(* The three ways a handler is replaced: as before in that respect, a      *)
(* submission that begins, and one that ends.                              *)
LEMMA SameSubmission ==
    ASSUME SubmitInv, NEW c \in Slot, NEW r, handlers' = [handlers EXCEPT ![c] = r], Formed(r),
           Submits(r) <=> Submits(handlers[c]), submitting' = submitting
    PROVE  SubmitInv'
<1>1. /\ handlers' = [d \in Slot |-> handlers'[d]] /\ handlers'[c] = r
      /\ \A d \in Slot \ {c} : handlers'[d] = handlers[d]
  BY DEF SubmitInv
<1>2. \A d \in Slot : Formed(handlers'[d]) /\ (Submits(handlers'[d]) <=> Submits(handlers[d]))
  BY <1>1 DEF SubmitInv
<1> HIDE DEF Formed, Submits
<1>3. QED
  BY <1>1, <1>2 DEF SubmitInv

LEMMA SubmissionBegins ==
    ASSUME SubmitInv, NEW c \in Slot, NEW r, handlers' = [handlers EXCEPT ![c] = r], Formed(r),
           ~submitting, Submits(r), submitting' = TRUE
    PROVE  SubmitInv'
<1>1. /\ handlers' = [d \in Slot |-> handlers'[d]] /\ handlers'[c] = r
      /\ \A d \in Slot \ {c} : handlers'[d] = handlers[d]
  BY DEF SubmitInv
<1>2. QED
  BY <1>1 DEF SubmitInv

LEMMA SubmissionEnds ==
    ASSUME SubmitInv, NEW c \in Slot, NEW r, handlers' = [handlers EXCEPT ![c] = r], Formed(r),
           Submits(handlers[c]), ~Submits(r), submitting' = FALSE
    PROVE  SubmitInv'
<1>1. /\ handlers' = [d \in Slot |-> handlers'[d]] /\ handlers'[c] = r
      /\ \A d \in Slot \ {c} : handlers'[d] = handlers[d]
  BY DEF SubmitInv
<1>2. QED
  BY <1>1 DEF SubmitInv

(* The records the handlers put there.                                     *)
LEMMA FormsOfHandlers ==
    /\ Formed(Dialogs!Idle) /\ ~Submits(Dialogs!Idle)
    /\ \A t : \A s \in BOOLEAN : /\ Formed(Dialogs!NewLoad(t, s))
                                 /\ Submits(Dialogs!NewLoad(t, s)) <=> s
    /\ \A a : \A s \in BOOLEAN : /\ Formed([op |-> "timeline", id |-> a, submit |-> s])
                                 /\ Submits([op |-> "timeline", id |-> a, submit |-> s]) <=> s
BY DEF Formed, Submits, DialogKinds, Dialogs!Idle, Dialogs!NewLoad

LEMMA StartFormed ==
    ASSUME NEW c \in Slot, NEW op, op \notin {"load", "timeline"}, NEW a, Dialogs!Start(c, op, a)
    PROVE  \E r : /\ handlers' = [handlers EXCEPT ![c] = r] /\ Formed(r)
                  /\ Submits(r) <=> op \in DialogKinds
<1> DEFINE r == [op |-> op, id |-> a, tab |-> tab, done |-> FALSE, reread |-> a \in LoneAlert /\ timeline[a].open]
<1>1. handlers' = [handlers EXCEPT ![c] = r] /\ Formed(r) /\ (Submits(r) <=> op \in DialogKinds)
  BY DEF Dialogs!Start, Formed, Submits, DialogKinds
<1>2. QED
  BY <1>1

LEMMA DialogsUser ==
    ASSUME SubmitInv, Dialogs!User
    PROVE  SubmitInv'
<1>1. ASSUME NEW c \in Slot, NEW t, Dialogs!SelectTab(c, t) PROVE SubmitInv'
  BY <1>1, SameSubmission, FormsOfHandlers DEF Dialogs!SelectTab, Dialogs!loadIncidents, Dialogs!Free
<1>2. ASSUME NEW c \in Slot, NEW op \in {"acknowledge", "resolve", "simulateDown", "simulateRecover"}, NEW a,
             Dialogs!Free(c), Dialogs!Start(c, op, a), submitting' = submitting
      PROVE  SubmitInv'
  <2>1. op \notin {"load", "timeline"} /\ op \notin DialogKinds
    BY DEF DialogKinds
  <2>2. PICK r : handlers' = [handlers EXCEPT ![c] = r] /\ Formed(r) /\ ~Submits(r)
    BY <1>2, <2>1, StartFormed
  <2>3. QED
    BY <1>2, <2>2, SameSubmission, FormsOfHandlers DEF Dialogs!Free
<1>3. ASSUME NEW c \in Slot, NEW a, Dialogs!handleAcknowledge(c, a) \/ Dialogs!handleResolve(c, a) PROVE SubmitInv'
  BY <1>2, <1>3 DEF Dialogs!handleAcknowledge, Dialogs!handleResolve, Dialogs!page
<1>4. ASSUME NEW c \in Slot, NEW op \in {"simulateDown", "simulateRecover"}, Dialogs!handleSimulate(c, op)
      PROVE  SubmitInv'
  BY <1>2, <1>4 DEF Dialogs!handleSimulate, Dialogs!page
<1>5. ASSUME NEW c \in Slot, NEW a, Dialogs!toggleTimeline(c, a) PROVE SubmitInv'
  <2>1. CASE handlers' = handlers
    BY <1>5, <2>1 DEF Dialogs!toggleTimeline, SubmitInv
  <2>2. CASE Dialogs!Free(c) /\ handlers' = [handlers EXCEPT ![c] = [op |-> "timeline", id |-> a, submit |-> FALSE]]
    BY <1>5, <2>2, SameSubmission, FormsOfHandlers DEF Dialogs!toggleTimeline, Dialogs!Free
  <2>3. QED
    BY <1>5, <2>1, <2>2 DEF Dialogs!toggleTimeline
<1>6. ASSUME NEW c \in Slot, NEW k \in Dialogs!Dialogs, Dialogs!Submit(c, k) PROVE SubmitInv'
  <2>1. k \notin {"load", "timeline"} /\ k \in DialogKinds
    BY DEF Dialogs!Dialogs, DialogKinds
  <2>2. PICK r : handlers' = [handlers EXCEPT ![c] = r] /\ Formed(r) /\ Submits(r)
    BY <1>6, <2>1, StartFormed DEF Dialogs!Submit
  <2>3. ~submitting /\ submitting' = TRUE
    BY <1>6 DEF Dialogs!Submit, Dialogs!MaySubmit
  <2>4. QED
    BY <2>2, <2>3, SubmissionBegins
<1>7. ASSUME NEW k, NEW a, Dialogs!EditDraft(k) \/ Dialogs!OpenDialog(k, a) \/ Dialogs!CancelDialog PROVE SubmitInv'
  BY <1>7 DEF Dialogs!EditDraft, Dialogs!OpenDialog, Dialogs!CancelDialog, SubmitInv
<1>8. QED
  BY <1>1, <1>3, <1>4, <1>5, <1>6, <1>7 DEF Dialogs!User

LEMMA DialogsArrival ==
    ASSUME SubmitInv, NEW c \in Slot, Dialogs!Arrival(c)
    PROVE  SubmitInv'
<1> DEFINE old == handlers[c]
<1>0. Formed(old) /\ (Submits(old) => submitting)
  BY DEF SubmitInv
<1>1. CASE Dialogs!AnswerFirst(c) \/ Dialogs!AnswerSecond(c)
  <2>1. ASSUME NEW g, NEW p, handlers' = [handlers EXCEPT ![c].got = g, ![c].phase = p] PROVE SubmitInv'
    <3> DEFINE r == [old EXCEPT !.got = g, !.phase = p]
    <3>1. handlers' = [handlers EXCEPT ![c] = r]
      BY <2>1
    <3>2. Formed(r) /\ (Submits(r) <=> Submits(old))
      BY <1>0 DEF Formed, Submits
    <3>3. submitting' = submitting
      BY <1>1 DEF Dialogs!AnswerFirst, Dialogs!AnswerSecond, Dialogs!page
    <3>4. QED
      BY <3>1, <3>2, <3>3, SameSubmission
  <2>2. CASE Dialogs!AnswerFirst(c)
    <3>1. PICK some : handlers' = [handlers EXCEPT
             ![c].got = Dialogs!Listed(some),
             ![c].phase = IF handlers[c].tab = "all" \/ (handlers[c].tab = "open" /\ some = {})
                          THEN "second" ELSE "answered"]
      BY <2>2 DEF Dialogs!AnswerFirst
    <3>2. QED
      BY <2>1, <3>1
  <2>3. CASE Dialogs!AnswerSecond(c)
    <3>1. PICK g : handlers' = [handlers EXCEPT ![c].got = g, ![c].phase = "answered"]
      BY <2>3 DEF Dialogs!AnswerSecond
    <3>2. QED
      BY <2>1, <3>1
  <2>4. QED
    BY <1>1, <2>2, <2>3
<1>2. CASE Dialogs!DeliverLoad(c) \/ Dialogs!FailLoad(c)
  <2>1. /\ old.op = "load" /\ handlers' = [handlers EXCEPT ![c] = Dialogs!Idle]
        /\ submitting' = (submitting /\ ~old.submit)
    BY <1>2 DEF Dialogs!DeliverLoad, Dialogs!FailLoad, Dialogs!Loaded
  <2>2. Submits(old) <=> old.submit
    BY <2>1 DEF Submits, DialogKinds
  <2>3. CASE old.submit
    BY <2>1, <2>2, <2>3, FormsOfHandlers, SubmissionEnds
  <2>4. CASE ~old.submit
    <3>1. submitting' = submitting
      BY <2>1, <2>4 DEF SubmitInv
    <3>2. QED
      BY <2>1, <2>2, <2>4, <3>1, FormsOfHandlers, SameSubmission
  <2>5. QED
    BY <2>3, <2>4
<1>3. CASE Dialogs!Execute(c)
  <2> DEFINE r == [old EXCEPT !.done = TRUE]
  <2>1. handlers' = [handlers EXCEPT ![c] = r] /\ submitting' = submitting
    BY <1>3 DEF Dialogs!Execute, Dialogs!page
  <2>2. old.op \notin {"load", "timeline"}
    BY <1>3 DEF Dialogs!Execute
  <2>3. Formed(r) /\ (Submits(r) <=> Submits(old))
    BY <1>0, <2>2 DEF Formed, Submits
  <2>4. QED
    BY <2>1, <2>3, SameSubmission
<1>4. CASE Dialogs!Acted(c)
  <2>1. ~Submits(old)
    BY <1>4 DEF Dialogs!Acted, Submits, DialogKinds
  <2>2. QED
    BY <1>4, <2>1, FormsOfHandlers, SameSubmission DEF Dialogs!Acted, Dialogs!page
<1>5. CASE Dialogs!Assigned(c)
  <2>1. Submits(old)
    BY <1>5 DEF Dialogs!Assigned, Submits, DialogKinds
  <2>2. QED
    BY <1>5, <2>1, FormsOfHandlers, SameSubmission DEF Dialogs!Assigned
<1>6. CASE Dialogs!Commented(c)
  <2>1. Submits(old)
    BY <1>6 DEF Dialogs!Commented, Submits, DialogKinds
  <2>2. CASE old.reread
    BY <1>6, <2>1, <2>2, FormsOfHandlers, SameSubmission DEF Dialogs!Commented
  <2>3. CASE ~old.reread
    BY <1>6, <2>1, <2>3, FormsOfHandlers, SubmissionEnds DEF Dialogs!Commented
  <2>4. QED
    BY <2>2, <2>3
<1>7. CASE Dialogs!TimelineLoaded(c)
  <2>1. old.op = "timeline" /\ handlers' = [handlers EXCEPT ![c] = Dialogs!Idle]
    BY <1>7 DEF Dialogs!TimelineLoaded
  <2>2. Submits(old) <=> old.submit
    BY <2>1 DEF Submits, DialogKinds
  <2>3. CASE old.submit
    BY <1>7, <2>1, <2>2, <2>3, FormsOfHandlers, SubmissionEnds DEF Dialogs!TimelineLoaded
  <2>4. CASE ~old.submit
    BY <1>7, <2>1, <2>2, <2>4, FormsOfHandlers, SameSubmission DEF Dialogs!TimelineLoaded
  <2>5. QED
    BY <2>3, <2>4
<1>8. CASE Dialogs!Failed(c)
  <2>1. /\ "done" \in DOMAIN old /\ handlers' = [handlers EXCEPT ![c] = Dialogs!Idle]
        /\ submitting' = (submitting /\ old.op \notin DialogKinds)
    BY <1>8 DEF Dialogs!Failed, Dialogs!Dialogs, DialogKinds
  <2>2. Submits(old) <=> old.op \in DialogKinds
    BY <1>0, <2>1 DEF Submits, Formed
  <2>3. CASE Submits(old)
    BY <2>1, <2>2, <2>3, FormsOfHandlers, SubmissionEnds
  <2>4. CASE ~Submits(old)
    <3>1. submitting' = submitting
      BY <2>1, <2>2, <2>4 DEF SubmitInv
    <3>2. QED
      BY <2>1, <2>4, <3>1, FormsOfHandlers, SameSubmission
  <2>5. QED
    BY <2>3, <2>4
<1>9. QED
  BY <1>1, <1>2, <1>3, <1>4, <1>5, <1>6, <1>7, <1>8 DEF Dialogs!Arrival

LEMMA DialogsStep ==
    ASSUME SubmitInv, [Dialogs!Next]_(Dialogs!vars)
    PROVE  SubmitInv'
<1>1. CASE UNCHANGED Dialogs!vars \/ Dialogs!Poller
  BY <1>1 DEF Dialogs!vars, Dialogs!page, Dialogs!Poller, SubmitInv
<1>2. QED
  BY <1>1, DialogsUser, DialogsArrival DEF Dialogs!Next

LEMMA DialogsInit ==
    ASSUME Dialogs!Init
    PROVE  SubmitInv
<1>1. PICK c \in Slot : handlers = [d \in Slot |-> IF d = c THEN Dialogs!NewLoad("open", FALSE) ELSE Dialogs!Idle]
  BY DEF Dialogs!Init
<1>2. handlers = [d \in Slot |-> handlers[d]] /\ \A d \in Slot : Formed(handlers[d]) /\ ~Submits(handlers[d])
  BY <1>1, FormsOfHandlers
<1>3. QED
  BY <1>2 DEF Dialogs!Init, SubmitInv

LEMMA DialogsInductive ==
    /\ Dialogs!Init => SubmitInv
    /\ SubmitInv /\ [Dialogs!Next]_(Dialogs!vars) => SubmitInv'
    /\ SubmitInv => Dialogs!OneSubmission
<1>1. SubmitInv => Dialogs!OneSubmission
  BY DEF SubmitInv, Dialogs!OneSubmission, Dialogs!Submission, Submits, DialogKinds, Dialogs!Dialogs
<1>2. QED
  BY <1>1, DialogsInit, DialogsStep
-----------------------------------------------------------------------------
(* Side by side, the pages of the new application do what they do alone.   *)
LEMMA NewAlone == EachSpec => New!Spec
<1>1. EachInit => New!Init
  BY DEF EachInit, NewAtStart
<1>2. [EachNext]_allVars => [New!Next]_(New!vars)
  BY DEF EachNext, allVars, newVars, New!vars
<1>3. QED
  BY <1>1, <1>2, PTL DEF EachSpec, New!Spec

(* The pages that are open are the ones that move, and stay open.          *)
LEMMA OpenMoves ==
    ASSUME [EachNext]_allVars
    PROVE  /\ opened' = opened
           /\ opened = "cards" => [Cards!Next]_(Cards!vars)
           /\ opened = "dialogs" => [Dialogs!Next]_(Dialogs!vars)
BY DEF EachNext, allVars, incidentsVars, Cards!vars, Cards!page, Dialogs!vars, Dialogs!page

CardsOpen   == opened = "cards" => IncidentsTyped(Alert) /\ CardsTrue
DialogsOpen == opened = "dialogs" => SubmitInv

LEMMA EachInductive == EachSpec => [](CardsOpen /\ DialogsOpen)
<1>1. EachInit => CardsOpen /\ DialogsOpen
  BY CardsInductive, DialogsInductive DEF EachInit, CardsOpen, DialogsOpen
<1>2. ASSUME CardsOpen, DialogsOpen, [EachNext]_allVars PROVE CardsOpen' /\ DialogsOpen'
  BY <1>2, OpenMoves, CardsInductive, DialogsInductive DEF CardsOpen, DialogsOpen
<1>3. QED
  BY <1>1, <1>2, PTL DEF EachSpec

(* A deletion confirmed on a device page of the new application is of the  *)
(* device that page was showing, where the history leads from no device    *)
(* page to another: its effect keeps no answer of another device           *)
(* (DeviceDetail.tsx).                                                     *)
THEOREM DeletesTheDeviceShown == EachSpec => []DeletesDeviceShownByNew
<1>1. NewInv => New!DeletesDeviceShown
  BY Names DEF NewInv, New!DeletesDeviceShown
<1>2. NewInv /\ [New!Next]_(New!vars) => NewInv'
  BY NewStep
<1>3. New!Init => NewInv
  BY NewStart
<1>4. QED
  BY <1>1, <1>2, <1>3, NewAlone, PTL DEF New!Spec, DeletesDeviceShownByNew

(* On the page of incidents, whatever order the answers arrive in, with    *)
(* any number of handlers in progress and failures anywhere, a card that   *)
(* says resolved belongs to a resolved alert (Incidents.tsx, api.ts).      *)
THEOREM CardsOverAreResolved == EachSpec => []ResolvedShownIsResolved
<1>1. CardsOpen => ResolvedShownIsResolved
  BY CardsInductive DEF CardsOpen, ResolvedShownIsResolved
<1>2. QED
  BY <1>1, EachInductive, PTL

(* Of the alerts that existed when the tab "all" was loaded, its answer    *)
(* misses only some older than all the alerts of a full query: an alert    *)
(* resolved after the first of the two queries is in the second, unless    *)
(* that one is cut (incidentAPI.list, ListAlertsAPI).                      *)
THEOREM OnlyOlderMissedByAll == EachSpec => []AllMissesOnlyOlder
<1>1. CardsOpen => AllMissesOnlyOlder
  BY CardsInductive DEF CardsOpen, AllMissesOnlyOlder
<1>2. QED
  BY <1>1, EachInductive, PTL

(* However many handlers are in progress, at most one is a submission of a *)
(* dialog: the flag the three dialogs share is true exactly while one is,  *)
(* its reload included (Incidents.tsx).                                    *)
THEOREM OneSubmissionAtOnce == EachSpec => []OneSubmission
<1>1. DialogsOpen => OneSubmission
  BY DialogsInductive DEF DialogsOpen, OneSubmission
<1>2. QED
  BY <1>1, EachInductive, PTL
=============================================================================
