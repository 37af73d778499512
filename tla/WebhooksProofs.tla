--------------------------- MODULE WebhooksProofs ---------------------------
(***************************************************************************)
(* What the senders of a poll owe to it, for every number of destinations, *)
(* alerts, attempts and polls, and for every use of the page meanwhile;    *)
(* and what the settings, the frame and the lists side by side with them   *)
(* (MCWebhooks) show of what is stored.                                    *)
(***************************************************************************)
EXTENDS MCWebhooks, TLAPS

(* Late senders never leave deliveries of a deleted destination or alert   *)
(* behind: the record is made only while both rows are there, and goes     *)
(* with either.                                                            *)
THEOREM NoOrphanDeliveries == Spec => []DeliveriesHaveOwners
<1> DEFINE Typed == /\ alert \in [Alert -> {None, "open", "resolved", "gone"}]
                    /\ \A r \in recorded : r[1][1] \in Alert
           Owned == Typed /\ DeliveriesHaveOwners
<1>1. Init => Owned
  BY DEF Init, DeliveriesHaveOwners
<1>2. Owned /\ [Next]_vars => Owned'
  <2> SUFFICES ASSUME Owned, [Next]_vars PROVE Owned'
    OBVIOUS
  <2>1. CASE UNCHANGED <<stored, alert, recorded>>
    BY <2>1 DEF DeliveriesHaveOwners
  <2>2. ASSUME NEW c \in Call, CreateDestination(c) PROVE Owned'
    BY <2>2 DEF CreateDestination, DeliveriesHaveOwners, pollerVars
  <2>3. ASSUME NEW c \in Call, DeleteDestination(c) PROVE Owned'
    BY <2>3 DEF DeleteDestination, CascadesDeliveries, DeliveriesHaveOwners, pollerVars
  <2>4. ASSUME NEW t \in Task, RecordAlertDelivery(t) PROVE Owned'
    <3>1. \A r \in recorded' :
              \/ r \in recorded
              \/ r = <<t, senders[t].i>> /\ t[3] \in stored /\ alert[t[1]] \in {"open", "resolved"}
      BY <2>4 DEF RecordAlertDelivery, Recordable
    <3>2. stored' = stored /\ alert' = alert
      BY <2>4 DEF RecordAlertDelivery, rows, pollerVars
    <3>3. t[1] \in Alert
      BY DEF Task
    <3>4. QED
      BY <3>1, <3>2, <3>3 DEF DeliveriesHaveOwners
  <2>5. CASE DeleteDevice
    BY <2>5 DEF DeleteDevice, DeliveriesHaveOwners
  <2>6. ASSUME NEW a \in Alert, raiseAlert(a) \/ clearAlert(a) \/ RaiseIncident(a)
        PROVE  Owned'
    <3>1. stored' = stored /\ recorded' = recorded
      BY <2>6 DEF raiseAlert, clearAlert, RaiseIncident, rows
    <3>2. PICK new \in {"open", "resolved"} : alert' = [alert EXCEPT ![a] = new]
      BY <2>6 DEF raiseAlert, clearAlert, RaiseIncident
    <3>3. QED
      BY <3>1, <3>2 DEF DeliveriesHaveOwners
  <2> HIDE DEF Owned
  <2>7. QED
    BY <2>1, <2>2, <2>3, <2>4, <2>5, <2>6 DEF Next, vars, rows, page, sendWebhook, OpenDialog, toggleEvent,
       UpdateDestination, handleDelete, handleTest, handleSubmit, Start, Visit, loadWebhooks, Answered,
       ListDestinations, TestDestination, Refuse, StartPoll, EndPoll, pollerVars, Attempt, Backoff
<1>3. QED
  BY <1>1, <1>2, PTL DEF Spec
-----------------------------------------------------------------------------
(* A sender is of a poll that has begun and of a destination that was      *)
(* drawn, so neither a new poll nor a new destination can be taken for     *)
(* its own; its alert was raised; one that waits has attempts left.        *)
Bounded ==
    /\ poll \in 0..Polls /\ live \in BOOLEAN /\ (live => poll # 0)
    /\ enabled \subseteq stored /\ stored \subseteq drawn
    /\ alert \in [Alert -> {None, "open", "resolved", "gone"}]
SendersSane ==
    /\ senders \in [Task -> Sender \cup {NoSender}]
    /\ \A t \in Task : senders[t] # NoSender =>
          /\ senders[t].of <= poll /\ t[3] \in drawn /\ alert[t[1]] # None
          /\ senders[t].pc = "pause" => senders[t].i < MaxAttempts
IInv == Bounded /\ SendersSane /\ LiveSendersPersist

(* The parts of the invariant about one sender.                            *)
Sane(t) == senders[t] # NoSender =>
    /\ senders[t] \in Sender /\ senders[t].of <= poll /\ t[3] \in drawn /\ alert[t[1]] # None
    /\ senders[t].pc = "pause" => senders[t].i < MaxAttempts
Persists(t) == senders[t] # NoSender /\ Context(t) =>
    /\ senders[t].pc = "ended" => senders[t].success \/ senders[t].i = MaxAttempts \/ ~Parses(t)
    /\ t[3] \in stored /\ alert[t[1]] # "gone" => \A n \in Past(t) : <<t, n>> \in recorded

(* A step of one sender keeps the invariant if it keeps it for the sender. *)
LEMMA OneSender ==
    ASSUME IInv, NEW t \in Task, NEW s, senders' = [senders EXCEPT ![t] = s], s \in Sender,
           UNCHANGED <<rows, pollerVars>>, recorded \subseteq recorded',
           Sane(t)', Persists(t)'
    PROVE  IInv'
<1>1. Bounded'
  BY DEF IInv, Bounded, rows, pollerVars
<1>2. senders' \in [Task -> Sender \cup {NoSender}]
  BY DEF IInv, SendersSane
<1>3. \A u \in Task : Sane(u)' /\ Persists(u)'
  <2> SUFFICES ASSUME NEW u \in Task, u # t PROVE Sane(u)' /\ Persists(u)'
    OBVIOUS
  <2>1. senders'[u] = senders[u]
    BY DEF IInv, SendersSane
  <2>2. Sane(u)'
    BY <2>1 DEF IInv, SendersSane, Sane, rows, pollerVars
  <2>3. Context(u)' <=> Context(u)
    BY <2>1 DEF Context, pollerVars
  <2>4. Past(u)' = Past(u)
    BY <2>1 DEF Past
  <2>5. Persists(u)'
    BY <2>1, <2>3, <2>4 DEF IInv, LiveSendersPersist, Persists, rows, pollerVars, Parses
  <2>6. QED
    BY <2>2, <2>5
<1>4. SendersSane'
  BY <1>2, <1>3 DEF SendersSane, Sane
<1>5. LiveSendersPersist'
  BY <1>3 DEF LiveSendersPersist, Persists
<1>6. QED
  BY <1>1, <1>4, <1>5 DEF IInv

(* What is known of the sender that takes a step.                          *)
LEMMA TheSender ==
    ASSUME IInv, NEW t \in Task, senders[t] # NoSender
    PROVE  /\ senders[t] \in Sender /\ senders[t].i \in 1..MaxAttempts /\ senders[t].of \in 1..Polls
           /\ senders[t].of <= poll /\ t[3] \in drawn /\ alert[t[1]] # None
           /\ senders[t].pc = "pause" => senders[t].i < MaxAttempts
BY DEF IInv, SendersSane, Sender

LEMMA AttemptKeeps ==
    ASSUME IInv, NEW t \in Task, Attempt(t)
    PROVE  IInv'
<1>1. senders[t] # NoSender /\ senders[t].pc = "attempt"
  BY DEF Attempt, At
<1>2. PICK success \in {Context(t) /\ Parses(t), FALSE} :
          senders' = [senders EXCEPT ![t].pc = "record", ![t].success = success]
  BY DEF Attempt
<1> DEFINE s == [senders[t] EXCEPT !.pc = "record", !.success = success]
<1>3. senders[t] \in Sender
  BY <1>1, TheSender
<1>4. senders' = [senders EXCEPT ![t] = s]
  BY <1>2
<1>5. success \in BOOLEAN
  BY DEF Context, Parses, IInv, Bounded
<1>6. s \in Sender /\ s.pc = "record" /\ s.i = senders[t].i /\ s.of = senders[t].of
  BY <1>3, <1>5 DEF Sender
<1> HIDE DEF s
<1>7. senders'[t] = s
  BY <1>4 DEF IInv, SendersSane
<1>8. UNCHANGED <<rows, pollerVars, recorded>>
  BY DEF Attempt
<1>9. Sane(t)'
  BY <1>1, <1>6, <1>7, <1>8, TheSender DEF Sane, rows, pollerVars
<1>10. Context(t)' <=> Context(t)
  BY <1>6, <1>7, <1>8 DEF Context, pollerVars
<1>11. s # NoSender
  BY <1>6 DEF NoSender, None
<1>12. Past(t)' = Past(t)
  BY <1>1, <1>6, <1>7, <1>11 DEF Past
<1>13. Persists(t)'
  BY <1>1, <1>6, <1>7, <1>8, <1>10, <1>12 DEF IInv, LiveSendersPersist, Persists, rows, pollerVars, Parses
<1>14. QED
  BY <1>4, <1>6, <1>8, <1>9, <1>13, OneSender

(* Without failed statements an attempt on a destination that exists is    *)
(* recorded while the poll runs.                                           *)
LEMMA RecordKeeps ==
    ASSUME Faults = FALSE, IInv, NEW t \in Task, RecordAlertDelivery(t)
    PROVE  IInv'
<1> USE WebhooksAssumption
<1>1. senders[t] # NoSender /\ senders[t].pc = "record"
  BY DEF RecordAlertDelivery, At
<1> DEFINE s == [senders[t] EXCEPT !.pc = IF Parses(t) /\ Retries(senders[t]) THEN "pause" ELSE "ended"]
<1>2. senders[t] \in Sender /\ senders[t].i \in 1..MaxAttempts
  BY <1>1, TheSender
<1>3. senders' = [senders EXCEPT ![t] = s]
  BY DEF RecordAlertDelivery
<1>4. /\ s \in Sender /\ s.i = senders[t].i /\ s.of = senders[t].of /\ s.success = senders[t].success
      /\ s.pc \in {"pause", "ended"} /\ (s.pc = "pause" <=> Parses(t) /\ Retries(senders[t]))
  BY <1>2 DEF Sender
<1> HIDE DEF s
<1>5. senders'[t] = s /\ s # NoSender
  BY <1>3, <1>4 DEF IInv, SendersSane, NoSender, None
<1>6. UNCHANGED <<rows, pollerVars>> /\ recorded \subseteq recorded'
  BY DEF RecordAlertDelivery
<1>7. Sane(t)'
  BY <1>1, <1>4, <1>5, <1>6, TheSender DEF Sane, Retries, rows, pollerVars
<1>8. Context(t)' <=> Context(t)
  BY <1>4, <1>5, <1>6 DEF Context, pollerVars
<1>9. Context(t) /\ t[3] \in stored /\ alert[t[1]] # "gone" => <<t, senders[t].i>> \in recorded'
  <2>1. alert[t[1]] \in {None, "open", "resolved", "gone"} /\ alert[t[1]] # None
    BY <1>1, TheSender DEF IInv, Bounded, Task
  <2>2. QED
    BY <2>1 DEF RecordAlertDelivery, Recordable
<1>10. Past(t) = 1..(senders[t].i - 1) /\ Past(t)' = 1..senders[t].i
  BY <1>1, <1>4, <1>5 DEF Past
<1>11. \A n \in Past(t)' : n \in Past(t) \/ n = senders[t].i
  BY <1>2, <1>10
<1>12. s.pc = "ended" => s.success \/ s.i = MaxAttempts \/ ~Parses(t)
  BY <1>2, <1>4 DEF Retries
<1>13. Context(t) /\ t[3] \in stored /\ alert[t[1]] # "gone" => \A n \in Past(t) : <<t, n>> \in recorded
  BY <1>1 DEF IInv, LiveSendersPersist
<1>14. Persists(t)'
  BY <1>5, <1>6, <1>8, <1>9, <1>11, <1>12, <1>13 DEF Persists, rows, pollerVars, Parses
<1>15. QED
  BY <1>3, <1>4, <1>6, <1>7, <1>14, OneSender

LEMMA BackoffKeeps ==
    ASSUME IInv, NEW t \in Task, Backoff(t)
    PROVE  IInv'
<1> USE WebhooksAssumption
<1>1. senders[t] # NoSender /\ senders[t].pc = "pause"
  BY DEF Backoff, At
<1>2. senders[t] \in Sender /\ senders[t].i \in 1..MaxAttempts /\ senders[t].i < MaxAttempts
  BY <1>1, TheSender
<1>3. UNCHANGED <<rows, pollerVars, recorded>>
  BY DEF Backoff
<1>4. CASE senders' = [senders EXCEPT ![t].pc = "attempt", ![t].i = NextAttempt(@)]
  <2> DEFINE s == [senders[t] EXCEPT !.pc = "attempt", !.i = senders[t].i + 1]
  <2>1. senders' = [senders EXCEPT ![t] = s]
    BY <1>4 DEF NextAttempt
  <2>2. senders[t].i + 1 \in 1..MaxAttempts
    BY <1>2
  <2>3. s \in Sender /\ s.pc = "attempt" /\ s.i = senders[t].i + 1 /\ s.of = senders[t].of
    BY <1>2, <2>2 DEF Sender
  <2> HIDE DEF s
  <2>4. senders'[t] = s /\ s # NoSender
    BY <2>1, <2>3 DEF IInv, SendersSane, NoSender, None
  <2>5. Sane(t)'
    BY <1>1, <1>3, <2>3, <2>4, TheSender DEF Sane, rows, pollerVars
  <2>6. Context(t)' <=> Context(t)
    BY <1>3, <2>3, <2>4 DEF Context, pollerVars
  <2>7. s.i - 1 = senders[t].i
    BY <1>2, <2>3
  <2>8. Past(t) = 1..senders[t].i /\ Past(t)' = 1..senders[t].i
    <3>1. Past(t) = 1..senders[t].i
      BY <1>1 DEF Past
    <3>2. Past(t)' = 1..(s.i - 1)
      BY <2>3, <2>4 DEF Past
    <3>3. QED
      BY <2>7, <3>1, <3>2
  <2>9. Persists(t)'
    BY <1>1, <1>3, <2>3, <2>4, <2>6, <2>8 DEF IInv, LiveSendersPersist, Persists, rows, pollerVars, Parses
  <2>10. QED
    BY <1>3, <2>1, <2>3, <2>5, <2>9, OneSender
<1>5. CASE ~Context(t) /\ senders' = [senders EXCEPT ![t].pc = "ended"]
  <2> DEFINE s == [senders[t] EXCEPT !.pc = "ended"]
  <2>1. senders' = [senders EXCEPT ![t] = s]
    BY <1>5
  <2>2. s \in Sender /\ s.pc = "ended" /\ s.of = senders[t].of
    BY <1>2 DEF Sender
  <2> HIDE DEF s
  <2>3. senders'[t] = s
    BY <2>1 DEF IInv, SendersSane
  <2>4. Sane(t)'
    BY <1>1, <1>3, <2>2, <2>3, TheSender DEF Sane, rows, pollerVars
  <2>5. ~Context(t)'
    BY <1>3, <1>5, <2>2, <2>3 DEF Context, pollerVars
  <2>6. Persists(t)'
    BY <2>5 DEF Persists
  <2>7. QED
    BY <1>3, <2>1, <2>2, <2>4, <2>6, OneSender
<1>6. QED
  BY <1>4, <1>5 DEF Backoff

(* The alerts of a device: new ones, or resolved, and their senders.       *)
LEMMA AlertsKeep ==
    ASSUME IInv, live, NEW a \in Alert, NEW new \in {"open", "resolved"}, NEW event,
           alert[a] \in {None, "open"}, alert' = [alert EXCEPT ![a] = new],
           Dispatch(a, event) \/ UNCHANGED senders, UNCHANGED <<rows, poll, live, recorded>>
    PROVE  IInv'
<1> USE WebhooksAssumption
<1>1. alert \in [Alert -> {None, "open", "resolved", "gone"}]
  BY DEF IInv, Bounded
<1>2. Bounded'
  BY <1>1 DEF IInv, Bounded, rows
<1>3. /\ Begun \in Sender /\ Begun # NoSender
      /\ Begun.pc = "attempt" /\ Begun.i = 1 /\ Begun.of = poll
  BY DEF Begun, Sender, IInv, Bounded, NoSender, None
<1>4. ASSUME NEW t \in Task
      PROVE  \/ senders'[t] = senders[t]
             \/ senders'[t] = Begun /\ t[1] = a /\ t[3] \in enabled
  BY DEF Dispatch
<1>5. senders' \in [Task -> Sender \cup {NoSender}]
  BY <1>3 DEF Dispatch, IInv, SendersSane
<1>6. ASSUME NEW t \in Task PROVE Sane(t)' /\ Persists(t)'
  <2>1. t[1] \in Alert
    BY DEF Task
  <2>2. /\ alert[t[1]] # None => alert'[t[1]] # None
        /\ (alert'[t[1]] = "gone" <=> alert[t[1]] = "gone")
        /\ t[1] = a => alert'[t[1]] # None
    BY <1>1, <2>1 DEF None
  <2>3. CASE senders'[t] = senders[t]
    <3>1. Sane(t)'
      BY <2>2, <2>3 DEF Sane, IInv, SendersSane, rows
    <3>2. (Context(t)' <=> Context(t)) /\ Past(t)' = Past(t)
      BY <2>3 DEF Context, Past
    <3>3. Persists(t)'
      BY <2>2, <2>3, <3>2 DEF Persists, IInv, LiveSendersPersist, rows, Parses
    <3>4. QED
      BY <3>1, <3>3
  <2>4. CASE senders'[t] = Begun /\ t[1] = a /\ t[3] \in enabled
    <3>1. t[3] \in drawn /\ drawn' = drawn /\ poll' = poll /\ poll \in Nat
      BY <2>4 DEF IInv, Bounded, rows
    <3>2. Sane(t)'
      BY <1>3, <2>2, <2>4, <3>1 DEF Sane
    <3>3. Past(t)' = {}
      BY <1>3, <2>4 DEF Past
    <3>4. Persists(t)'
      BY <1>3, <2>4, <3>3 DEF Persists
    <3>5. QED
      BY <3>2, <3>4
  <2>5. QED
    BY <1>4, <2>3, <2>4
<1>7. QED
  BY <1>2, <1>5, <1>6 DEF IInv, SendersSane, LiveSendersPersist, Sane, Persists

(* A change of the rows: a new row is none a sender knows, and a delivery  *)
(* that goes is one of a row that goes.                                    *)
LEMMA RowsKeep ==
    ASSUME IInv, UNCHANGED <<poll, live, senders>>,
           enabled' \subseteq stored', stored' \subseteq drawn', drawn \subseteq drawn',
           \A w \in stored' : w \in stored \/ w \notin drawn,
           \A w \in drawn : w \in malformed => w \in malformed',
           alert' \in [Alert -> {None, "open", "resolved", "gone"}],
           \A a \in Alert : alert'[a] = alert[a] \/ (alert[a] # None /\ alert'[a] = "gone"),
           \A r \in recorded : r[1][3] \in stored' /\ alert'[r[1][1]] # "gone" => r \in recorded'
    PROVE  IInv'
<1>1. Bounded'
  BY DEF IInv, Bounded
<1>2. \A t \in Task : t[1] \in Alert
  BY DEF Task
<1>3. SendersSane'
  BY <1>2 DEF IInv, SendersSane, None
<1>4. ASSUME NEW t \in Task PROVE Persists(t)'
  <2>1. (Context(t)' <=> Context(t)) /\ Past(t)' = Past(t) /\ senders'[t] = senders[t]
    BY DEF Context, Past
  <2>2. senders[t] # NoSender /\ t[3] \in stored' => t[3] \in stored
    BY DEF IInv, SendersSane
  <2>3. \A n : <<t, n>> \in recorded /\ t[3] \in stored' /\ alert'[t[1]] # "gone"
               => <<t, n>> \in recorded'
    OBVIOUS
  <2>4. alert'[t[1]] # "gone" => alert[t[1]] # "gone"
    BY <1>2
  <2>5. senders[t] # NoSender /\ ~Parses(t) => ~Parses(t)'
    BY DEF IInv, SendersSane, Parses
  <2>6. QED
    BY <2>1, <2>2, <2>3, <2>4, <2>5 DEF Persists, IInv, LiveSendersPersist
<1>5. QED
  BY <1>1, <1>3, <1>4 DEF IInv, LiveSendersPersist, Persists

(* The device goes with its alerts and their deliveries.                   *)
LEMMA DeviceKeeps == ASSUME IInv, DeleteDevice PROVE IInv'
<1>1. alert \in [Alert -> {None, "open", "resolved", "gone"}]
  BY DEF IInv, Bounded
<1>2. UNCHANGED <<rows, poll, live, senders>>
  BY DEF DeleteDevice
<1>3. Bounded'
  BY <1>1, <1>2 DEF DeleteDevice, IInv, Bounded, rows
<1>4. \A a \in Alert : alert[a] # None => alert'[a] = "gone"
  BY DEF DeleteDevice
<1>5. \A t \in Task : t[1] \in Alert
  BY DEF Task
<1>6. SendersSane'
  BY <1>2, <1>4, <1>5 DEF IInv, SendersSane, rows, None
<1>7. ASSUME NEW t \in Task PROVE Persists(t)'
  <2>1. (Context(t)' <=> Context(t)) /\ senders'[t] = senders[t] /\ (Parses(t)' <=> Parses(t))
    BY <1>2 DEF Context, Parses, rows
  <2>2. senders[t] # NoSender => alert'[t[1]] = "gone"
    BY <1>4, <1>5 DEF IInv, SendersSane
  <2>3. QED
    BY <2>1, <2>2 DEF Persists, IInv, LiveSendersPersist
<1>8. QED
  BY <1>3, <1>6, <1>7 DEF IInv, LiveSendersPersist, Persists

(* A poll that begins or ends leaves no sender with a context but its own. *)
LEMMA PollsKeep ==
    ASSUME IInv, StartPoll \/ EndPoll
    PROVE  IInv'
<1> USE WebhooksAssumption
<1>1. UNCHANGED <<rows, alert, senders, recorded>>
  BY DEF StartPoll, EndPoll
<1>2. poll \in Nat /\ poll' \in Nat /\ poll <= poll'
  BY DEF StartPoll, EndPoll, IInv, Bounded
<1>3. Bounded'
  <2>1. /\ enabled' \subseteq stored' /\ stored' \subseteq drawn'
        /\ alert' \in [Alert -> {None, "open", "resolved", "gone"}]
    BY <1>1 DEF IInv, Bounded, rows
  <2>2. CASE StartPoll
    <3>1. poll' \in 0..Polls /\ poll' # 0
      BY <2>2 DEF StartPoll, IInv, Bounded
    <3>2. live' \in BOOLEAN
      BY <2>2 DEF StartPoll
    <3>3. QED
      BY <2>1, <3>1, <3>2 DEF Bounded
  <2>3. CASE EndPoll
    <3>1. poll' \in 0..Polls
      BY <2>3 DEF EndPoll, IInv, Bounded
    <3>2. live' = FALSE
      BY <2>3 DEF EndPoll
    <3>3. QED
      BY <2>1, <3>1, <3>2 DEF Bounded
  <2>4. QED
    BY <2>2, <2>3
<1>4. SendersSane'
  <2> SUFFICES ASSUME NEW t \in Task, senders[t] # NoSender PROVE senders[t].of <= poll'
    BY <1>1 DEF IInv, SendersSane, rows
  <2>1. senders[t].of \in Nat /\ senders[t].of <= poll
    BY TheSender
  <2>2. QED
    BY <1>2, <2>1
<1>5. ASSUME NEW t \in Task, senders[t] # NoSender PROVE ~Context(t)'
  <2>1. senders[t].of \in Nat /\ senders[t].of <= poll
    BY <1>5, TheSender
  <2>2. QED
    BY <1>1, <1>2, <2>1 DEF Context, StartPoll, EndPoll
<1>6. LiveSendersPersist'
  BY <1>1, <1>5 DEF LiveSendersPersist
<1>7. QED
  BY <1>3, <1>4, <1>6 DEF IInv

(* The page and the legacy page of destinations.                           *)
LEMMA PageKeeps ==
    ASSUME IInv, UNCHANGED <<rows, pollerVars, senders, recorded>>
    PROVE  IInv'
BY DEF IInv, Bounded, SendersSane, LiveSendersPersist, rows, pollerVars, Context, Past, Parses

LEMMA ServerKeeps ==
    ASSUME IInv, NEW c \in Call, CreateDestination(c) \/ DeleteDestination(c)
    PROVE  IInv'
<1>1. /\ enabled \subseteq stored /\ stored \subseteq drawn
      /\ alert \in [Alert -> {None, "open", "resolved", "gone"}]
  BY DEF IInv, Bounded
<1>2. UNCHANGED <<pollerVars, senders>>
  BY DEF CreateDestination, DeleteDestination
<1>3. CASE CreateDestination(c)
  BY <1>1, <1>2, <1>3, RowsKeep DEF CreateDestination, pollerVars
<1>4. CASE DeleteDestination(c)
  BY <1>1, <1>2, <1>4, RowsKeep DEF DeleteDestination, CascadesDeliveries, pollerVars
<1>5. QED
  BY <1>3, <1>4

(* While its poll runs, and as long as no statement of the poller fails, a *)
(* sender of a URL that parses gives up only after a success or the last   *)
(* attempt, and each attempt is recorded unless the destination or the     *)
(* alert was deleted.                                                      *)
THEOREM SendersOfALivePoll ==
    ASSUME Faults = FALSE
    PROVE  Spec => []LiveSendersPersist
<1> USE WebhooksAssumption
<1>1. Init => IInv
  <2> SUFFICES ASSUME Init PROVE IInv
    OBVIOUS
  <2>1. Bounded
    <3>1. poll \in 0..Polls
      BY DEF Init
    <3>2. live = FALSE /\ enabled = stored /\ stored = drawn
      BY DEF Init
    <3>3. alert \in [Alert -> {None, "open", "resolved", "gone"}]
      BY DEF Init
    <3>4. QED
      BY <3>1, <3>2, <3>3 DEF Bounded
  <2>2. senders \in [Task -> Sender \cup {NoSender}] /\ \A t \in Task : senders[t] = NoSender
    BY DEF Init
  <2>3. QED
    BY <2>1, <2>2 DEF IInv, SendersSane, LiveSendersPersist
<1>2. IInv /\ [Next]_vars => IInv'
  <2> SUFFICES ASSUME IInv, [Next]_vars PROVE IInv'
    OBVIOUS
  <2>1. CASE UNCHANGED <<rows, pollerVars, senders, recorded>>
    BY <2>1, PageKeeps
  <2>2. ASSUME NEW c \in Call, CreateDestination(c) \/ DeleteDestination(c) PROVE IInv'
    BY <2>2, ServerKeeps
  <2>3. ASSUME NEW w \in Webhook, UpdateDestination(w) PROVE IInv'
    <3>1. enabled' \subseteq stored
      BY <2>3 DEF UpdateDestination, IInv, Bounded
    <3>2. QED
      BY <2>3, <3>1, RowsKeep DEF UpdateDestination, IInv, Bounded, pollerVars
  <2>4. CASE StartPoll \/ EndPoll
    BY <2>4, PollsKeep
  <2>5. ASSUME NEW a \in Alert, raiseAlert(a) \/ clearAlert(a) \/ RaiseIncident(a) PROVE IInv'
    BY <2>5, AlertsKeep DEF raiseAlert, clearAlert, RaiseIncident
  <2>6. ASSUME NEW t \in Task, sendWebhook(t) PROVE IInv'
    BY <2>6, AttemptKeeps, RecordKeeps, BackoffKeeps DEF sendWebhook
  <2>7. CASE DeleteDevice
    BY <2>7, DeviceKeeps
  <2>8. QED
    BY <2>1, <2>2, <2>3, <2>4, <2>5, <2>6, <2>7 DEF Next, vars, rows, page, OpenDialog, toggleEvent,
       handleDelete, handleTest, handleSubmit, Start, Visit, loadWebhooks, Answered,
       ListDestinations, TestDestination, Refuse
<1>3. IInv => LiveSendersPersist
  BY DEF IInv
<1>4. QED
  BY <1>1, <1>2, <1>3, PTL DEF Spec
-----------------------------------------------------------------------------
(* The legacy settings page (module AdminSettings), with one handler at a  *)
(* time: a handler in progress, and the rows it reads, have these fields.  *)
HandlerFields == {"op", "id", "plan", "on", "stage", "read", "left"}
RowFields     == {"plan", "invites", "destinations", "enabled"}
Rows(t)   == t = [f \in RowFields |-> t[f]]
Shaped(r) == r = [f \in HandlerFields |-> r[f]] /\ Rows(r.read)

(* The rows a handler that loads has read so far are the rows stored.      *)
ReadsStored(r) ==
    r.stage = "load" =>
        /\ "plan" \notin r.left => r.read.plan = tables.plan
        /\ "invites" \notin r.left => r.read.invites = tables.invites
        /\ "destinations" \notin r.left =>
              r.read.destinations = tables.destinations /\ r.read.enabled = tables.enabled

(* A handler that made a change, or may have, and will load.               *)
WillLoad(r) == r.stage \in {"ok", "load", "unread"}

Waiting == handlers[One] # Settings!Idle

SettingsInv ==
    /\ handlers = [c \in {One} |-> handlers[c]] /\ Rows(tables)
    /\ banner \in BOOLEAN /\ unsure \in BOOLEAN
    /\ Waiting => Shaped(handlers[One]) /\ ReadsStored(handlers[One])
    /\ banner \/ unsure \/ settings = tables \/ (Waiting /\ WillLoad(handlers[One]))

LEMMA SameNames ==
    /\ Settings!None = "none" /\ Tabs!None = "none"
    /\ Tabs!Idle = Settings!Idle /\ Tabs!NoRows = Settings!NoRows
    /\ Settings!Idle' = Settings!Idle
    /\ Rows(Settings!NoRows)
BY DEF Settings!None, Tabs!None, Tabs!Idle, Settings!Idle, Tabs!NoRows, Settings!NoRows, Rows, RowFields

LEMMA NotIdleShaped ==
    ASSUME NEW r, Shaped(r)
    PROVE  r # Settings!Idle
<1>1. r = [f \in HandlerFields |-> r[f]] /\ "stage" \in HandlerFields
  BY DEF Shaped, HandlerFields
<1>2. QED
  BY <1>1 DEF Settings!Idle

(* The handler replaced, the rows as they were.                            *)
LEMMA HandlerReplaced ==
    ASSUME SettingsInv, NEW r, handlers' = [handlers EXCEPT ![One] = r],
           Shaped(r), tables' = tables, ReadsStored(r), banner' \in BOOLEAN, unsure' \in BOOLEAN,
           \/ WillLoad(r)
           \/ UNCHANGED <<settings, banner, unsure>> /\ ~(Waiting /\ WillLoad(handlers[One]))
           \/ unsure' = TRUE
    PROVE  SettingsInv'
<1>1. handlers' = [c \in {One} |-> handlers'[c]] /\ handlers'[One] = r
  BY DEF SettingsInv
<1>2. r # Settings!Idle
  BY NotIdleShaped
<1>3. Waiting' /\ Rows(tables)' /\ ReadsStored(r)'
  BY <1>1, <1>2, SameNames DEF Waiting, SettingsInv, Rows, ReadsStored
<1> HIDE DEF Shaped, WillLoad, ReadsStored, Rows
<1>4. QED
  BY <1>1, <1>3 DEF SettingsInv, Waiting

(* The handler over.                                                       *)
LEMMA HandlerOver ==
    ASSUME SettingsInv, handlers' = [handlers EXCEPT ![One] = Settings!Idle], tables' = tables,
           banner' \in BOOLEAN, unsure' \in BOOLEAN,
           \/ settings' = tables \/ banner' = TRUE
           \/ UNCHANGED <<settings, banner, unsure>> /\ ~(Waiting /\ WillLoad(handlers[One]))
    PROVE  SettingsInv'
<1>1. handlers' = [c \in {One} |-> handlers'[c]] /\ handlers'[One] = Settings!Idle
  BY DEF SettingsInv
<1>2. ~Waiting' /\ Rows(tables)'
  BY <1>1, SameNames DEF Waiting, SettingsInv, Rows
<1> HIDE DEF Shaped, WillLoad, ReadsStored, Rows
<1>3. QED
  BY <1>1, <1>2 DEF SettingsInv

LEMMA SettingsStart ==
    ASSUME SettingsInv, NEW op, NEW id, NEW mark, Settings!Start(One, op, id, mark)
    PROVE  SettingsInv'
<1> DEFINE r == Settings!New(op, id)
<1>1. /\ handlers' = [handlers EXCEPT ![One] = r] /\ ~Waiting
      /\ UNCHANGED <<tables, settings, banner, unsure>>
  BY DEF Settings!Start, Settings!Free, Waiting
<1>2. Shaped(r) /\ r.stage = "sent"
  BY SameNames DEF Settings!New, Shaped, HandlerFields
<1> HIDE DEF r
<1>3. ReadsStored(r) /\ banner' \in BOOLEAN /\ unsure' \in BOOLEAN
  BY <1>1, <1>2 DEF ReadsStored, SettingsInv
<1>4. QED
  BY <1>1, <1>2, <1>3, HandlerReplaced

LEMMA SettingsServer ==
    ASSUME SettingsInv, Settings!Server(One)
    PROVE  SettingsInv'
<1> DEFINE old == handlers[One]
<1>0. Waiting /\ Shaped(old) /\ ReadsStored(old) /\ UNCHANGED <<settings, banner>>
      /\ banner' \in BOOLEAN /\ unsure' \in BOOLEAN
  BY DEF SettingsInv, Waiting, Settings!Server, Settings!Draw, Settings!Write, Settings!UpdateNothing,
         Settings!Refuse, Settings!LoseAnswer, Settings!RefusePart, Settings!ReadPart, Settings!Sent,
         Settings!Others
<1>1. CASE \/ Settings!Draw(One, "createInvite", "invites", Invite)
           \/ Settings!Draw(One, "createWebhook", "destinations", Hook)
           \/ Settings!Write(One) \/ Settings!UpdateNothing(One)
  <2> DEFINE r == [old EXCEPT !.stage = "ok"]
  <2>1. handlers' = [handlers EXCEPT ![One] = r]
    BY <1>1 DEF Settings!Draw, Settings!Write, Settings!UpdateNothing, Settings!Answered
  <2>2. Shaped(r) /\ r.stage = "ok"
    BY <1>0 DEF Shaped, HandlerFields
  <2>3. handlers' = [c \in {One} |-> handlers'[c]] /\ handlers'[One] = r
    BY <2>1 DEF SettingsInv
  <2> HIDE DEF r
  <2>4. Waiting'
    BY <2>2, <2>3, NotIdleShaped, SameNames DEF Waiting
  <2>5. Rows(tables')
    <3>1. Rows(tables)
      BY DEF SettingsInv
    <3>2. CASE \/ Settings!Draw(One, "createInvite", "invites", Invite)
               \/ Settings!Draw(One, "createWebhook", "destinations", Hook)
      BY <3>1, <3>2 DEF Settings!Draw, Rows, RowFields
    <3>3. CASE Settings!Write(One)
      BY <3>1, <3>3 DEF Settings!Write, Rows, RowFields
    <3>4. CASE Settings!UpdateNothing(One)
      BY <3>1, <3>4 DEF Settings!UpdateNothing
    <3>5. QED
      BY <1>1, <3>2, <3>3, <3>4
  <2>6. QED
    BY <1>0, <2>2, <2>3, <2>4, <2>5 DEF SettingsInv, ReadsStored, WillLoad, Rows
<1>2. CASE Settings!Refuse(One)
  <2> DEFINE r == [old EXCEPT !.stage = "refused"]
  <2>1. handlers' = [handlers EXCEPT ![One] = r] /\ UNCHANGED <<tables, unsure>> /\ old.stage = "sent"
    BY <1>2 DEF Settings!Refuse, Settings!Others, Settings!Sent
  <2>2. Shaped(r) /\ r.stage = "refused"
    BY <1>0 DEF Shaped, HandlerFields
  <2> HIDE DEF r
  <2>3. ReadsStored(r) /\ ~WillLoad(old)
    BY <2>1, <2>2 DEF ReadsStored, WillLoad
  <2>4. QED
    BY <1>0, <2>1, <2>2, <2>3, HandlerReplaced
<1>3. CASE Settings!LoseAnswer(One)
  <2> DEFINE r == [old EXCEPT !.stage = "refused"]
  <2>1. handlers' = [handlers EXCEPT ![One] = r] /\ tables' = tables /\ unsure' = TRUE
    BY <1>3 DEF Settings!LoseAnswer
  <2>2. Shaped(r) /\ r.stage = "refused"
    BY <1>0 DEF Shaped, HandlerFields
  <2> HIDE DEF r
  <2>3. ReadsStored(r)
    BY <2>2 DEF ReadsStored
  <2>4. QED
    BY <1>0, <2>1, <2>2, <2>3, HandlerReplaced
<1>4. CASE Settings!RefusePart(One)
  <2> DEFINE r == [old EXCEPT !.stage = "unread"]
  <2>1. handlers' = [handlers EXCEPT ![One] = r] /\ tables' = tables
    BY <1>4 DEF Settings!RefusePart
  <2>2. Shaped(r) /\ r.stage = "unread"
    BY <1>0 DEF Shaped, HandlerFields
  <2> HIDE DEF r
  <2>3. ReadsStored(r) /\ WillLoad(r)
    BY <2>2 DEF ReadsStored, WillLoad
  <2>4. QED
    BY <1>0, <2>1, <2>2, <2>3, HandlerReplaced
<1>5. ASSUME NEW p \in Settings!Parts, Settings!ReadPart(One, p) PROVE SettingsInv'
  <2> DEFINE x == IF p = "plan" THEN [old.read EXCEPT !.plan = tables.plan]
                  ELSE IF p = "invites" THEN [old.read EXCEPT !.invites = tables.invites]
                  ELSE [old.read EXCEPT !.destinations = tables.destinations, !.enabled = tables.enabled]
             r == [old EXCEPT !.left = @ \ {p}, !.read = x]
  <2>1. handlers' = [handlers EXCEPT ![One] = r] /\ tables' = tables /\ old.stage = "load"
    BY <1>5 DEF Settings!ReadPart
  <2>2. /\ Rows(x)
        /\ x.plan = IF p = "plan" THEN tables.plan ELSE old.read.plan
        /\ x.invites = IF p = "invites" THEN tables.invites ELSE old.read.invites
        /\ x.destinations = IF p \in {"plan", "invites"} THEN old.read.destinations ELSE tables.destinations
        /\ x.enabled = IF p \in {"plan", "invites"} THEN old.read.enabled ELSE tables.enabled
    BY <1>0 DEF Shaped, Rows, RowFields
  <2> HIDE DEF x
  <2>3. /\ r = [f \in HandlerFields |-> r[f]]
        /\ r.stage = old.stage /\ r.left = old.left \ {p} /\ r.read = x
    BY <1>0 DEF Shaped, HandlerFields
  <2> HIDE DEF r
  <2>4. Shaped(r) /\ WillLoad(r)
    BY <2>1, <2>2, <2>3 DEF Shaped, WillLoad
  <2>5. ReadsStored(r)
    BY <1>0, <2>1, <2>2, <2>3 DEF ReadsStored, Settings!Parts
  <2>6. QED
    BY <1>0, <2>1, <2>4, <2>5, HandlerReplaced
<1>6. QED
  BY <1>1, <1>2, <1>3, <1>4, <1>5 DEF Settings!Server

LEMMA SettingsContinue ==
    ASSUME SettingsInv,
           \/ Settings!ThenLoad(One) \/ Settings!LoadAnswered(One) \/ Settings!LoadFailed(One)
           \/ Settings!Refused(One)
    PROVE  SettingsInv'
<1> DEFINE old == handlers[One]
<1>0. Waiting /\ Shaped(old) /\ ReadsStored(old) /\ tables' = tables /\ banner' \in BOOLEAN /\ unsure' \in BOOLEAN
  BY DEF SettingsInv, Waiting, Settings!ThenLoad, Settings!LoadAnswered, Settings!LoadFailed, Settings!Refused
<1>1. CASE Settings!ThenLoad(One)
  <2> DEFINE r == Settings!Load(One)
  <2>1. handlers' = [handlers EXCEPT ![One] = r]
    BY <1>1 DEF Settings!ThenLoad
  <2>2. Shaped(r) /\ r.stage = "load" /\ r.left = Settings!Parts
    BY <1>0 DEF Settings!Load, Shaped, HandlerFields
  <2> HIDE DEF r
  <2>3. ReadsStored(r) /\ WillLoad(r)
    BY <2>2 DEF ReadsStored, WillLoad, Settings!Parts
  <2>4. QED
    BY <1>0, <2>1, <2>2, <2>3, HandlerReplaced
<1>2. CASE Settings!LoadAnswered(One)
  <2>1. /\ handlers' = [handlers EXCEPT ![One] = Settings!Idle] /\ settings' = old.read
        /\ old.stage = "load" /\ old.left = {}
    BY <1>2 DEF Settings!LoadAnswered, Settings!End
  <2>2. /\ old.read.plan = tables.plan /\ old.read.invites = tables.invites
        /\ old.read.destinations = tables.destinations /\ old.read.enabled = tables.enabled
    BY <1>0, <2>1 DEF ReadsStored
  <2>3. Rows(old.read) /\ Rows(tables)
    BY <1>0 DEF Shaped, SettingsInv
  <2>4. old.read = tables
    BY <2>2, <2>3 DEF Rows, RowFields
  <2>5. QED
    BY <1>0, <2>1, <2>4, HandlerOver
<1>3. CASE Settings!LoadFailed(One)
  <2>1. handlers' = [handlers EXCEPT ![One] = Settings!Idle] /\ banner' = TRUE
    BY <1>3 DEF Settings!LoadFailed, Settings!End
  <2>2. QED
    BY <1>0, <2>1, HandlerOver
<1>4. CASE Settings!Refused(One)
  <2>1. /\ handlers' = [handlers EXCEPT ![One] = Settings!Idle] /\ UNCHANGED <<settings, banner, unsure>>
        /\ ~WillLoad(old)
    BY <1>4 DEF Settings!Refused, Settings!End, WillLoad
  <2>2. QED
    BY <1>0, <2>1, HandlerOver
<1>5. QED
  BY <1>1, <1>2, <1>3, <1>4

LEMMA SettingsStep ==
    ASSUME SettingsInv, [Settings!Next]_(Settings!vars)
    PROVE  SettingsInv'
<1>1. ASSUME UNCHANGED <<tables, settings, banner, unsure, handlers>> PROVE SettingsInv'
  BY <1>1, SameNames DEF SettingsInv, Waiting, Rows, ReadsStored, WillLoad
<1>2. CASE \/ UNCHANGED Settings!vars \/ Settings!Cancel \/ Settings!RenderTab \/ Settings!RenderUrl
           \/ \E op \in Settings!Deletes, id \in Invite \cup Hook : Settings!AskDelete(op, id)
           \/ \E p \in Plan : Settings!TypePlan(p)
           \/ \E t \in {"billing"} : Settings!ClickTab(t) \/ Settings!FollowLink(t)
  BY <1>1, <1>2 DEF Settings!vars, Settings!Cancel, Settings!RenderTab, Settings!RenderUrl, Settings!AskDelete,
                    Settings!TypePlan, Settings!ClickTab, Settings!FollowLink, Settings!Render, Settings!page
<1>3. CASE \/ \E op \in Settings!Forms : Settings!SubmitForm(One, op)
           \/ \E w \in Hook : Settings!toggleWebhookEnabled(One, w)
           \/ Settings!ConfirmDelete(One)
  BY <1>3, SettingsStart DEF Settings!SubmitForm, Settings!toggleWebhookEnabled, Settings!ConfirmDelete
<1>4. QED
  BY <1>2, <1>3, SettingsServer, SettingsContinue DEF Settings!Next

LEMMA SettingsInit ==
    ASSUME Settings!Init \/ Tabs!Init
    PROVE  SettingsInv
<1> DEFINE r == [op |-> "load", id |-> "none", plan |-> "none", on |-> TRUE,
                 stage |-> "load", read |-> Settings!NoRows, left |-> Settings!Parts]
<1>1. /\ handlers = [c \in {One} |-> IF c = One THEN r ELSE Settings!Idle]
      /\ \E p \in Plan : tables = [Settings!NoRows EXCEPT !.plan = p]
      /\ banner = FALSE /\ unsure = FALSE
  BY SameNames DEF Settings!Init, Tabs!Init, Settings!Parts, Tabs!Parts
<1>2. Shaped(r) /\ r.stage = "load" /\ r.left = Settings!Parts
  BY SameNames DEF Shaped, HandlerFields
<1> HIDE DEF r
<1>3. handlers[One] = r /\ handlers = [c \in {One} |-> handlers[c]] /\ Rows(tables)
  BY <1>1 DEF Settings!NoRows, Rows, RowFields
<1>4. ReadsStored(r) /\ WillLoad(r) /\ Waiting
  BY <1>2, <1>3, NotIdleShaped DEF ReadsStored, WillLoad, Settings!Parts, Waiting
<1>5. QED
  BY <1>1, <1>2, <1>3, <1>4 DEF SettingsInv

(* The page with tabs and no button does nothing else to the rows than the *)
(* page with every button.                                                 *)
LEMMA TabsStep ==
    ASSUME SettingsInv, [Tabs!Next]_(Tabs!vars)
    PROVE  SettingsInv'
<1>1. ASSUME UNCHANGED <<tables, settings, banner, unsure, handlers>> PROVE SettingsInv'
  BY <1>1, SameNames DEF SettingsInv, Waiting, Rows, ReadsStored, WillLoad
<1>2. CASE \/ UNCHANGED Tabs!vars \/ Tabs!Cancel \/ Tabs!RenderTab \/ Tabs!RenderUrl
           \/ \E op \in Tabs!Deletes, id \in Invite \cup Hook : Tabs!AskDelete(op, id)
           \/ \E p \in Plan : Tabs!TypePlan(p)
           \/ \E t \in TabNames : Tabs!ClickTab(t) \/ Tabs!FollowLink(t)
  BY <1>1, <1>2 DEF Tabs!vars, Tabs!Cancel, Tabs!RenderTab, Tabs!RenderUrl, Tabs!AskDelete,
                    Tabs!TypePlan, Tabs!ClickTab, Tabs!FollowLink, Tabs!Render, Tabs!page
<1>3. CASE \/ \E op \in Tabs!Forms : Tabs!SubmitForm(One, op)
           \/ \E w \in Hook : Tabs!toggleWebhookEnabled(One, w)
           \/ Tabs!ConfirmDelete(One)
  BY <1>3 DEF Tabs!SubmitForm, Tabs!toggleWebhookEnabled, Tabs!ConfirmDelete, Tabs!Start
<1>4. Tabs!tabs = Settings!tabs /\ Tabs!Others = Settings!Others /\ Tabs!Others' = Settings!Others'
  BY DEF Tabs!tabs, Settings!tabs, Tabs!Others, Settings!Others
<1>5. CASE Tabs!Server(One)
  <2>1. \A op : Tabs!Sent(One, op) <=> Settings!Sent(One, op)
    BY SameNames DEF Tabs!Sent, Settings!Sent
  <2>2. Tabs!Answered(One) <=> Settings!Answered(One)
    BY DEF Tabs!Answered, Settings!Answered
  <2>3. CASE \/ Tabs!Draw(One, "createInvite", "invites", Invite)
             \/ Tabs!Draw(One, "createWebhook", "destinations", Hook)
    <3>1. \/ Settings!Draw(One, "createInvite", "invites", Invite)
          \/ Settings!Draw(One, "createWebhook", "destinations", Hook)
      BY <1>4, <2>1, <2>2, <2>3 DEF Tabs!Draw, Settings!Draw
    <3>2. QED
      BY <3>1, SettingsServer DEF Settings!Server
  <2>4. CASE Tabs!Write(One)
    <3>1. Settings!Write(One)
      BY <1>4, <2>1, <2>2, <2>4 DEF Tabs!Write, Settings!Write
    <3>2. QED
      BY <3>1, SettingsServer DEF Settings!Server
  <2>5. CASE Tabs!UpdateNothing(One) \/ Tabs!Refuse(One)
    <3>1. Settings!UpdateNothing(One) \/ Settings!Refuse(One)
      BY <1>4, <2>1, <2>2, <2>5 DEF Tabs!UpdateNothing, Settings!UpdateNothing, Tabs!Refuse, Settings!Refuse,
         Tabs!Handlers, Settings!Handlers, Tabs!Forms, Settings!Forms, Tabs!Deletes, Settings!Deletes
    <3>2. QED
      BY <3>1, SettingsServer DEF Settings!Server
  <2>6. ASSUME NEW p \in Tabs!Parts, Tabs!ReadPart(One, p) PROVE SettingsInv'
    <3>1. Settings!ReadPart(One, p) /\ p \in Settings!Parts
      BY <1>4, <2>6, SameNames DEF Tabs!ReadPart, Settings!ReadPart, Tabs!Parts, Settings!Parts
    <3>2. QED
      BY <3>1, SettingsServer DEF Settings!Server
  <2>7. ~Tabs!LoseAnswer(One) /\ ~Tabs!RefusePart(One)
    BY DEF Tabs!LoseAnswer, Tabs!RefusePart
  <2>8. QED
    BY <1>5, <2>3, <2>4, <2>5, <2>6, <2>7 DEF Tabs!Server
<1>6. CASE Tabs!ThenLoad(One) \/ Tabs!LoadAnswered(One) \/ Tabs!LoadFailed(One) \/ Tabs!Refused(One)
  <2>1. Tabs!Load(One) = Settings!Load(One)
    BY DEF Tabs!Load, Settings!Load, Tabs!Parts, Settings!Parts
  <2>2. Tabs!End(One) <=> Settings!End(One)
    BY SameNames DEF Tabs!End, Settings!End, Tabs!Finally, Settings!Finally
  <2>3. Settings!ThenLoad(One) \/ Settings!LoadAnswered(One) \/ Settings!LoadFailed(One) \/ Settings!Refused(One)
    BY <1>4, <1>6, <2>1, <2>2, SameNames
    DEF Tabs!ThenLoad, Settings!ThenLoad, Tabs!LoadAnswered, Settings!LoadAnswered, Tabs!LoadFailed,
        Settings!LoadFailed, Tabs!Refused, Settings!Refused, Tabs!tabs, Settings!tabs
  <2>4. QED
    BY <2>3, SettingsContinue
<1>7. QED
  BY <1>2, <1>3, <1>5, <1>6 DEF Tabs!Next

LEMMA SettingsShown == SettingsInv => Settings!ShownIsStored
BY DEF SettingsInv, Settings!ShownIsStored, Settings!Free, Waiting
-----------------------------------------------------------------------------
(* The lists (module ListPages).  On the pages of incidents and of         *)
(* switches something tells, at every moment, why the list is empty.       *)
ListsInv ==
    /\ updated \in BOOLEAN /\ loading \in BOOLEAN /\ failed \in BOOLEAN
    /\ listed \in {"alerts", "switches"} => updated \/ loading \/ failed

LEMMA ListsStep ==
    ASSUME ListsInv, [Tables!Next]_(Tables!vars)
    PROVE  ListsInv'
<1>1. CASE UNCHANGED Tables!vars
  BY <1>1 DEF Tables!vars, ListsInv
<1>2. ASSUME NEW p, NEW again \in BOOLEAN, p = listed, Tables!Begin(p, again),
             UNCHANGED <<listed, updated>>, again => updated
      PROVE  ListsInv'
  BY <1>2 DEF Tables!Begin, ListsInv
<1>3. ASSUME NEW c \in Loader, Tables!Tick(c) \/ Tables!Refresh(c) PROVE ListsInv'
  BY <1>2, <1>3 DEF Tables!Tick, Tables!Refresh, ListsInv
<1>4. ASSUME NEW c \in Loader, \/ Tables!ClickReload(c) \/ Tables!pollAllDevices(c) \/ Tables!PollsAnswered(c)
                             \/ \E q \in Tables!Part : Tables!Answer(c, q) \/ Tables!Fail(c, q)
      PROVE  ListsInv'
  BY <1>4 DEF Tables!ClickReload, Tables!pollAllDevices, Tables!PollsAnswered, Tables!Answer, Tables!Fail, ListsInv
<1>5. ASSUME NEW c \in Loader, Tables!Deliver(c) PROVE ListsInv'
  BY <1>5 DEF Tables!Deliver, Tables!Finally, ListsInv
<1>6. ASSUME NEW c \in Loader, Tables!Failed(c) PROVE ListsInv'
  BY <1>6 DEF Tables!Failed, Tables!Finally, Tables!ErrorAfter, ListsInv
<1>7. ASSUME NEW p, Tables!Visit(p) PROVE ListsInv'
  BY <1>7 DEF Tables!Visit, ListsInv
<1>8. ASSUME NEW q, NEW rows2, Tables!Change(q, rows2) \/ Tables!Search(rows2) PROVE ListsInv'
  BY <1>8 DEF Tables!Change, Tables!Search, ListsInv
<1>9. QED
  BY <1>1, <1>3, <1>4, <1>5, <1>6, <1>7, <1>8 DEF Tables!Next, Tables!Settle

LEMMA ListsInit ==
    ASSUME Tables!Init
    PROVE  ListsInv
BY DEF Tables!Init, ListsInv
-----------------------------------------------------------------------------
(* The session and the frame (module LegacySession), without its other     *)
(* forms.  A request has these fields.                                     *)
RequestFields == {"op", "pc", "here", "at", "to"}
Asks(r)       == r = [f \in RequestFields |-> r[f]] /\ r.here \in BOOLEAN

(* A request of the frame that is mounted, and one whose answer will reset *)
(* it: the session changed with it.                                        *)
Of(r)     == r.op = "tenant" /\ r.here
Resets(r) == r.op \in {"switch", "logout"} /\ r.pc \in {"open", "ok"}

Pending(c) == requests[c] # Frame!Idle
Reset      == \E c \in Request : Pending(c) /\ Resets(requests[c])

InFrame == Frame!Inside(route, user, checking)

FrameInv ==
    /\ requests = [c \in Request |-> requests[c]] /\ \A c \in Request : Pending(c) => Asks(requests[c])
    /\ user \in BOOLEAN /\ checking \in BOOLEAN /\ submitting \in BOOLEAN /\ accepted = FALSE
    /\ route = "login" => ~user
    /\ checking => ~user /\ \A c \in Request : Pending(c) => requests[c].op = "me"
    /\ \A c, d \in Request : Pending(c) /\ Pending(d) /\ requests[c].op = "me" => c = d /\ checking
    /\ \A c \in Request : Pending(c) => requests[c].op # "invite"
    /\ \A c \in Request : Pending(c) /\ requests[c].op = "login" =>
          /\ route = "login" /\ ~user /\ submitting /\ requests[c].here
          /\ \A d \in Request : Pending(d) /\ requests[d].op = "login" => c = d
    /\ active # "none" => InFrame
    /\ \A c \in Request : Pending(c) /\ Of(requests[c]) => InFrame
    /\ \A c \in Request : Pending(c) /\ Of(requests[c]) => requests[c].at = cookie \/ Reset
    /\ active \in {"none", cookie} \/ Reset

LEMMA FrameNames ==
    /\ Frame!None = "none" /\ Frame!Idle' = Frame!Idle
    /\ \A r : Asks(r) => r # Frame!Idle
<1>1. \A r : Asks(r) => r # Frame!Idle
  <2>1. SUFFICES ASSUME NEW r, Asks(r) PROVE r # Frame!Idle
    OBVIOUS
  <2>2. r = [f \in RequestFields |-> r[f]] /\ "pc" \in RequestFields
    BY <2>1 DEF Asks, RequestFields
  <2>3. QED
    BY <2>2 DEF Frame!Idle
<1>2. QED
  BY <1>1 DEF Frame!None, Frame!Idle

LEMMA AsksNew ==
    ASSUME NEW op, NEW to
    PROVE  /\ Asks(Frame!Sent(op, to)) /\ Frame!Sent(op, to).op = op /\ Frame!Sent(op, to).pc = "sent"
           /\ Frame!Sent(op, to).here /\ Frame!Sent(op, to).at = cookie
BY DEF Frame!Sent, Asks, RequestFields

(* A request replaced, begun or ended.                                     *)
LEMMA RequestReplaced ==
    ASSUME FrameInv, NEW c \in Request, NEW r, requests' = [requests EXCEPT ![c] = r]
    PROVE  /\ requests' = [d \in Request |-> requests'[d]]
           /\ requests'[c] = r /\ \A d \in Request \ {c} : requests'[d] = requests[d]
           /\ Pending(c)' <=> r # Frame!Idle
           /\ \A d \in Request \ {c} : Pending(d)' <=> Pending(d)
<1>1. /\ requests' = [d \in Request |-> requests'[d]]
      /\ requests'[c] = r /\ \A d \in Request \ {c} : requests'[d] = requests[d]
  BY DEF FrameInv
<1>2. QED
  BY <1>1, FrameNames DEF Pending

(* A fresh document.                                                       *)
LEMMA FrameMounted ==
    ASSUME FrameInv, NEW p, Frame!Mounted(p)
    PROVE  FrameInv'
<1>1. PICK c \in Request : requests' = [Frame!NoCalls EXCEPT ![c] = Frame!Sent("me", Frame!None)]
  BY DEF Frame!Mounted
<1>2. requests' = [d \in Request |-> requests'[d]] /\ Asks(requests'[c]) /\ requests'[c].op = "me"
  BY <1>1, AsksNew DEF Frame!NoCalls
<1>3. \A d \in Request : Pending(d)' => d = c
  BY <1>1, FrameNames DEF Frame!NoCalls, Pending
<1>4. /\ user' = FALSE /\ checking' = TRUE /\ submitting' = FALSE /\ accepted' = FALSE /\ active' = "none"
  BY FrameNames DEF Frame!Mounted
<1>5. QED
  BY <1>2, <1>3, <1>4 DEF FrameInv, Of

(* The headers of an answer come, or its body.                             *)
LEMMA FrameRespond ==
    ASSUME FrameInv, NEW c \in Request, Frame!Respond(c) \/ Frame!Body(c)
    PROVE  FrameInv'
<1> DEFINE old == requests[c]
<1>0. /\ Pending(c) /\ Asks(old) /\ old.pc \in {"sent", "open"} /\ old.op # "invite"
      /\ UNCHANGED <<user, checking, route, submitting, accepted, active>>
  BY DEF FrameInv, Pending, Frame!Respond, Frame!Body, Frame!Opened, Frame!Free, Frame!Shown
<1>1. PICK s \in {"open", "ok", "401", "failed"} :
          /\ Frame!Answer(c, s) /\ (old.pc = "open" => s = "ok")
          /\ \/ cookie' = cookie
             \/ old.op \in {"switch", "logout"} /\ s = "open"
             \/ old.op = "login"
  <2>1. CASE Frame!Respond(c)
    BY <1>0, <2>1 DEF Frame!Respond
  <2>2. CASE Frame!Body(c)
    BY <2>2 DEF Frame!Body
  <2>3. QED
    BY <2>1, <2>2
<1> DEFINE r == [old EXCEPT !.pc = s]
<1>2. requests' = [requests EXCEPT ![c] = r]
  BY <1>1 DEF Frame!Answer
<1>3. Asks(r) /\ r.pc = s /\ r.op = old.op /\ r.here = old.here /\ r.at = old.at
  BY <1>0 DEF Asks, RequestFields
<1> HIDE DEF r
<1>4. /\ requests' = [d \in Request |-> requests'[d]]
      /\ requests'[c] = r /\ \A d \in Request \ {c} : requests'[d] = requests[d]
      /\ \A d \in Request : Pending(d)' <=> Pending(d)
  BY <1>0, <1>2, <1>3, RequestReplaced, FrameNames
<1>5. \A d \in Request : Pending(d) => /\ Asks(requests'[d]) /\ requests'[d].op = requests[d].op
                                       /\ requests'[d].here = requests[d].here /\ requests'[d].at = requests[d].at
  BY <1>3, <1>4 DEF FrameInv
<1>6. Reset => Reset'
  BY <1>0, <1>1, <1>3, <1>4 DEF Reset, Resets
<1>7. InFrame' <=> InFrame
  BY <1>0 DEF InFrame, Frame!Inside
<1>8. cookie' = cookie \/ Reset' \/ (active = "none" /\ \A d \in Request : Pending(d) => ~Of(requests[d]))
  <2>1. CASE old.op = "login"
    BY <1>0, <2>1 DEF FrameInv, InFrame, Frame!Inside
  <2>2. CASE old.op \in {"switch", "logout"} /\ s = "open"
    BY <1>0, <1>3, <1>4, <2>2 DEF Reset, Resets
  <2>3. QED
    BY <1>1, <2>1, <2>2
<1>9. QED
  <2>1. \A d \in Request : Pending(d) => (Of(requests'[d]) <=> Of(requests[d]))
    BY <1>5 DEF Of
  <2>2. QED
    BY <1>0, <1>4, <1>5, <1>6, <1>7, <1>8, <2>1 DEF FrameInv

(* A handler sends a request; none while it is checked who is logged in.   *)
LEMMA FrameSends ==
    ASSUME FrameInv, NEW c \in Request, NEW op \in {"login", "logout", "switch"}, NEW to,
           ~Pending(c), requests' = [requests EXCEPT ![c] = Frame!Sent(op, to)],
           UNCHANGED <<cookie, user, checking, route, accepted, active>>, ~checking,
           \/ op # "login" /\ submitting' = submitting
           \/ op = "login" /\ route = "login" /\ ~user /\ ~submitting /\ submitting' = TRUE
    PROVE  FrameInv'
<1> DEFINE r == Frame!Sent(op, to)
<1>1. requests' = [requests EXCEPT ![c] = r] /\ Asks(r) /\ r.op = op /\ r.pc = "sent" /\ r.here
  BY AsksNew
<1> HIDE DEF r
<1>2. /\ requests' = [d \in Request |-> requests'[d]]
      /\ requests'[c] = r /\ \A d \in Request \ {c} : requests'[d] = requests[d]
      /\ Pending(c)' /\ \A d \in Request \ {c} : Pending(d)' <=> Pending(d)
  BY <1>1, RequestReplaced, FrameNames
<1>3. Reset' <=> Reset
  BY <1>1, <1>2 DEF Reset, Resets
<1>4. InFrame' <=> InFrame
  BY DEF InFrame, Frame!Inside
<1>5. ~Of(r)
  BY <1>1 DEF Of
<1>6. QED
  BY <1>1, <1>2, <1>3, <1>4, <1>5 DEF FrameInv

(* A request of the frame ends, the page stays.                            *)
LEMMA FrameEnds ==
    ASSUME FrameInv, NEW c \in Request, Pending(c), ~Resets(requests[c]), requests[c].op \in {"tenant", "switch"},
           requests' = [requests EXCEPT ![c] = Frame!Idle],
           UNCHANGED <<cookie, user, checking, route, submitting, accepted>>,
           active' \in {"none", active} \/ (active' = requests[c].at /\ Of(requests[c]))
    PROVE  FrameInv'
<1>1. /\ requests' = [d \in Request |-> requests'[d]]
      /\ ~Pending(c)' /\ \A d \in Request \ {c} : requests'[d] = requests[d] /\ (Pending(d)' <=> Pending(d))
  BY RequestReplaced
<1>2. Reset => Reset'
  BY <1>1 DEF Reset
<1>3. InFrame' <=> InFrame
  BY DEF InFrame, Frame!Inside
<1>4. active' \in {"none", cookie} \/ Reset'
  BY <1>2 DEF FrameInv
<1>5. active' # "none" => InFrame
  BY DEF FrameInv
<1>6. QED
  BY <1>1, <1>2, <1>3, <1>4, <1>5 DEF FrameInv

LEMMA FrameAnswered ==
    ASSUME FrameInv, NEW c \in Request, Frame!TenantAnswered(c) \/ Frame!TenantChanged(c)
    PROVE  FrameInv'
<1>1. Pending(c)
  BY DEF Frame!TenantAnswered, Frame!TenantChanged, Frame!Ended, Frame!Free, Pending
<1>2. CASE Frame!TenantAnswered(c)
  <2>1. /\ requests' = [requests EXCEPT ![c] = Frame!Idle] /\ requests[c].op = "tenant"
        /\ UNCHANGED <<cookie, user, checking, route, submitting, accepted>>
        /\ active' \in {"none", active} \/ (active' = requests[c].at /\ requests[c].here)
    BY <1>2, FrameNames DEF Frame!TenantAnswered, Frame!Ended, Frame!Done
  <2>2. QED
    BY <1>1, <2>1, FrameEnds DEF Resets, Of
<1>3. CASE Frame!TenantChanged(c) /\ requests[c].pc = "ok"
  BY <1>3, FrameMounted DEF Frame!TenantChanged, Frame!Reload
<1>4. CASE Frame!TenantChanged(c) /\ requests[c].pc # "ok"
  <2>1. /\ requests' = [requests EXCEPT ![c] = Frame!Idle] /\ requests[c].op = "switch" /\ ~Resets(requests[c])
        /\ UNCHANGED <<cookie, user, checking, route, submitting, accepted, active>>
    BY <1>4 DEF Frame!TenantChanged, Frame!Ended, Frame!Done, Frame!Shown, Resets
  <2>2. QED
    BY <1>1, <2>1, FrameEnds
<1>5. QED
  BY <1>2, <1>3, <1>4

(* Another page, or the frame mounted again: the requests left are of no   *)
(* page, and the frame asks for its tenant.                                *)
LEMMA FrameMoves ==
    ASSUME FrameInv, NEW ended, ended = [d \in Request |-> ended[d]],
           \A d \in Request : ended[d] # Frame!Idle => /\ ended[d] = requests[d] /\ ended[d].op # "login"
                                                       /\ ended[d].op = "me" => checking',
           checking' \in BOOLEAN, user' \in BOOLEAN, checking' => checking /\ ~user',
           route' = "login" => ~user',
           submitting' = FALSE, active' = "none", UNCHANGED <<accepted, cookie>>,
           IF InFrame'
           THEN \E n \in Request : /\ Frame!Left(ended)[n] = Frame!Idle
                                   /\ requests' = [Frame!Left(ended) EXCEPT ![n] = Frame!Sent("tenant", "none")]
           ELSE requests' = Frame!Left(ended)
    PROVE  FrameInv'
<1> DEFINE cs == Frame!Left(ended)
<1>1. cs = [d \in Request |-> cs[d]]
  BY DEF Frame!Left
<1>2. ASSUME NEW d \in Request, cs[d] # Frame!Idle
      PROVE  /\ Pending(d) /\ Asks(cs[d]) /\ ~cs[d].here /\ cs[d].op = requests[d].op
             /\ cs[d].op # "login" /\ (cs[d].op = "me" => checking')
  <2>1. ended[d] # Frame!Idle /\ cs[d] = [ended[d] EXCEPT !.here = FALSE]
    BY <1>2 DEF Frame!Left
  <2>2. Pending(d) /\ Asks(requests[d])
    BY <2>1 DEF Pending, FrameInv
  <2>3. QED
    BY <2>1, <2>2 DEF Asks, RequestFields
<1> HIDE DEF cs
<1>3. CASE ~InFrame'
  <2>1. requests' = cs
    BY <1>3 DEF cs
  <2>2. \A d \in Request : Pending(d)' => /\ Pending(d) /\ Asks(requests'[d]) /\ ~Of(requests'[d])
                                          /\ requests'[d].op = requests[d].op
                                          /\ requests'[d].op # "login" /\ (requests'[d].op = "me" => checking')
    BY <1>2, <2>1, FrameNames DEF Pending, Of
  <2>3. QED
    BY <1>1, <2>1, <2>2 DEF FrameInv
<1>4. CASE InFrame'
  <2>1. PICK n \in Request : cs[n] = Frame!Idle /\ requests' = [cs EXCEPT ![n] = Frame!Sent("tenant", "none")]
    BY <1>4 DEF cs
  <2>2. /\ requests' = [d \in Request |-> requests'[d]]
        /\ Asks(requests'[n]) /\ requests'[n].op = "tenant" /\ requests'[n].at = cookie
        /\ \A d \in Request \ {n} : requests'[d] = cs[d]
    BY <1>1, <2>1, AsksNew
  <2>3. \A d \in Request \ {n} :
           Pending(d)' => /\ Pending(d) /\ Asks(requests'[d]) /\ ~Of(requests'[d])
                          /\ requests'[d].op = requests[d].op
                          /\ requests'[d].op # "login" /\ (requests'[d].op = "me" => checking')
    BY <1>2, <2>2, FrameNames DEF Pending, Of
  <2>4. ~checking'
    BY <1>4 DEF InFrame, Frame!Inside
  <2>5. QED
    BY <1>4, <2>2, <2>3, <2>4 DEF FrameInv
<1>5. QED
  BY <1>3, <1>4

(* A request ends outside the frame, the page stays.                       *)
LEMMA FrameStays ==
    ASSUME FrameInv, NEW c \in Request, Pending(c), requests' = [requests EXCEPT ![c] = Frame!Idle],
           requests[c].op = "me" \/ ~checking, ~checking', ~InFrame, ~InFrame',
           checking' \in BOOLEAN, user' \in BOOLEAN, submitting' \in BOOLEAN, UNCHANGED <<route, active, accepted, cookie>>,
           route' = "login" => ~user',
           (\E d \in Request \ {c} : Pending(d) /\ requests[d].op = "login") => ~user' /\ submitting' = submitting
    PROVE  FrameInv'
<1>1. /\ requests' = [d \in Request |-> requests'[d]]
      /\ ~Pending(c)' /\ \A d \in Request \ {c} : requests'[d] = requests[d] /\ (Pending(d)' <=> Pending(d))
  BY RequestReplaced
<1>2. \A d \in Request : Pending(d)' => requests'[d].op # "me" /\ ~Of(requests'[d])
  BY <1>1 DEF FrameInv
<1>3. active' = "none"
  BY DEF FrameInv
<1>4. QED
  BY <1>1, <1>2, <1>3 DEF FrameInv

(* What remains when a request ends.                                       *)
LEMMA DoneLeaves ==
    ASSUME FrameInv, NEW c \in Request
    PROVE  /\ Frame!Done(c) = [d \in Request |-> Frame!Done(c)[d]]
           /\ Frame!Done(c)[c] = Frame!Idle
           /\ \A d \in Request : Frame!Done(c)[d] # Frame!Idle =>
                 Frame!Done(c)[d] = requests[d] /\ d # c /\ Pending(d)
           /\ Frame!Done(c) = [requests EXCEPT ![c] = Frame!Idle]
BY DEF Frame!Done, FrameInv, Pending

LEMMA FrameRefresh ==
    ASSUME FrameInv, NEW c \in Request, Frame!refresh(c)
    PROVE  FrameInv'
<1> DEFINE ended == Frame!Done(c)
<1>1. /\ Pending(c) /\ requests[c].op = "me" /\ checking /\ ~user /\ UNCHANGED <<cookie, accepted>>
  BY DEF Frame!refresh, Frame!Ended, Frame!Free, Pending, FrameInv
<1>2. ~InFrame /\ active = "none"
  BY <1>1 DEF InFrame, Frame!Inside, FrameInv
<1>3. PICK who \in {"new", "nobody", "same"} : Frame!Commit(route, who, FALSE, submitting, ended)
  BY DEF Frame!refresh, Frame!CheckingAfter
<1>4. /\ ended = [d \in Request |-> ended[d]] /\ ended = [requests EXCEPT ![c] = Frame!Idle]
      /\ \A d \in Request : ended[d] = Frame!Idle
  BY <1>1, DoneLeaves DEF FrameInv
<1> HIDE DEF ended
<1>5. Frame!Left(ended) = ended
  BY <1>4 DEF Frame!Left
<1> DEFINE u  == who = "new"
           to == Frame!Routed(route, u, FALSE)
           in == Frame!Inside(to, u, FALSE)
<1>6. /\ checking' = FALSE /\ user' = u /\ user' \in BOOLEAN /\ route' = to /\ submitting' \in BOOLEAN /\ active' = "none"
      /\ route' = "login" => ~user'
      /\ in \/ to # route => submitting' = FALSE
      /\ IF in THEN \E n \in Request : /\ ended[n] = Frame!Idle
                                       /\ requests' = [ended EXCEPT ![n] = Frame!Sent("tenant", "none")]
         ELSE requests' = ended
  <2>1. (who = "new" \/ (who = "same" /\ user)) = u
    BY <1>1
  <2>2. to = "login" => ~u
    BY DEF Frame!Routed
  <2>3. Frame!Inside(route, user, checking) = FALSE /\ submitting \in BOOLEAN
    BY <1>2 DEF InFrame, Frame!Inside, FrameInv
  <2>6. u \in BOOLEAN
    OBVIOUS
  <2> HIDE DEF u, to, in
  <2>4. /\ checking' = FALSE /\ user' = u /\ route' = to /\ submitting' \in BOOLEAN /\ active' = "none"
        /\ in \/ to # route => submitting' = FALSE
        /\ IF in THEN \E n \in Request : /\ ended[n] = Frame!Idle
                                         /\ requests' = [ended EXCEPT ![n] = Frame!Sent("tenant", "none")]
           ELSE requests' = ended
    BY <1>2, <1>3, <1>5, <2>1, <2>3, FrameNames DEF Frame!Commit, u, to, in
  <2>5. QED
    BY <2>2, <2>4, <2>6
<1>7. InFrame' <=> in
  BY <1>6 DEF InFrame, Frame!Inside
<1> HIDE DEF u, to, in
<1>8. CASE in
  <2>1. \E n \in Request : /\ Frame!Left(ended)[n] = Frame!Idle
                           /\ requests' = [Frame!Left(ended) EXCEPT ![n] = Frame!Sent("tenant", "none")]
    BY <1>5, <1>6, <1>8
  <2>2. InFrame' /\ submitting' = FALSE
    BY <1>6, <1>7, <1>8
  <2>3. \A d \in Request : ended[d] # Frame!Idle => /\ ended[d] = requests[d] /\ ended[d].op # "login"
                                                    /\ ended[d].op = "me" => checking'
    BY <1>4
  <2>4. /\ checking' = FALSE /\ user' \in BOOLEAN /\ (route' = "login" => ~user') /\ active' = "none"
        /\ ended = [d \in Request |-> ended[d]]
    BY <1>4, <1>6
  <2>5. QED
    BY <1>1, <2>1, <2>2, <2>3, <2>4, FrameMoves
<1>9. CASE ~in /\ to = route
  <2>1. \A d \in Request \ {c} : ~Pending(d)
    BY <1>1 DEF FrameInv
  <2>2. QED
    BY <1>1, <1>2, <1>4, <1>6, <1>7, <1>9, <2>1, FrameStays
<1>10. CASE ~in /\ to # route
  BY <1>1, <1>4, <1>5, <1>6, <1>7, <1>10, FrameMoves
<1>11. QED
  BY <1>8, <1>9, <1>10

LEMMA FrameLogin ==
    ASSUME FrameInv, NEW c \in Request, Frame!LoginAnswered(c)
    PROVE  FrameInv'
<1> DEFINE ended == Frame!Done(c)
<1>1. /\ Pending(c) /\ requests[c].op = "login" /\ UNCHANGED <<cookie, accepted>>
  BY DEF Frame!LoginAnswered, Frame!Ended, Frame!Free, Pending
<1>2. /\ route = "login" /\ ~user /\ ~checking /\ requests[c].here /\ ~Frame!BusyAfter(c)
      /\ \A d \in Request : Pending(d) /\ requests[d].op = "login" => d = c
  BY <1>1 DEF FrameInv, Frame!BusyAfter
<1>3. ~InFrame /\ active = "none"
  BY <1>2 DEF InFrame, Frame!Inside, FrameInv
<1>4. CASE Frame!Commit("app", "new", checking, Frame!BusyAfter(c), ended)
  <2>1. /\ route' = "app" /\ user' = TRUE /\ checking' = FALSE /\ submitting' = FALSE /\ active' = "none"
        /\ \E n \in Request : /\ Frame!Left(ended)[n] = Frame!Idle
                              /\ requests' = [Frame!Left(ended) EXCEPT ![n] = Frame!Sent("tenant", "none")]
    BY <1>2, <1>3, <1>4, FrameNames DEF Frame!Commit, Frame!Routed, Frame!Inside, InFrame, FrameInv
  <2>2. InFrame'
    BY <2>1 DEF InFrame, Frame!Inside
  <2>3. \A d \in Request : ended[d] # Frame!Idle => /\ ended[d] = requests[d] /\ ended[d].op # "login"
                                                    /\ ended[d].op = "me" => checking'
    BY <1>1, <1>2, DoneLeaves DEF FrameInv
  <2>4. ended = [d \in Request |-> ended[d]]
    BY DoneLeaves
  <2> HIDE DEF ended
  <2>5. QED
    BY <1>1, <2>1, <2>2, <2>3, <2>4, FrameMoves
<1>5. CASE Frame!Commit(route, "same", checking, Frame!BusyAfter(c), ended)
  <2>1. /\ route' = route /\ user' = FALSE /\ checking' = FALSE /\ submitting' = FALSE /\ active' = active
        /\ requests' = ended
    BY <1>2, <1>3, <1>5, FrameNames DEF Frame!Commit, Frame!Routed, Frame!Inside, InFrame, FrameInv
  <2>2. ~InFrame'
    BY <2>1 DEF InFrame, Frame!Inside
  <2>3. ended = [requests EXCEPT ![c] = Frame!Idle]
    BY DoneLeaves
  <2> HIDE DEF ended
  <2>4. QED
    BY <1>1, <1>2, <1>3, <2>1, <2>2, <2>3, FrameStays
<1>6. QED
  BY <1>4, <1>5 DEF Frame!LoginAnswered

LEMMA FrameLogout ==
    ASSUME FrameInv, NEW c \in Request, Frame!LogoutAnswered(c)
    PROVE  FrameInv'
<1> DEFINE ended == Frame!Done(c)
<1>1. /\ Pending(c) /\ requests[c].op = "logout" /\ ~checking /\ UNCHANGED <<cookie, accepted>>
      /\ Frame!Commit(route, "nobody", checking, submitting, ended)
  BY DEF Frame!LogoutAnswered, Frame!Ended, Frame!Free, Pending, FrameInv
<1>2. /\ user' = FALSE /\ checking' = FALSE /\ route' = Frame!Routed(route, FALSE, FALSE)
  BY <1>1 DEF Frame!Commit, Frame!Routed, FrameInv
<1>3. ~InFrame'
  BY <1>2 DEF InFrame, Frame!Inside
<1>4. CASE InFrame
  <2>1. /\ submitting' = FALSE /\ active' = "none" /\ requests' = Frame!Left(ended)
    BY <1>1, <1>4, FrameNames DEF Frame!Commit, Frame!Routed, Frame!Inside, InFrame
  <2>2. \A d \in Request : ended[d] # Frame!Idle => /\ ended[d] = requests[d] /\ ended[d].op # "login"
                                                    /\ ended[d].op = "me" => checking'
    BY <1>1, <1>4, DoneLeaves DEF FrameInv, InFrame, Frame!Inside
  <2>3. ended = [d \in Request |-> ended[d]]
    BY DoneLeaves
  <2> HIDE DEF ended
  <2>4. QED
    BY <1>1, <1>2, <1>3, <2>1, <2>2, <2>3, FrameMoves
<1>5. CASE ~InFrame /\ route # "app"
  <2>1. route' = route /\ active' = active /\ submitting' = submitting /\ requests' = ended
    BY <1>1, <1>5, FrameNames DEF Frame!Commit, Frame!Routed, Frame!Inside, InFrame, FrameInv
  <2>2. ended = [requests EXCEPT ![c] = Frame!Idle] /\ submitting \in BOOLEAN
    BY DoneLeaves DEF FrameInv
  <2> HIDE DEF ended
  <2>3. QED
    BY <1>1, <1>2, <1>3, <1>5, <2>1, <2>2, FrameStays
<1>6. CASE ~InFrame /\ route = "app"
  <2>1. /\ submitting' = FALSE /\ active' = "none" /\ requests' = Frame!Left(ended)
    BY <1>1, <1>6, FrameNames DEF Frame!Commit, Frame!Routed, Frame!Inside, InFrame
  <2>2. \A d \in Request : ended[d] # Frame!Idle => /\ ended[d] = requests[d] /\ ended[d].op # "login"
                                                    /\ ended[d].op = "me" => checking'
    BY <1>1, <1>6, DoneLeaves DEF FrameInv
  <2>3. ended = [d \in Request |-> ended[d]]
    BY DoneLeaves
  <2> HIDE DEF ended
  <2>4. QED
    BY <1>1, <1>2, <1>3, <2>1, <2>2, <2>3, FrameMoves
<1>7. QED
  BY <1>4, <1>5, <1>6

LEMMA FrameSignIn ==
    ASSUME FrameInv, Frame!SignIn
    PROVE  FrameInv'
<1> DEFINE to == Frame!Routed("login", user, checking)
           in == Frame!Inside(to, user, checking)
<1>1. /\ route = "invite" /\ Frame!Commit("login", "same", checking, submitting, requests)
      /\ UNCHANGED <<cookie, accepted>>
  BY DEF Frame!SignIn
<1>2. to # route
  BY <1>1 DEF Frame!Routed
<1>3. /\ user' = user /\ checking' = checking /\ route' = to /\ submitting' = FALSE /\ active' = "none"
      /\ IF in THEN \E n \in Request : /\ Frame!Left(requests)[n] = Frame!Idle
                                       /\ requests' = [Frame!Left(requests) EXCEPT ![n] = Frame!Sent("tenant", "none")]
         ELSE requests' = Frame!Left(requests)
  <2>1. user = ("same" = "new" \/ ("same" = "same" /\ user))
    BY DEF FrameInv
  <2>2. QED
    BY <1>1, <1>2, <2>1, FrameNames DEF Frame!Commit
<1>4. InFrame' <=> in
  BY <1>3 DEF InFrame, Frame!Inside
<1>5. \A d \in Request : requests[d] # Frame!Idle => requests[d].op # "login" /\ (requests[d].op = "me" => checking')
  BY <1>1, <1>3 DEF FrameInv, Pending
<1>6. requests = [d \in Request |-> requests[d]] /\ checking' \in BOOLEAN /\ user' \in BOOLEAN /\ (checking' => checking /\ ~user')
  BY <1>3 DEF FrameInv
<1>7. route' = "login" => ~user'
  BY <1>3 DEF Frame!Routed
<1> HIDE DEF to, in
<1>8. QED
  BY <1>1, <1>3, <1>4, <1>5, <1>6, <1>7, FrameMoves

LEMMA FrameStep ==
    ASSUME FrameInv, [Frame!Next]_(Frame!vars)
    PROVE  FrameInv'
<1>1. CASE UNCHANGED Frame!vars
  BY <1>1, FrameNames DEF Frame!vars, FrameInv, Pending, Of, Resets, Reset, InFrame, Frame!Inside
<1>2. ASSUME NEW c \in Request, Frame!login(c) PROVE FrameInv'
  <2>1. ~checking /\ ~Pending(c) /\ route = "login" /\ ~submitting /\ submitting' = TRUE
    BY <1>2 DEF Frame!login, Frame!Free, Pending
  <2>2. requests' = [requests EXCEPT ![c] = Frame!Sent("login", Home)]
    BY <1>2 DEF Frame!login
  <2>3. UNCHANGED <<cookie, user, checking, route, accepted, active>>
    BY <1>2 DEF Frame!login
  <2>4. ~user
    BY <2>1 DEF FrameInv
  <2>5. QED
    BY <2>1, <2>2, <2>3, <2>4, FrameSends
<1>3. ASSUME NEW c \in Request, Frame!logout(c) \/ \E t \in Tenant : Frame!handleTenantChange(c, t) PROVE FrameInv'
  <2>1. ~checking /\ ~Pending(c) /\ UNCHANGED <<cookie, user, checking, route, submitting, accepted, active>>
    BY <1>3 DEF Frame!logout, Frame!handleTenantChange, Frame!Inside, Frame!Free, Pending, Frame!Shown
  <2>2. \E op \in {"logout", "switch"} : \E to : requests' = [requests EXCEPT ![c] = Frame!Sent(op, to)]
    BY <1>3 DEF Frame!logout, Frame!handleTenantChange
  <2>3. QED
    BY <2>1, <2>2, FrameSends
<1>4. \A c \in Request : ~Frame!submit(c) /\ ~Frame!InviteAnswered(c)
  BY DEF Frame!submit, Frame!InviteAnswered, Frame!Ended, Frame!Free, FrameInv, Pending
<1>5. ~Frame!Redirect
  BY DEF Frame!Redirect, FrameInv
<1>6. ASSUME NEW p, Frame!Visit(p) PROVE FrameInv'
  BY <1>6, FrameMounted DEF Frame!Visit
<1>7. QED
  BY <1>1, <1>2, <1>3, <1>4, <1>5, <1>6, FrameRespond, FrameRefresh, FrameLogin, FrameLogout, FrameAnswered,
     FrameSignIn
  DEF Frame!Next, Frame!Continue

LEMMA FrameInit ==
    ASSUME Frame!Init
    PROVE  FrameInv
<1>1. PICK c \in Request : requests = [Frame!NoCalls EXCEPT ![c] = Frame!Sent("me", Frame!None)]
  BY DEF Frame!Init
<1>2. requests = [d \in Request |-> requests[d]] /\ Asks(requests[c]) /\ requests[c].op = "me"
  BY <1>1, AsksNew DEF Frame!NoCalls
<1>3. \A d \in Request : Pending(d) => d = c
  BY <1>1 DEF Frame!NoCalls, Pending
<1>4. QED
  BY <1>2, <1>3, FrameNames DEF Frame!Init, FrameInv, Of
-----------------------------------------------------------------------------
(* What is in use is what moves, and stays in use.                         *)
LEMMA UsedMoves ==
    ASSUME [EachNext]_allVars
    PROVE  /\ used' = used
           /\ used = "settings" => [Settings!Next]_(Settings!vars)
           /\ used = "tabs" => [Tabs!Next]_(Tabs!vars)
           /\ used = "frame" => [Frame!Next]_(Frame!vars)
           /\ used = "lists" => [Tables!Next]_(Tables!vars)
BY DEF EachNext, allVars, settingsVars, frameVars, listsVars,
       Settings!vars, Settings!page, Settings!tabs, Tabs!vars, Tabs!page, Tabs!tabs, Frame!vars, Tables!vars

SettingsUsed == used \in {"settings", "tabs"} => SettingsInv
FrameUsed    == used = "frame" => FrameInv
ListsUsed    == used = "lists" => ListsInv

LEMMA EachInductive == EachSpec => [](SettingsUsed /\ FrameUsed /\ ListsUsed)
<1>1. EachInit => SettingsUsed /\ FrameUsed /\ ListsUsed
  BY SettingsInit, FrameInit, ListsInit DEF EachInit, SettingsUsed, FrameUsed, ListsUsed
<1>2. ASSUME SettingsUsed, FrameUsed, ListsUsed, [EachNext]_allVars
      PROVE  SettingsUsed' /\ FrameUsed' /\ ListsUsed'
  BY <1>2, UsedMoves, SettingsStep, TabsStep, FrameStep, ListsStep DEF SettingsUsed, FrameUsed, ListsUsed
<1>3. QED
  BY <1>1, <1>2, PTL DEF EachSpec

(* With one handler at a time, the legacy settings page at rest, with no   *)
(* banner and no answer lost since the last load, shows what is stored:    *)
(* every handler loads all again after its change (legacy Settings.jsx).   *)
THEOREM SettingsShowStored == EachSpec => []ShownIsStored
<1>1. SettingsUsed => ShownIsStored
  BY SettingsShown DEF SettingsUsed, ShownIsStored
<1>2. QED
  BY <1>1, EachInductive, PTL

(* As long as no invite is accepted, no login is sent before it is known   *)
(* who is logged in and no answer breaks off after its headers: however    *)
(* logins, switches, logouts and reloads overlap in any number of          *)
(* requests, and whichever of them fail, the frame at rest shows no tenant *)
(* but that of the session (Layout.jsx, AuthContext.jsx).                  *)
THEOREM FrameShowsSession == EachSpec => []TenantShownIsActive
<1>1. FrameUsed => TenantShownIsActive
  BY FrameNames DEF FrameUsed, FrameInv, TenantShownIsActive, Frame!TenantShownIsActive, Frame!Free, Reset, Pending
<1>2. QED
  BY <1>1, EachInductive, PTL

(* However ticks, visits and refreshes of the lists overlap, and whichever *)
(* requests fail, the pages of incidents and of switches never say that    *)
(* there is nothing before a load has succeeded.                           *)
THEOREM EmptyListsWereRead == EachSpec => []EmptyWasRead
<1>1. ListsUsed => EmptyWasRead
  BY DEF ListsUsed, ListsInv, EmptyWasRead, Tables!EmptyWasRead, Tables!SaysEmpty
<1>2. QED
  BY <1>1, EachInductive, PTL
=============================================================================
