----------------------------- MODULE ListPages ------------------------------
(***************************************************************************)
(* The pages that read lists and show them: the two dashboards, and the    *)
(* alerts, switches and clients pages of the legacy application.  Each     *)
(* loads when it is mounted, some again every 30 seconds, and all of them  *)
(* again when the user asks; loads are not numbered, so that they overlap  *)
(* and are answered in any order.  What differs is what a page does when a *)
(* load begins and what it makes of an error.                              *)
(***************************************************************************)
CONSTANTS
    Row,          \* devices, incidents and MAC entries
    Pages,        \* the pages in use
    Call,         \* bound: loads in progress
    Faults        \* BOOLEAN: requests may fail

AllPages == {"dashboard", "legacyDashboard", "alerts", "switches", "clients"}
Part     == {"devices", "incidents", "macs"}
Idle     == [op |-> "none"]

ListPagesAssumption == Pages \subseteq AllPages /\ Pages # {} /\ Faults \in BOOLEAN

VARIABLES
    stored,       \* rows of the database
    page,         \* the route mounted
    shown,        \* devices, incidents or macs of the page
    hidden,       \* rows the search box does not match
    loading, error, polling,
    updated,      \* lastUpdated is set (dashboards, which have none: a load was delivered)
    calls         \* loads in progress

vars == <<stored, page, shown, hidden, loading, error, polling, updated, calls>>

Rows    == [Part -> SUBSET Row]
Nothing == [q \in Part |-> {}]

Parts(p) ==
    CASE p \in {"dashboard", "legacyDashboard"} -> {"devices", "incidents"}
      [] p = "alerts"   -> {"incidents"}
      [] p = "switches" -> {"devices"}
      [] p = "clients"  -> {"macs"}

(* The part whose emptiness the page announces.                            *)
Subject(p) == CASE p = "clients" -> "macs" [] p = "switches" -> "devices" [] OTHER -> "incidents"
-----------------------------------------------------------------------------
Free(c) == calls[c] = Idle
(* again: the closure of the handler holds a lastUpdated; polls: of the     *)
(* button that polls first.                                                *)
NewLoad(again) == [op |-> "load", again |-> again, polls |-> FALSE, got |-> {}, bad |-> {}, read |-> Nothing]

(* What a page does before its request leaves.                             *)
Begin(p, again) ==
    /\ error'   = IF p \in {"alerts", "switches", "clients"} THEN FALSE ELSE error
    /\ loading' = (loading \/ p \in {"switches", "clients"} \/ (p = "alerts" /\ ~again))

(* Another route: the state of the page left is gone with its intervals,   *)
(* and what its requests answer sets nothing.                              *)
Visit(p) ==
    /\ page' = p
    /\ shown' = Nothing /\ hidden' = {} /\ loading' = TRUE /\ error' = FALSE
    /\ polling' = FALSE /\ updated' = FALSE
    /\ \E c \in Call : calls' = [d \in Call |-> IF d = c THEN NewLoad(FALSE) ELSE Idle]
    /\ UNCHANGED stored

(* setInterval: the closure of the first render.                           *)
Tick(c) ==
    /\ page \in {"dashboard", "legacyDashboard", "alerts"} /\ Free(c)
    /\ Begin(page, FALSE)
    /\ calls' = [calls EXCEPT ![c] = NewLoad(FALSE)]
    /\ UNCHANGED <<stored, page, shown, hidden, polling, updated>>

(* Refresh is always there on two pages; the clients page offers a retry   *)
(* with its error only.                                                    *)
Refresh(c) ==
    /\ \/ page \in {"alerts", "switches"}
       \/ page = "clients" /\ error /\ ~loading
    /\ Free(c)
    /\ Begin(page, updated)
    /\ calls' = [calls EXCEPT ![c] = NewLoad(updated)]
    /\ UNCHANGED <<stored, page, shown, hidden, polling, updated>>

(* The legacy button "Poll All Devices" reads the lists again.             *)
ClickReload(c) ==
    /\ page = "legacyDashboard" /\ ~loading /\ ~polling /\ Free(c)
    /\ polling' = TRUE
    /\ calls' = [calls EXCEPT ![c] = NewLoad(FALSE)]
    /\ UNCHANGED <<stored, page, shown, hidden, loading, error, updated>>

pollAllDevices(c) ==
    /\ page = "dashboard" /\ ~loading /\ ~polling /\ shown["devices"] # {} /\ Free(c)
    /\ polling' = TRUE
    /\ calls' = [calls EXCEPT ![c] = [NewLoad(FALSE) EXCEPT !.op = "poll", !.polls = TRUE]]
    /\ UNCHANGED <<stored, page, shown, hidden, loading, error, updated>>

Search(rows) ==
    /\ page \in {"switches", "clients"} /\ hidden' = rows
    /\ UNCHANGED <<stored, page, shown, loading, error, polling, updated, calls>>
-----------------------------------------------------------------------------
(* The server.                                                             *)
Change(q, rows) ==
    /\ stored' = [stored EXCEPT ![q] = rows]
    /\ UNCHANGED <<page, shown, hidden, loading, error, polling, updated, calls>>

Awaited(c, q) == calls[c] # Idle /\ calls[c].op = "load" /\ q \in Parts(page) \ (calls[c].got \cup calls[c].bad)

(* deviceAPI.poll asks /healthz, and its errors are caught one by one;     *)
(* then loadData.                                                          *)
PollsAnswered(c) ==
    /\ calls[c] # Idle /\ calls[c].op = "poll"
    /\ calls' = [calls EXCEPT ![c].op = "load"]
    /\ UNCHANGED <<stored, page, shown, hidden, loading, error, polling, updated>>

Answer(c, q) ==
    /\ Awaited(c, q)
    /\ calls' = [calls EXCEPT ![c].got = @ \cup {q}, ![c].read[q] = stored[q]]
    /\ UNCHANGED <<stored, page, shown, hidden, loading, error, polling, updated>>

Fail(c, q) ==
    /\ Faults /\ Awaited(c, q)
    /\ calls' = [calls EXCEPT ![c].bad = @ \cup {q}]
    /\ UNCHANGED <<stored, page, shown, hidden, loading, error, polling, updated>>
-----------------------------------------------------------------------------
(* What a page does with a load that ended.  The legacy dashboard catches  *)
(* each request by itself and takes an error for an empty list; on the     *)
(* others one error is the error of the load (Promise.all).                *)
Catches(p) == p = "legacyDashboard"
Whole(c)   == calls[c] # Idle /\ calls[c].got \cup calls[c].bad = Parts(page)
Rejected(c) == calls[c] # Idle /\ calls[c].bad # {} /\ ~Catches(page)

(* The finally of loadData, and of pollAllDevices around it.               *)
Finally(c) ==
    /\ calls' = [calls EXCEPT ![c] = Idle]
    /\ loading' = FALSE
    /\ polling' = IF Catches(page) \/ calls[c].polls THEN FALSE ELSE polling

Deliver(c) ==
    /\ Whole(c) /\ ~Rejected(c)
    /\ shown' = calls[c].read /\ updated' = TRUE
    /\ Finally(c) /\ UNCHANGED <<stored, page, hidden, error>>

ErrorKept(p)  == error \* mutant
ErrorAfter(p) == error \/ p \in {"alerts", "switches", "clients"}

Cleared(p)    == IF p \in {"switches", "clients"} THEN Nothing ELSE shown

Failed(c) ==
    /\ Rejected(c)
    /\ error' = ErrorAfter(page)
    /\ shown' = Cleared(page)
    /\ Finally(c) /\ UNCHANGED <<stored, page, hidden, updated>>
-----------------------------------------------------------------------------
Init ==
    /\ stored \in Rows /\ page \in Pages
    /\ shown = Nothing /\ hidden = {} /\ loading = TRUE /\ error = FALSE
    /\ polling = FALSE /\ updated = FALSE
    /\ \E c \in Call : calls = [d \in Call |-> IF d = c THEN NewLoad(FALSE) ELSE Idle]

Settle(c) == PollsAnswered(c) \/ Deliver(c) \/ Failed(c) \/ \E q \in Part : Answer(c, q) \/ Fail(c, q)

Next ==
    \/ \E c \in Call : Tick(c) \/ Refresh(c) \/ ClickReload(c) \/ pollAllDevices(c) \/ Settle(c)
    \/ \E p \in Pages : Visit(p)
    \/ \E q \in Part, rows \in SUBSET Row : Change(q, rows)
    \/ \E rows \in SUBSET Row : Search(rows)

Spec == Init /\ [][Next]_vars
-----------------------------------------------------------------------------
(* The page says that there is nothing: "No open incidents", "No active    *)
(* incidents. Your network is stable right now.", "No switches discovered  *)
(* yet.", "No clients found."                                              *)
Filtered == IF page = "clients" THEN shown["macs"] \ hidden ELSE shown[Subject(page)]
SaysEmpty == ~loading /\ ~error /\ Filtered = {}

(* A page says that there is nothing only after a load that succeeded.     *)
EmptyWasRead == SaysEmpty => updated
=============================================================================
