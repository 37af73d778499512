# A TLA+ development of snmp-poller

snmp-poller polls network devices over SNMP, keeps what it learns in Postgres,
opens an incident when a device stops answering, closes it when the device
answers again, and serves all of it to the tenants of an API and to two web
applications. This directory holds TLA+ models of its core, of its webhooks,
registration, accounts and tenants, and of the pages that drive them, the TLC
runs that check them on small instances, and the theorems TLAPS proves about
them for every instance.

File and line references are to the repository's root (`internal/...`,
`migrations/...`); pages are given without their directory: the new application
is `web/src/app/components/*.tsx` over `web/src/app/lib/api.ts`, the legacy one
`web/src/legacy/pages/*.jsx` over `web/src/legacy/api.js`. Both are in the
repository and talk to the same server: `index.html` loads `main.tsx`, the new
application, whose `routes.ts` redirects the paths of the old one;
`legacy/main.jsx` is an entry point of its own.

## 1. Inventory

| Component | State | Operations | Interacts with |
|---|---|---|---|
| Availability state machine (`internal/alerts/logic.go`) | none (pure) | `ComputeTransition` | called by the poll processor |
| Poll processor (`internal/alerts/processor.go`) | `device_state`, `alerts`, `audit_events` | `ProcessPollResult`, one transaction | called by the workers |
| Poller workers (`internal/poller/service.go`) | the poll in progress; the `jobs` channel | ticker and `enqueueDevices`, `worker`, `pollDevice`, `markDeviceFailure` | device and alert rows, processor, notifications, SNMP |
| Device rows (`internal/store/devices.go`) | `devices` | upsert, register, delete, status, lookups, `ListPollerDevices` | cascades to state, alerts, interfaces |
| Device-down alerts (`internal/store/alerts.go`, `internal/poller/alerts.go`) | `alerts` | `ResolveAlert`, `clearDeviceAlert` | notifications |
| Interface alerts (`internal/poller/alerts.go`, `internal/store/interfaces.go`) | `interfaces`, `interface_counters`, `alerts` | `evaluateAlerts`, raise, clear, prune | workers |
| Alert workflow API (`internal/server/alerts_workflow.go`, `internal/store/alerts_workflow.go`) | `alerts`, `device_state` | acknowledge, mute, assign, comment, resolve, simulate down, simulate recover | same rows as the processor, without its locks |
| Notifications (`internal/notification/service.go`) | one goroutine per destination; `alert_deliveries` | `Dispatch`, `sendWebhook` with retries | called by workers with the poll's context |
| Device registration (`internal/devicereg`) | `device_tests` | test token, `CreateDevice` | device rows, plan limits |
| Discovery (`internal/poller/discovery.go`) | `discovered_devices` | subnet sweep | SNMP |
| Authentication, tenants, members, invites (`internal/server/auth.go`, `tenant_*.go`) | `users`, `user_tenants`, `tenant_invites`, session | login, register, invite, switch, roles | tenant scope of every request |
| Rate limiter (`internal/server/ratelimit.go`) | visitor map | `Allow`, cleanup | login |
| Reports (`internal/store/reports.go`) | reads; recipients, history | SLA, incidents, delivery | alerts |
| Migrations (`internal/store/store.go`) | `schema_migrations` | `RunMigrations` | start-up |
| SNMP client, configuration, encryption, overview, topology, HTTP routing, demo data | — | reads, parsing, library calls | — |
| Incidents page (`Incidents.tsx`) | list, tab, dialogs, timelines | loads, acknowledge, resolve, assign, mute, comment, simulate | alert workflow API |
| Registration pages (legacy `DeviceNew.jsx`, dialog of `Devices.tsx`) | form, test and its token | test, save | device registration |
| Settings page (`Settings.tsx`) | copies of tenant, members, invites; flags | switch, create, rename, invite, roles | tenants, the session cookie |
| Legacy session (`AuthContext.jsx`, `RequireAuth.jsx`, `Login.jsx`, `AcceptInvite.jsx`, `Layout.jsx`) | user, check in progress, active tenant | check, login, logout, accept, switch | sessions |
| Account pages (`Signup.tsx`, `Login.tsx`, `AcceptInvite.tsx`) | form in progress | register, log in, accept | accounts, invites |
| List pages (both dashboards, legacy `Alerts`, `Switches`, `Clients`) | rows, loading, error | load, refresh, poll all | reads |
| Device pages (`Devices.tsx`, `DeviceDetail.tsx`, legacy `DeviceDetail.jsx`, `ConfirmProvider.jsx`) | list, device, dialog | open, delete, poll | device rows |
| Legacy settings (`Settings.jsx`) | plan, invites, destinations, tab | six handlers, two effects | tenants, destinations |
| Webhooks page (`Webhooks.tsx`) | list, form | create, delete, test | notifications |
| Reports pages (`Reports.tsx`, `ReportPrint.tsx`) | window, report, recipients | generate, save, mail, send, print | reports |
| Widgets, charts, toasts, topology pages, quick start | — | presentation | — |

What is hard here is not the arithmetic but the sharing. A pool of goroutines
polls devices over the network and writes each outcome in five or six separate
statements. Requests of the API and other workers write the same rows in
between. Only `ProcessPollResult` uses a transaction, and only it takes a row
lock. Devices can be deleted while they are polled, statements can fail, the
process can be killed, and two columns (`status`, `resolved_at`) record whether
an alert is over. The handlers of the API run without transactions: a plan
limit is counted before the insert it limits, an account and its membership are
two statements. The pages keep copies of what they have read; a handler runs
without interruption only up to its next `await`, answers come in any order or
not at all, loads are not numbered, and which tenant a request is for is decided
by the cookie of the moment. `PROJECT.json` lists the hazards, each at its line.

What makes each component correct:

- state machine: the counters and the state decide what the whole history would;
- processor and alerts: at most one active incident per device, an incident
  exactly while there is an outage (unless a person dismissed it), no incident
  reopened, no outage without an incident, the timeline agrees with the alert;
- workers: a device that answers is not taken DOWN, one that comes back
  recovers, an end is announced once and not before it happened;
- device rows: nothing survives its device, a deleted device stays deleted;
- workflow: what people write on an alert is not lost;
- notifications: every event reaches each destination or exhausts its attempts;
- registration: what is registered is what was tested, one device per token and
  per address, within the plan;
- accounts and tenants: one account per address, members were let in, a tenant
  keeps an owner, an account has a tenant;
- pages: what is on screen at rest is what is stored, of the tenant it names; an
  empty list is announced only if it was read; a control is held exactly while
  its handler runs and is given back; what is confirmed is what was asked;
- scheduling: every due device is polled in bounded time.

## 2. Modules

| Module | Content |
|---|---|
| `DeviceState` | `ComputeTransition` as operators |
| `DeviceHistory` | the state machine driven by an arbitrary sequence of results, next to the sequence |
| `Incident` | abstract specification: availability and open incidents, nothing else |
| `DeviceHealth` | workers, processor, rows and requests over one database; refines `Incident` |
| `MCDeviceHealth` | addresses and symmetry of `DeviceHealth` for TLC |
| `DeviceHealthProofs` | types, what a step may change, the invariants, the refinement of `Incident`, and the device that answers |
| `DeviceHistoryProofs` | the state machine for histories of every length |
| `IncidentsPage` | the incidents page over the alert API |
| `DeviceOnboarding`, `DeviceOnboardingProofs` | tests, tokens and registrations, on the server and on both pages; the proofs also of the reports |
| `TenantSettings`, `TenantSettingsProofs` | the settings page, the cookie and the server's tenants |
| `LegacySession` | who is logged in and which tenant is shown, legacy application |
| `Accounts`, `AccountsProofs` | sign-up, login, invites: three pages of several browsers, server statements |
| `ListPages` | five pages that read lists |
| `DevicePages`, `DevicePagesProofs` | device list, device page, confirmation dialog; the proofs also of the incidents page |
| `AdminSettings` | the legacy settings page |
| `Webhooks`, `WebhooksProofs` | destinations, senders of a poll, and the webhooks page; the proofs also of the legacy settings, session and lists |
| `ReportsPage` | reports, recipients, deliveries, and their pages |
| `MC...` | instances for TLC, several modules side by side: see section 3 |
| `MCTenantSettingsProofs` | carries what is proved of one part over to the parts side by side |

`DeviceHealth` extends `DeviceState` and instantiates `Incident`. Each of the
other modules composes a page with the part of the server it talks to, because
what can go wrong lies between the two.

### How DeviceHealth corresponds to the code

State. `devices`, `device_state` and `alerts` are the tables, reduced to the
columns the code decides by. Of the audit events, `ALERT_TRIGGERED` and
`ALERT_CLEARED` are kept, in the alert's `timeline`; `POLL_SUCCESS`,
`POLL_FAILURE` and the requests' own audit rows are not, since nothing reads
them to decide. `details` is the set of keys people have put into the JSON
column. `alerts` holds alerts of type `DEVICE_DOWN`; their `category` tells
those the processor inserted (`device_down`) from simulated ones
(`device.down`), because `ResolveAlert` selects by it. `announced` counts
dispatches of `alert.resolved`. `worker` and `request` hold the local variables
and the program counter of a poll and of a simulate request; `net` is the
environment.

Steps. A poll is cut at each database statement that another actor could
interleave with:

| Action | Code |
|---|---|
| `Poll` | worker takes a job, probes, walks interfaces and MACs: `service.go:202-282` |
| `PollUpsert` | `UpsertDevice` on both paths: `service.go:246-299` |
| `PollInterfaces` | interfaces, counters, MACs, which fail on a deleted device: `service.go:301-374` |
| `PollClearAlert` | `clearDeviceAlert`: `poller/alerts.go:119` |
| `PollFailed`, `PollMarkError` | `markDeviceFailure`: `service.go:413-452` |
| `ProcessPollResult` | the transaction: `processor.go:28-258` |
| `Abort` | the process is killed between two statements |
| `RegisterDevice`, `DeleteDevice` | `devicereg/service.go:160`, `store/devices.go:235` |
| `Annotate` | acknowledge, mute, assign, comment: `store/alerts_workflow.go:42-134` |
| `ResolveAlertByID` | `store/alerts_workflow.go:136` |
| `SimulateDown…`, `SimulateRecover…` | two statements each: `store/alerts_workflow.go:153-215` |

`ProcessPollResult` is one step. Its `SELECT ... FOR UPDATE` on the state row
serialises it with other results of the device, with the first statement of a
simulate request and with the cascade of a delete; the partial unique index of
migration 012 with `ON CONFLICT DO NOTHING` makes its insert of an alert agree
with one order of the statements that do not take the lock; everything else it
reads is decided by the locked row. `Rollback` is its other outcome, which
callers ignore (`_ = alerts.ProcessPollResult`).

Simplifications, none of which removes an outcome: the network exchange belongs
to `Poll`, with the address's state at that moment; taking a job from the channel
and enqueuing it are one step, so a job's row id is stale only from there on;
timestamps are left out except for whether `resolved_at` is set; one tenant.
The device's address and hostname are fixed. `MaxRow` and `AlertId` bound ids:
when they are used up an insert fails, which the code treats as any failed
statement.

### Conventions of the page modules

`calls` holds the handlers in progress: an idle slot, or a record of the local
variables and of the place the handler waits at. An action is the code between
two `await`s: a click (guarded by what enables the control), the server's
handling of a request, or the continuation with its answer. Where the server
needs more than one statement and another request can come in between, it is
cut there too. React's state is a variable each; what a handler took from its
render is in its record. A handler whose page was left goes on, and what it then
sets is dropped, as React does. `Faults` lets a request fail, before or after
the server acted where the page cannot tell. Variables marked `history` only
remember, for a property, what happened.

### IncidentsPage

`alerts` are the rows, numbered in the order they were triggered; `incidents`
the cards. An answer holds the newest rows of a status, `Limit` of them at most
(`Answers`; 200 in `api.ts:207`). `Arrival` continues a handler:
the tab 'all' asks twice (`api.ts:200`, `210`), every change ends with a load of
the tab of its render (`Incidents.tsx:34`), and the three dialogs share
`submitting`. Mapping an alert to open, acknowledged or resolved is `mapIncident`
(`api.ts:155`).

### DeviceOnboarding

The server's steps are the statements of `TestSNMP` and `CreateDevice`
(`devicereg/service.go`) after the count of `handleCreateDevice`
(`server/device_registration.go:50`): probe, record a token; count, look up the
address, consume the token, insert. `Fingerprint` is what the server hashes of a
configuration, which forgets blanks around its parts (`devicereg/tokens.go:23`);
what is probed and stored is the configuration itself. `DeviceNew.jsx` tests and
saves with two buttons and can be edited meanwhile; the dialog of `Devices.tsx`
does both in one handler. `GiveUp` is the abort of `legacy/api.js`: the page has
its error and may send the same token again, while the server goes on or stops
at its next statement. `spent` counts, for a property, the devices each token
admitted.

### TenantSettings

`cookie` is what the browser holds; a request is sent with its value (`at`), and
a switch or a creation replaces it when the answer comes. A load is the session
request followed by the three lists (`Settings.tsx:37`). `flags` are the page's
five booleans. `to` is the tenant a change is meant for: of a switch and, once
answered, of a creation the tenant the cookie will name; of the rest the tenant
the page showed when the change was sent, which the request does not carry.
`Reopen` leaves the page and mounts it anew; handlers of the earlier visit go on
without a page to set (`here`), and the answer to one may still change the
cookie, which `overtaken` remembers.

### LegacySession and Accounts

`LegacySession` is one document of the legacy application: `Commit` is what
React does after a state change, that is redirects, unmounting, and the frame's
effect. A request is answered in two steps, headers and body, because the
timeout of `legacy/api.js` covers only the first. `Accounts` has several
browsers and cuts `handleAuthRegister` and `handleAuthRegisterInvite` at every
statement (`server/auth.go:321-470`); the unique index on `email` is `Unique`,
the lowering of an invited address is `Lower`. A sign-up with a blank
organization goes to the default tenant (`FindDefaultTenant`,
`server/auth.go:380`).

### ListPages, DevicePages and AdminSettings

`ListPages` has one set of actions for five pages, which differ in `Begin` (what
happens before the request leaves) and in what a failure does. In `DevicePages`
`route` and `device` are separate, as in the code, and `dialog` is the handler
whose promise `ConfirmProvider.jsx` holds. In `AdminSettings` the tab and the
address have a rendered and a next value; an effect runs when a rendering
changed what it depends on.

### Webhooks and ReportsPage

`poll` and `live` stand for the context that `pollDevice` cancels when it
returns (`poller/service.go:230`); a sender is a goroutine of `Dispatch`
(`notification/service.go:94`) with its attempts, records and waits. A record
refers to a destination and to an alert, both with cascades (migration 011), so
the deletion of either, or of the device, takes it along. `malformed` are
destinations whose URL passes the check of its scheme and does not parse: their
sender records one attempt and ends (`notification/service.go:107`). A test of a
destination writes a delivery of alert 0, which the foreign key refuses, so it
leaves nothing. `ReportsPage` keeps of an incident its age and of a report its
window, incidents and target; the list of incidents beside it, on the page as in
print, is of 30 days whatever the window (`server/tenant_admin.go:394`);
`handleSendReportNow` mails the recipients one by one.

## 3. Runs

A run of several modules explores them side by side: the initial state chooses
the part that is used (`used`, `opened`, `running`, `condition`), each of the
others stays at one of its initial states, and where a property is about one
part its name says so in the run's module. Nothing is shared between the parts
of such a run, so this is the union of their state spaces and not a product;
it only saves runs. Fairness in `recovery` is of the part that runs. The sizes
of a part are constants of the run's module with values in its configuration;
what is fixed where a part is instantiated (which controls are in use, whether
requests fail, one handler at a time or several) is the condition under which
its property is claimed, and section 4 proves it for every value of the rest.

| Run | Modules and instance | What it asks | Outcome |
|---|---|---|---|
| `poller` | `DeviceHealth`: 1 host, 2 workers, 2 alerts, 2 row ids, 1 annotation, faults | incident invariants, action properties, refinement of `Incident` | holds |
| `simulate` | `DeviceHealth`: 2 workers and 1 simulate request, faults; or a YAML switch that always answers, 3 row ids; or `DeviceHistory` with up to 9 results | `OneActiveIncident` under simulate requests; how many failures can a device that answers be charged with?; do two counters decide what the history decides? | holds |
| `recovery` | `DeviceHealth` with 1 YAML switch; `Webhooks` with 1 sender of 3 attempts; `LegacySession` with 2 requests and every form | does what must end come to an end? | holds |
| `settings` | `TenantSettings` with 2 tenants, three times: switches and member changes, a member whose requests are lost, every control with a flag, each with the page left and opened again; `Accounts` with 2 browsers and a default tenant | is the page at rest of the tenant of the cookie, is a control held exactly while its handler runs; one account per address, members let in | holds |
| `onboarding` | `DeviceOnboarding`, by the form or by the dialog: 2 requests, 2 tokens, 1 address under 3 sets of credentials, two with one fingerprint, faults; `ReportsPage` with 2 overlapping handlers, of figures or of mails | only what was tested is registered, once per token and address; reports have the stored target | holds |
| `devices` | `DevicePages` as legacy and as new application: 2 devices, 2 handlers, faults; `IncidentsPage` with cards and with dialogs, answers of 1 alert | the button tells the deletion, the device shown is deleted; nothing shown as resolved before it is, only alerts older than a full answer are missed, one submission | holds |
| `webhooks` | `Webhooks` with an interface alert over 2 polls, with an incident, with failing requests; `AdminSettings`, `LegacySession`, `ListPages` | senders persist and leave no orphan record; what is shown is stored, of the tenant of the session, and empty only if read | holds |
| `alias` | `DeviceHealth`: a YAML switch and a registered device at one address | can a device that answers go DOWN? | violated |
| `delete_in_flight` | `DeviceHealth`: 1 registered device, 1 worker | does a deleted device stay deleted? | violated |
| `early_resolution` | `DeviceHealth`: 1 registered device, 1 worker | is the end of an outage one event? | violated |
| `silent_outage` | `DeviceHealth`: 1 worker, 1 simulate request, faults | do three failures always mean an incident? | violated |
| `webhook_retries` | `Webhooks`: an alert of an interface, 1 destination, 5 attempts | is a failed delivery repeated up to five times? | violated |

The violations are disagreements between the code and what the repository says
of it; `findings` in `PROJECT.json` quotes the lines. `early_resolution` shows
two at once: the time of resolution is set, and the end announced, before the
status says so. `UnresolvedIsActive` is the half of `EndedAtOnce` that does
hold. `AnsweringIsNotDown` fails in `alias` because of the address shared by two
hostnames; what remains where addresses differ is `AnsweringStaysUp`, see below.
`OneActiveIncident` is asked where simulate
requests run: without them it already follows from `IncidentMeansDown` and the
thresholds (a device that is not DOWN has no active incident when it falls),
and the unique index is idle.

### Where a property is asked

Some properties hold of a page only as long as one control is left alone, and
the instance says which:

- `SettledIsActive`: by switching only. A creation or a rename is not held by
  the flag of the switch, and its late answer sets the name of one tenant over
  the lists of another (`Settings.tsx:60`, `147`). And unless the answer to a
  handler of an earlier visit has changed the cookie since the page began to
  load (`overtaken`): a switch that is pending when the page is left replaces
  the cookie behind the page that was opened meanwhile.
- `DeletesDeviceShownByNew`: with a history that leads from no device page to
  another (`Jumps`). Where it does, the page keeps the first device on screen
  until the second is read, and Delete deletes the second
  (`DeviceDetail.tsx:37`). In the legacy application the dialog outlives the
  page that asked, so the property is not asked there.
- `TenantShownIsActive`: without three things, each of which breaks it
  (`Forms`): an invite accepted by a user who is logged in, which changes the
  cookie behind the frame; a login sent before the check of the session has
  ended, which `Login.jsx` does not wait for and whose frame the older check
  then answers; and the answer to a switch that breaks off after its headers,
  which has changed the cookie and does not reload the page.
- `CheckingEnds`: if no answer stays open for ever after its headers, and for a
  user who stops reloading.
- `TimelineTruthful`: without simulate requests. The id of the active alert is
  read before the insert (`alerts/processor.go:145`, `158`); when that alert is
  one a request has raised and another resolves it in between, the new alert
  gets no `ALERT_TRIGGERED` (`RaiseUntold`).
- `OutageHasIncident` counts a resolved alert whose timeline does not say
  cleared, one that a person dismissed, for as long as the row lives: a later
  outage of the device is covered by it too. `ImplementsIncident` says of every
  outage that its incident begins with it.
- `RegisteredWasTested`: up to the fingerprint. Credentials that differ from
  those of the test in blanks only are stored, although they were not tried.
- `MembersWereLetIn` names the third way into a tenant: a sign-up without an
  organization becomes an owner of the default tenant (`server/auth.go:380`).
- `AllMissesOnlyOlder`: what an answer that reached its limit leaves out is
  older than all it holds; with more than 200 alerts of a status the tab does
  leave some out.
- `LiveSendersPersist`: while the poll of the sender runs, of a URL that parses.
  What happens to a sender whose poll has returned is `webhook_retries`.
- `EmptyWasRead`: of the alerts and the switches page. The dashboards announce
  "No open incidents" after a failed first load (`Dashboard.tsx:39`), the
  clients page says "No clients found" of a search.
- `ShownIsStored`: one handler at a time, and no answer lost since the last
  load. Two loads are not numbered, and the older answer may come last.
- `ReportHasTarget`: handlers overlap, but no target was saved while a report
  read before it was on its way (`overtaken`), for the same reason.
- `AnsweringStaysUp`: with no more than two workers for "never DOWN", with any
  number for "one failure per worker". A poll of a YAML switch that has upserted
  its row and finds it deleted at the interfaces ends as a failure
  (`poller/service.go:350`), and `markDeviceFailure` charges it to the row that
  has the hostname by then (`poller/service.go:416`). With three workers, and
  the default is four (`internal/config/config.go:240`), three such polls take a
  new row, whose device has answered every probe, DOWN; TLC finds this behaviour,
  of 17 steps, in an instance with a third worker.
- `AddressesDiffer` and `TokenAdmitsOne` need no such condition.
- `OneAccountPerEmail` is about one spelling: an address registered with a
  capital letter is not found by its invite (`server/auth.go:347`, `436`).

### Seen while modelling

The models contain these behaviours and no run states their opposite: two
registrations at the limit of a plan both pass its count
(`server/device_registration.go:58`); a test answered after an edit offers Save
for what was not tested, which the server then refuses (`DeviceNew.jsx:128`);
the only owner of a tenant may leave it (`server/tenant_members.go:20`); an
accepted invite leads a new user of the legacy application to the login form
(`AcceptInvite.jsx:30`); `register-invite` that fails between its statements
leaves an account without a tenant (`server/auth.go:446`); the sender of a
webhook loses the record of its last attempt, too, when its poll
returns (`notification/service.go:94`); the incident of a device is sent to no
destination (`alerts/processor.go:158`); the events chosen for a webhook are not
sent (`api.ts:329`); an alert resolved between the two queries of the tab "all"
is listed twice (`api.ts:210`), and alerts beyond the newest 200 of a status are
not listed at all (`api.ts:207`, `211`); a switch answered after the settings
were left and opened again leaves them with the tenant of before
(`Settings.tsx:37`); a switch whose answer breaks off leaves the legacy frame
with it (`Layout.jsx:84`); a response body that stalls leaves "Checking
session..." on screen (`legacy/api.js:57`); a community that differs in blanks
from the one tested is stored (`devicereg/tokens.go:27`); whoever signs up with
a blank organization owns the default tenant (`server/auth.go:386`); a link to
another tab of the legacy settings (`Layout.jsx:116`), or a click on a tab and
then the browser's back before the address is rendered, makes the two effects of
`Settings.jsx:201` swap tab and address for ever; a report printed of 7 days
lists the incidents of 30 under that title, or says "No incidents in this
window." of them (`ReportPrint.tsx:33`, `49`); a report read before a target was
saved may be shown after the one by the new target (`Reports.tsx:45`).

### Bounds

`CountCap` saturates the failure and success counters: the code compares them
only with 3 and 2, so a counter at 3 behaves as any larger one (6 in
`silent_outage`, where the property tells three failures from six). Two workers
give every race of two polls on a device. A third matters where failures are
counted: it is what lets a device that answers reach the threshold (above), and
no other property checked is about the number of polls, so that the theorems,
which are for any number of workers, agree with the runs. Two alerts let one
incident be resolved while the next is open, and two row ids let a device be
deleted and registered again under a poll. Three ids for the device that answers
leave room for a further upsert after that. One annotation is enough, since
annotations are independent of each other. Nine results contain every way to
enter, leave and re-enter an outage with interrupted runs in between (3 + 2 + 3
and one more). `recovery` has a single alert id and a single row id because
without faults and with one host a later outage finds its insert without an id
and rolls back, which leaves the device out of DOWN and does not help it to
recover; what the property needs is one full outage and its end.

In the page modules one or two rows of a kind are enough, because the code
treats rows alike and never compares two of them except for identity. `Call`
bounds the handlers in progress at two, an older and a newer answer being the
race in question, and at three for the frame, where a switch, a login and the
frame's own request meet. Requests of the frame do not fail in
`webhooks`, to keep three of them in reach; `FrameShowsSession` is proved with
failures too. `MaxAttempts` is two in `webhooks` instead of five, a first attempt
and a last one after a wait, and five in `webhook_retries`; two polls let a sender
of the first meet the second. `Limit` is one alert of two, so
that an answer can be full and leave one out. Three sets of credentials are two
with one fingerprint and one apart. The form and the dialog are explored one at a
time, each with two requests over the same server, and so are the figures and
the mails of the reports, which no property relates. `Moves` bounds the changes of
tab, which no property is about. `MaxDevices`
is 0, no limit, in `onboarding`: a limit only refuses requests. The reports have
the windows 7 and 30 where a window can be changed. Workers, alert ids, tokens,
requests, configurations and browsers are symmetric where the configuration says
so; the liveness run uses no symmetry. Where the check for deadlock is off, the
user can run out of things to press, or polls and attempts are used up; the
configuration says which.

### Fairness

For the device, `recovery` assumes weak fairness of each worker's steps:
goroutines are scheduled, and statements return or time out
(`poller/service.go:230`). It assumes strong fairness of polling each host that
keeps being due: every tick puts every due device on a first-in-first-out
channel and blocks until there is room (`poller/service.go:106`, `121`), so a
busy pool of workers delays a job and does not skip it. This supposes that
`PollerDeviceLimit` covers the due devices (`store/devices.go:139`) and, for a
YAML switch, that some tick finds no registered device due
(`poller/service.go:114`). `Network` and `Abort` are not fair, and neither is any
request.

For a sender it assumes weak fairness of its steps: the client times out after
eight seconds (`notification/service.go:99`), waits are timers, statements end
with the context. For the session it assumes it of the headers of each answer
and of what the page does then: `legacy/api.js` aborts a request whose headers
have not come after five seconds. It assumes nothing of the bodies, which
nothing aborts (`response.json()` is returned without being awaited, so the
timer is cleared by then), and `CheckingEnds` therefore names, as its condition,
that no answer stays open for ever. The user is not fair, and `CheckingEnds` is
about one who stops reloading. The
new application's `apiRequest` has no timeout, and no liveness is claimed of its
pages.

## 4. Proofs

TLAPS proves the following for any sets of hosts, addresses, workers, alert ids
and notes, any bounds, and with or without faults; of the other modules for any
sets of rows, tenants, users and handlers. The named assumptions of the modules
on their constants are all they rest on, plus what the last column states;
"no simulation" is `Operator = {}`. Every invariant and action property that a
passing run checks is the property of one of these theorems.

| Theorem | Property | Rests on |
|---|---|---|
| `TypeCorrect` | `TypeOK` | itself inductive |
| `ResolvedAlertsStay` | `ResolvedForGood` | `TypeOK` |
| `UnresolvedAlertsActive` | `UnresolvedIsActive` | `TypeOK` |
| `TimelineTrue` | `TimelineTruthful` | `TypeOK`, no simulation |
| `AtMostOneIncident` | `OneActiveIncident` | `TypeOK` |
| `ThresholdsAreKept` | `ThresholdsKept` | `TypeOK` |
| `AnnouncedAtMostOnce` | `AnnouncedOnce` | `TypeOK` |
| `NothingOrphaned` | `NoOrphans` | `TypeOK` |
| `ActiveIncidentMeansDown` | `IncidentMeansDown` | `TypeOK`, no simulation |
| `OutageEndsOnlyBySuccesses` | `OutageEndsBySuccesses` | `ThresholdsKept`, no simulation |
| `NoSilentOutage` | `OutageHasIncident` | `TimelineTruthful`, `NoOrphans`, no simulation |
| `AnnotationsAreKept` | `AnnotationsKept` | `TypeOK`, no simulation |
| `PollerImplementsIncident` | `ImplementsIncident` | `OneActiveIncident`, `IncidentMeansDown`, no simulation |
| `ChargedOncePerWorker` | `FailuresPerWorker` | `AnswerInv`, `NoOrphans`; `Conditions`: finitely many workers, one host per address, no faults, no simulation |
| `AnsweringDevicesStayUp` | `AnsweringStaysUp` | the one before |
| `HistoryTypeCorrect`, `CountersAreRuns`, `StateIsHistory` | of `DeviceHistory` | each on the ones before |
| `NoOrphanDeliveries` | `DeliveriesHaveOwners` | itself inductive |
| `SendersOfALivePoll` | `LiveSendersPersist` | `Faults = FALSE` (a URL that parses, owners not deleted: in the property); bounds and sanity of senders |
| `SettingsShowStored` | `ShownIsStored` | `SettingsInv`; one handler at a time |
| `FrameShowsSession` | `TenantShownIsActive` | `FrameInv`; `Forms = {}`: no invite, no login before the check has ended, no torn answer |
| `EmptyListsWereRead` | `EmptyWasRead` | `ListsInv` |
| `OnboardingTypeCorrect` | `TypeOK` of `DeviceOnboarding` | with the three below |
| `OnlyTestedDevices` | `RegisteredWasTested` | `IInv` of `DeviceOnboardingProofs` |
| `OneDevicePerToken` | `TokenAdmitsOne` | the same |
| `OneDevicePerAddress` | `AddressesDiffer` | itself inductive |
| `ReportOfTarget` | `ReportHasTarget` | `TargetInv` |
| `SettingsTypeCorrect` | `TypeOK` of `TenantSettings` | `Typed` |
| `HeldControls` | `FlagsTellHandlers` | `Typed` |
| `PageShowsActiveTenant` | `SettledIsActive` | `Typed`, `FlagsTellHandlers`; no creation or renaming |
| `EveryControlHeld` | `HeldControlsTold` | `HeldControls` |
| `AccountsTypeCorrect` | `Typed` of `AccountsProofs` | `IInv` there |
| `OneAccount`, `OneAccountEach` | `OneAccountPerEmail` | the same |
| `NobodyUninvited`, `EveryMemberLetIn` | `MembersWereLetIn` | the same |
| `DialogHasItsHandler` | `AskersWait` | `IInv` of `DevicePagesProofs` |
| `DeleteButtonHeld` | `DeletingTellsHandler` | the same |
| `DeletesTheDeviceShown` | `DeletesDeviceShownByNew` | `NewInv`; the history does not jump |
| `CardsOverAreResolved` | `ResolvedShownIsResolved` | `CardsTrue` |
| `OnlyOlderMissedByAll` | `AllMissesOnlyOlder` | the same |
| `OneSubmissionAtOnce` | `OneSubmission` | `SubmitInv` |

The argument. `Effects` sorts the steps of `Next` by what they do to
`device_state`, `alerts` and `announced`: most are quiet, and the rest are the
handful of statements that write those tables. `CommitCases` says which of
raise, close, refresh or nothing a committed transaction is, from the state it
read. `AlertSteps` then lists all rewrites of a single alert. With these, each
invariant is checked against a few updates instead of twenty actions.

The invariants strengthen each other. That an alert is closed by the step that
ends the outage needs every active alert to be of a DOWN device, and the
refinement needs both that and uniqueness, since closing *all* active alerts of
a device must equal closing *the* incident. `NoSilentOutage` has to find a
witness among the alerts of a DOWN device: it is the one whose timeline does not
say cleared, which stays one because only the closing step writes that event.
`StateIsHistory` is not inductive by itself: the state alone does not say how
far the next threshold is; `CountersMatchHistory` is the strengthening.

That a device which answers is charged at most once per worker needs more than
the counter: `Late` is the set of polls that may still charge a failure to the
row, those that upserted a row since deleted and those that have failed already,
and the invariant is that the counter and their number together do not exceed
the workers (`ChargedOnce`). A failure that is stored takes its poll out of
`Late`; nothing puts one in while the row lives; a new row starts with the
counter at zero, which is where every worker may be late. `Issued` keeps what a
worker has in its hands apart from the rows of other hosts.

Of the other modules, for any sets of rows, tenants, users and handlers in
progress, and under the assumptions their modules name:

- Webhooks. That no delivery outlives its destination or its alert is inductive
  as it stands: the record and the cascades are one statement each. That a
  sender of a running poll stops only after a success or its last attempt needs
  to know that a sender belongs to a poll that was started, and that one of an
  earlier poll never becomes current again (`SendersSane`). It supposes that no
  statement fails, since a sender ignores the error of its record.
- Registration. Between consuming a token and inserting the device the token is
  in neither table: only the request holds it. The invariant therefore says who
  holds a token (`HoldersOwnTheirToken`: at most one request, for the
  configuration the token was issued for, and no device yet), that a page's test
  names an issued token (`TestsNameToken`) and that tokens are issued once
  (`TokensFresh`). Nothing is assumed of the fingerprint: it may be any function
  of the configuration. `Quieter` collects the many steps that leave all of it
  alone.
- Accounts. Between the check of a request and its inserts other requests are
  served; `Checked` says what the check found and that it still holds at the
  insert, because nobody takes back what a tenant was founded for or what an
  invite is of, and nobody's sign-up without an organization is forgotten
  (`GrantsKept`). That an address has one account is due to the
  unique index alone.
- Settings. `Moves` says that every step begins, continues or ends one handler,
  and `HeldControls` follows from that alone. `PageShowsActiveTenant` needs a
  statement about the middle of a handler: `Coherent` says that at most one
  handler is in charge of loading, and what its answers, the cookie and the
  page's copies have to do with each other at each of its stages; handlers of an
  earlier visit are in charge of nothing, and `overtaken` covers what the cookie
  does to the page through them. Creation and
  renaming are excluded because they are not held by the flag of the switch,
  and with them the property fails.
- Device pages. One dialog serves all askers; that it never loses one is due to
  the button it covers, so the invariant relates dialog, flag and handlers
  (`Single`: one handler asks or deletes at a time) and rules polls
  out of the legacy page, whose handlers it counts. In the new application the
  device shown, and a device being read, are the device of the address, so a
  deletion begins with the device it was confirmed for (`NewInv`).
- Incidents page. Alerts are never taken back to an earlier status
  (`AlertsMove`), so what was true of an answer when it was made stays true on
  its way and on screen (`LoadStaysTrue`). For the tab "all" the invariant
  follows the two queries: an alert missing from the first answer is older than
  all of it, or is resolved by then and so has its place in the second
  (`LoadTrue`). Of the dialogs, `SubmitInv` is
  that the shared flag is true exactly while one handler is a submission, the
  reload it ends with included.
- Reports. The target of the report shown, or on its way, is stale only while a
  handler that saved a new one is about to read the report again, or `overtaken`
  says that it arrived late (`TargetInv`).
- Legacy settings, session, lists. The settings shown are stale only while a
  handler that will load again is waiting, or its failure was told
  (`SettingsInv`). The frame shows, and asks for, the tenant of the cookie
  unless an answer is waiting that resets it (`Reset`), for which `FrameInv` has
  to rule out a login behind the frame; this is where `Forms = {}` is used. On
  the two lists an empty table is explained at every moment by a load, a failure
  or an answer (`ListsInv`).

The parts side by side. A property of a run of several modules is about
`EachSpec`, in which one part moves. `MCTenantSettingsProofs` shows that a
behaviour of all is a behaviour of each and cites the theorem about the part;
`WebhooksProofs`, `DeviceOnboardingProofs` and `DevicePagesProofs` prove an
invariant of the part in use. The assumptions on the constants of the parts are
assumptions of the run's module, which TLC evaluates.

Model-checked only: `Recovery`, `SendersEnd` and `CheckingEnds`, as
liveness under fairness is beyond the prover; and the counterexamples. That a
third worker is needed to take a device that answers DOWN is TLC's; that two
never do is proved.

## 5. Not modelled

- Poll scheduling (ticker, `ListPollerDevices` with order and limit, intervals,
  the bounded channel, YAML fallback): merged into the fairness of `recovery`,
  which says what it supposes. Durations decide it, and the models have none.
- Interface alerts: thresholds over counters and rates of two polls are
  arithmetic; of their events only the dispatch is in `Webhooks`.
- Discovery, the SNMP wire protocol, the downtime arithmetic of `ReportSLA`,
  encryption, hashing, signing, configuration, metrics: pure computations or
  library calls. Their outcomes are inputs of the models.
- The login rate limiter: a token bucket of a library under a mutex.
- Migrations: sequential files at start. Whether a `COMMIT` inside one ends the
  driver's transaction is a question to the driver. The constraints they leave
  behind are part of the models.
- Overview and topology queries, HTTP routing, demo data: reads and fixtures.
- Of the web applications: the widgets under `app/components/ui`, charts, toasts,
  the topology pages, the quick start, the static legacy reports page, badges of
  the frame, wording and layout. They hold no state that another component
  reads.
- Single items left out of modelled parts are named with the components in
  `PROJECT.json`; hazards without a property say why.

## 6. Running

    tlc -config MCPoller.cfg MCDeviceHealth.tla
    tlc -config MCSettings.cfg MCTenantSettings.tla
    tlc -config MCRetries.cfg Webhooks.tla
    tlapm DeviceHealthProofs.tla
    tlapm TenantSettingsProofs.tla
