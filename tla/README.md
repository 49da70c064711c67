# A verification project for simpleadmin (quectel-rgmii-toolkit-Go)

`simpleadmin-httpd` is a Go service on a Quectel modem module. It serves an
administration page, and talks to the modem with AT commands over
`/dev/smd11`. This directory holds TLA+ modules that model its control, TLC
configurations that check them on small instances, and theorems that TLAPS
proves for every value of the constants.

Paths below are relative to `src/`; `G/` stands for
`go-build/simpleadmin-go/cmd/simpleadmin-httpd/`, `JS/` for
`development/simpleadmin/www/js/`.

## 1. The system

| Component | State it keeps | Operations | Talks to |
|---|---|---|---|
| AT command cache (`G/at_cache.go`) | map of entries (response, error, time stamp, running flag, waiters), a queue of 64, boot delay | `Fetch`, `enqueue`, `run`, `invalidateReadCache`, periodic, delayed and initial refresh | pages through the API, the transport |
| AT transport (`G/main.go`, `G/native_serial.go`) | lock file, per-process helper, its buffer and signal channel | `runATPayload...`, `runSMSTransaction`, `drain`, `readUntilTokens`, `readLoop`, `simpleadmin-httpd at` | the modem, other processes |
| TTL rules (`G/native_ttl.go`) | rules in iptables and ip6tables, the state file | start-up, `set_ttl`, `simpleadmin-httpd ttl` | the kernel, the file system |
| Login sessions (`G/main.go`) | map of tokens with expiry | login, logout, validate | HTTP and WebSocket handlers |
| Password file (`G/main.go`) | one line in a file | ensure, load, write, set password | login |
| API WebSocket server (`G/api_websocket.go`) | a connection per page | read a frame, dispatch to a handler, reply by id | all handlers |
| Browser API client (`JS/simpleadmin-core.js`) | socket, connection promise, pending requests | `connect`, `request`, `rejectAll` | the server |
| Page actions, status parsing (`G/structured_api.go`) | cached model name | sequences of AT commands, parsing | the cache |
| SMS sending (`G/structured_api.go`, `G/sms_number.go`) | none | split, encode, send segment by segment | the transport |
| SMS list (`G/structured_api.go`) | none | list, merge the parts of long messages, delete | the cache, the SMS page |
| SMS page (`JS/pages/sms.js`) | list on display, selection, open message, pending list, poll timer | load, poll, confirm, select, delete, leave, come back | the client |
| SMS PDU coding (`G/sms_pdu.go`) | none | encode, decode | SMS list and sending |
| Page switching (`JS/simpleadmin-spa.js`, `JS/vue-app.js`) | the active section, the pages mounted | `showPage` from clicks, history moves and loads | every page, by the `page-changed` event |
| Device information, dashboard (`JS/pages/deviceinfo.js`, `JS/pages/index.js`) | a timer or an interval, calls under way, refresh rate | start, stop, refresh, retry | the client |
| Settings page (`JS/pages/settings.js`) | form data, flags of what is saved, the countdown of a reboot and its timers | read and change settings, IMEI, reboot, language | the client, the language setting |
| Network page (`JS/pages/network.js`, `JS/band_map.js`, `JS/populate-checkbox.js`) | model, locked bands and check boxes, flags and retries of queries, countdown, scan, selection, form of the manual lock | read, lock and reset bands, save, scan, select, lock cells | the client |
| Language (`G/main.go`, `Lang` of `JS/simpleadmin-core.js`) | one word in a file, one in the browser | load, save | the settings page |
| Console, metrics, certificates, mock, stubs, scripts | see `PROJECT.json` | | |

A page's request goes: browser client -> WebSocket -> handler -> `Fetch` of the
cache -> queue -> worker -> transport -> helper process -> modem, and the answer
goes back through the entry of the cache and the done channels of its waiters.

### What is hard here

* **Concurrency in the cache.** A goroutine per request, one worker, overflow
  goroutines when the queue is full, and three refreshing goroutines share the
  entries; the decision to run a command, the send to the queue, the execution,
  the storing, the waking and the invalidation are separate critical sections.
* **Several processes at one port.** The service and any number of
  `simpleadmin-httpd at` processes share the modem; each has a helper that
  reads the same port, and only a lock file separates their transactions.
* **Answers that are late or never come, retries, helpers that die.**
* **Non-atomic effects outside the process**: two rule tables and a file, with
  no lock, changed by several commands, each of which can fail; crashes.
* **A socket shared by all requests of a page**, which closes and is reopened.
* **A page that polls a list which changes under it** while the user selects and
  deletes by position, leaves, and comes back with calls still under way.
* **Pages whose flows await a call while their buttons go on working**: several
  flows of a page run at once and share its flags, timers, countdown and the
  promises of what is being read; an answer may have been asked for before what
  the user changed since.

What makes each component correct is written as properties in its module; the
list `hazards` in `PROJECT.json` names the line at which each danger bites and
the properties that would catch it.

## 2. Modules

| Module | What it is |
|---|---|
| `ATCache` | the cache: clients in `Fetch`, worker and overflow goroutines, refresh, boot delay |
| `RequestCoalescer` | abstract specification of what `enqueue` promises: single flight, no lost waiter |
| `ATCacheHistory` | `ATCache` with history variables that remember what callers were told |
| `ATTransport` | transactions of several processes with a modem that owes no answer |
| `SerialPort` | abstract specification of what the transport promises: a port of one's own, one's own answer, an SMS body taken once |
| `TTLRules` | the TTL setting over rule tables and a file without locks |
| `ApiChannel` | the browser's API client and the service's connection loop, over sockets that break |
| `RemoteCalls` | abstract specification of what a page may rely on: settled once, executed at most once |
| `SMSInbox` | the SMS page's inbox, the service's list, merging and deletion, and the modem's slots |
| `PageRefresh` | switching pages, and the two pages that refresh themselves while they are shown |
| `SettingsPage` | the settings page, with the language setting it shares with the service |
| `NetworkPage` | the network page |
| `MCATTransport`, `MCTTLRules` | symmetry and constants for TLC |
| `ATCacheProofs`, `ATTransportProofs`, `ApiChannelProofs`, `TTLRulesProofs`, `PageRefreshProofs`, `SettingsPageProofs`, `NetworkPageProofs`, `SMSInboxProofs` | theorems and proofs |

The modules of the service and those of the pages meet in what they assume of
each other: a page's call is executed and answered in the order of the calls of
its connection, or rejected with all others (`ApiChannel`), a read that is
forced returns what the modem has (`ATCache`), and an action is executed once
(`SerialPort`, which `ATTransport` implements).

Operators whose comment begins with "Mutant" are deliberate errors in the
model's form of the code, kept beside the definitions they change. No
specification uses them; replacing the definition by the mutant makes the
property that is about it fail, which shows that the property depends on that
piece of code.

### ATCache

One client process per request goroutine, with the steps of `Fetch` between
which the lock is not held: `FetchStart` (first snapshot and the decision),
`EnqueueJoin`/`EnqueueFresh`/`EnqueueRun` (one critical section each),
`Send` (the queue, after the unlock), waiting, `Timeout`, `Resnapshot`,
`Return`. A runner (the worker, or an overflow goroutine) goes through `Take`,
`Gate` (the boot delay), `Execute`, `Store` and, after an action,
`InvalidateReadCache`; that these are two critical sections and that the
waiters are closed between them is where the divergences below come from.

The modem's configuration is abstracted to a version number: an action may move
it, a read returns what it saw. Maximum ages are abstracted to a step `Age` that
may happen whenever an entry is fresh. `Timeout` is possible whenever a client
waits: the wait is the command's own timeout plus 2 s, which the commands queued
before it can use up.

### ATTransport

A transaction is `Begin`, `LockGlobal`, `Open`, `DrainStart`, `DrainMore`*,
`DrainEnd`, `Write`, a loop of `Look` and `Wakeup`, and `Answered`, `Prompted`
(an SMS goes on with `WriteBody`) or `Deadline`. Every error goes through
`Fail`, which is where `shouldTryNextATDevice` decides on the second try.
Helpers deliver, die and are restarted (or fail to be) at any time; the service
can be killed, which frees the lock file. The modem (external) takes payloads in
order, answers late or not at all, and does not know which transaction is
current; so answers that belong to an earlier transaction do turn up.

Abstractions: one device, since all candidates are filtered to `/dev/smd11`
(`filterFixedATDeviceCandidates`); an answer is its last line; a write that fails has not
delivered the end of the payload, which comes last; a helper's append to the
buffer and its signal are one step (`Deliver`), since a caller that sees the
buffer before the signal does not need it.

`SerialPort` is what is left of this for a caller: it asks, has the port to
itself from `Take` to `Return` or `GiveUp`, gets its own answer unless somebody's
was not waited for before (`late`), and the modem takes the body of an SMS at most
once, within its transaction or late. The mapping shows `flock` as the user of
the port and `missed` as `late`; helpers, buffers, signals, drains and what is on
the line have no part in it.

### TTLRules

An actor (a request's goroutine, a `ttl` process, the start of the service)
lists the chain of each family, deletes what it listed rule by rule, inserts,
and truncates and writes the file. Each external command and each of the two
halves of `os.WriteFile` is a step, and may fail. Crashes stop the service's
actors where they are; a reboot also empties the chains. The file is kept as
digits, because what two overlapping writes leave is the point: `torn` remembers
that an actor began to write while another was between its truncation and its
write, the only way the file comes to hold a value nobody asked for.

A chain is a bag of rules, and so is what an actor has listed: the rules of a
listing are deleted one by one in any order, of which the code's is one, and two
equal rules are told apart by nothing. A rule of somebody else is a member of
`Others`, of which the model keeps the marks (`Carries`) that
`managedTTLDeleteArgs` searches the listed line for: the interface, the target and
the flag (`native_ttl.go:139-167`). A rule with all three is `Managed`, whoever put
it there and whatever else it matches: the code deletes it like one of its own.
The others are `Spared`. `TextAssumption` says that what is written
for a value reads as that value; it involves no constant, so TLC evaluates it for
all of 0..255, and the proofs use it where reading a file is concerned.

### ApiChannel

`Request` is `connect().then(send)`: a call finds the socket open and is sent
(`Send`), finds one being opened and waits on its promise (`Join`), or opens one
(`Dial`). `OnOpen`, `OnError`, `OnClose` and `OnMessage` are the handlers of a
socket's events. The service's goroutine of a socket is `Read`, `Handle` (which
runs the handler and writes the answer) and `ServerEnds`. `Break` is external: a
connection is lost, or the service dies; each side finds out by itself later.

A browser runs one event at a time, with the code that waited for a promise run
right after the event that settled it. Between the `error` and the `close` of a
socket (state `failing`) only such code runs, and it may issue calls:
`JS/pages/sms.js:415` goes on to send the message although its first call
failed. Such a call opens a second socket, and the `close` of the first then
clears the promise, and rejects the calls, of the second. `retried` remembers
that this happened; `OwnFailure` is promised only until then, everything else
always.

Calls are numbered in the order in which a page issues them, and reach a socket
and are answered in that order, so what is on the way is a set of numbers of
which the smallest is next.

### SMSInbox

The modem's slots are a function from occupied slots to parts; `Arrive`
(external) fills the first free one. `ReadList` and `Delete` are `handleSMSData`;
`Merge` is what `parseSMSListAT` makes of a list: the slots of a group are put in order
by `Sorted`, which takes the one order there is (the parts of a message have
different numbers, slots differ). The page's variables are those
of `fetchSMS`: the list on display and both of its signatures are `view`, the
`smsPending...` variables are `pending`. Each handler of an answer is an action:
`OnList` (of `init` and after a deletion), `OnDeleted`, `OnAllDeleted`, `OnMeta`
(the poll and `handlePolledSMSMeta`), `OnStable` (`fetchStableSMSList`). The
handlers run in the order of the answers, and the service answers in the order
of the calls, because it serves a connection with one loop and `ApiChannel`
settles calls in order. `Leave` and `Enter` are the page-changed event: the
first clears the flag of a poll under way, so that two polls may run at once
after the second. `OpenMessage` and `CloseMessage` (the button and Escape) are the
dialog of a message.

Things go wrong in three ways: `ReadFails` (the list cached before, or an error
text, which parses to an empty list), `DeleteFails` (done in part, or queued and
done later by `LateDelete`), and `Break` (all calls rejected, `ApiChannel`).
`reused` and `overdue` are history variables.

The properties state their exceptions where the code has them: the page compares
slots and not texts, so a slot emptied and filled again goes unnoticed
(`reused`), and a poll that saw an empty inbox is not confirmed (`Head(calls).slots # {}`).

### PageRefresh

Showing a page runs, in one task, the mounting of the page (which runs its
`init`) and the `page-changed` listeners of every page mounted. So the two pages
are records, their methods operators from record to record with the names of the
code, and `showPage` composes them in that order. `ClickLink`, `PopState`,
`HashChange` (a task of its own, which the browser runs some time after the
move), `Reload`, `UpdateRefreshRate`, the timers and the answers are the
actions. A timer is counted when it is armed, and `named` says whether the
variable of the page still names it: clearing a variable that names another
timer, or none, clears nothing. `LeaveCancelled` is the dashboard's listener of `beforeunload`
(`JS/pages/index.js:389-391`) when the user then stays: it stops the interval, runs
once per load (`heard`), and a dashboard that is shown meanwhile refreshes only when
it is shown anew (`halted`). The history API is assumed to work, and answers
of the dashboard are counted but not told apart, because the page applies one or
drops it whole.

### SettingsPage

`calls` are the calls under way, answered in order or lost together (`Break`);
what the service had received of lost ones it may execute at any later time or
never (`late`, `LateExecute`). The status is an unforced read of the cache
(`structured_api.go:342-344`): `Readings` are the modem's settings, older ones, or the
defaults `-` and `0` that a pending or failed answer is parsed to (`:985`). A load
of the language that fails keeps the one in use (`simpleadmin-core.js:958-961`).
A reboot's countdown is an interval (`ticking`, `named`), and each countdown that
ends arms a timer of five seconds (`settling`), which nothing clears. Fields of
forms are kept where an answer may overwrite what the user typed or chose: the
IMEI, the DMZ mode, the language; the rest is rendered. What covers the page
(`Clickable`) and what a button waits for are from `index.html`.

The properties except what the code does not do: `raced` is a countdown that
began within the five seconds after an earlier one: the late timer then sets
`isRebooted` and runs `init` in the middle of it, although the comments at
`JS/pages/settings.js:180` and `:328` call it the flag of a device that has not
come back. `doubt` is a DMZ mode that was refused, lost (until a later status is
the modem's and nothing lost is left to be executed), changed while a
status was out, or read from a status that is not the modem's, which the page shows
without another try: a pending or failed read shows the mode as disabled.
`langDoubt` is a save that failed or was lost, or that a load issued earlier
overtakes: then the old language is used while the selection and the service have
the new one. `imeiDoubt` is a field that shows an IMEI that is not the modem's, because
of a change the page has not read again or of an answer that is older than the change: the
field follows the page's IMEI while it holds that (`JS/pages/settings.js:342-349`). An IMEI the modem refuses
still starts the countdown, and the dialog's IMEI is filled in again when the
user empties the field under it.

### NetworkPage

Every flow awaits a call, shows an overlay for three seconds and reads again.
Until the overlay is up the other buttons work, so the flows of two locks, a
reset and a save run at once. `inFlight` is the set of the queries the page
believes to be out, `loops` the countdown loops by what they go on with, which
all count down one number (two of them run twice as fast). `loaded` and `locked`
are `locked_<mode>_bands`: null, or what was read. `ReadBands` is
`getSupportedBands(true, ...)`, and `ReadAgain` that and `getCurrentSettings()`;
both reuse a promise (`Ask`). Of a lock of NR cells, one request each, `todo` has
the cells selected when it began; the code goes over the array itself
(`JS/pages/network.js:244`), which matters only if the user locks several cells
carried over to NR mode, goes back to LTE mode and clicks another row before the
last was answered. As on the settings page, a lock or a reset of the bands that was
lost with its connection may be executed at any later time (`late`, `LateExecute`).

`edited`, `doubt` and `carried` are history variables for what the code does not
promise: a box ticked by the user since the boxes were drawn (an answer for any
mode draws all of them again and discards the ticks of the others), a query whose
retries are used up or whose call was lost, a mode a lost lock or reset may still
change (its doubt outlasts the answers), and a selection that was made in
another table (it survives a new scan, a cleared table and a change of the mode;
in particular two cells ticked in LTE mode are locked one after another after a
change to NR mode, although `JS/pages/network.js:166` says one cell only).
`panel` bounds the model: a user works with the bands, with the scan or with the
form; the three share the countdown, `init` and the calls, which every behaviour
has. When the call for the model is rejected, `getModel` keeps the rejected
promise and every later `init` fails with it: the page is dead until it is
loaded again, and `PageComesBack` promises the bands only while no connection
broke. `_initialized`, which nothing reads, and the values of the settings are
left out.

## 3. Runs

| Run | Properties | What it shows |
|---|---|---|
| `cache_serial` | `TypeOK SingleFlight WaitersCovered NoOverflow CoherentWhenSettled CoalescerSpec` | a page and the refreshers, a read and an action, a queue with a place per command; refinement of `RequestCoalescer`, liveness included |
| `cache_overflow` | `BootGrace EventuallyCoherent` | a queue of one place, from power-on: overflow goroutines run beside the worker, reads and actions over the end of the boot delay; stale entries that overtook an invalidation are replaced |
| `transport_safe` | `TypeOK LockOwned OwnAnswer NoMissedSignal PortSpec` | two goroutines and an `at` process, AT and SMS, deaths; refinement of `SerialPort` |
| `transport_live` | `TransactionEnds` | transactions end although the modem is silent and the helper fails for ever |
| `ttl_serial` | `TypeOK NoPilingUp FileIsRequested UndisturbedSetSettles` | an undisturbed operation repairs what failures, crashes and overlapping operations left, beside the rules of others that lack a mark (one that has all is deleted); rules do not pile up, the file is wrong only after two writers met |
| `api_channel` | `TypeOK NoOrphan OwnFailure EverySettles PromisedSpec` | calls issued at any time, sockets that fail to open, break and are replaced; refinement of `RemoteCalls` |
| `sms_inbox` | `TypeOK LongInOrder SelectionKept NoHalfShown ShownInTheEnd` | parts arrive while the page polls and the user selects, deletes, opens and closes, refreshes, leaves and comes back, and reads, deletions and the socket fail |
| `network_page` | `TypeOK BandsRight LocksAsShown PageComesBack` | bands ticked, locked and reset, settings saved, cells scanned, selected and locked, the manual form filled, while queries are answered, pending or lost, and lost locks are executed late |
| `settings_page` | `TypeOK TimersRight ShownIsTrue PageRecovers` | settings changed, an IMEI typed and confirmed, a language saved, reboots, while answers are out, stale, pending or failed, and calls are lost or executed after the connection broke |
| `page_refresh` | `TypeOK RefreshWhileShown ShownIsRefreshed` | clicks, history moves, reloads and changes of the rate, while timers fire, calls are answered late or fail, and a navigation is cancelled |

### Where the code and its documentation disagree

Two runs are expected to find a violation; each checks one statement of
`README.md` of the repository.

| Run | Statement | What the code does |
|---|---|---|
| `ok_is_own` | line 585: each step continues after its `OK` was received | a `Fetch` that waits, as those of the page actions do (`structured_api.go:88-92`), and times out returns at its second look the `OK` of an earlier execution (`at_cache.go:122`); callers that do not wait are left out |
| `sms_plain_merged` | line 934: without UDH only messages of one sender, within 5 s, in adjacent slots are merged | all messages without UDH are merged into one: the text of a missing `concatRef` is `<nil>`, not empty (`structured_api.go:1163`) |

Two more were found while modelling, and have no run of their own. The only
worker sleeps on a read during the boot delay (up to 35 s) while an action is
queued behind it (`at_cache.go:68`), although line 639 says that actions are not
affected; and `invalidateReadCache` skips entries that are running
(`at_cache.go:247`), so a page can be given the old state after an action's
`OK`, which line 635 says is avoided. `BootGrace` and `CoherentWhenSettled` are
what holds instead.

### Bounds, and why they are enough

* *ATCache.* One read, one action, one overflow goroutine, one version change.
  A queue of one place with two commands is the smallest that overflows; a queue
  of two with two commands is the smallest that may not. One client: the periodic,
  delayed and initial refreshers enqueue the same commands beside it, so it joins
  executions it did not start and finds entries others have changed; two clients
  are explored by `ok_is_own`, and the theorems are about any number. `MaxDue = 1`:
  delayed refreshes that sleep together do the same thing. `Models` and `SMSLists`,
  the commands an action does not make stale, are empty in the passing runs, so
  that every branch of `Suppressed` is taken in `ok_is_own` only. With a model command
  and a queue of three the safety properties of `cache_serial` hold over 6 350 264
  states, too many for a run; the theorems are about all such sets.
* *ATTransport.* Two transactions, each with two tries, are enough for one to
  take the other's answer; two goroutines of one process share a reader, an `at`
  process brings a reader of its own; one death (of a helper or of the service).
  `transport_live` has the two goroutines only: processes interact only through
  the lock file and the port, and the modem is not fair there anyway.
* *TTLRules.* Values with one and three digits, and 0. `MaxSets` operations,
  `MaxFaults` failing commands, `MaxCrashes` crashes and reboots; three
  operations are an initial one, one that is disturbed and one that repairs. Four
  rules of others: one for another interface, one with another target, one that
  changes the TTL in another way, and one that has every mark and a match of its own.
* *ApiChannel.* Four calls, four sockets, two of which may break while in use
  (any may fail to open). Two sockets at once need a failure, a call from a
  rejection handler and the late close: two sockets and two calls; the third and
  fourth show what the late close does to the calls of the second socket, and
  that the page recovers.
* *SMSInbox.* A long message of two parts and a plain one in three slots: parts
  can arrive in either order, with the plain message between them, and find
  slots that a deletion freed. Two things the user does (select and delete,
  leave and come back, open and refresh) and one fault; with three things
  (745 029 states) everything holds as well, but the run takes four minutes.
  `sms_plain_merged` needs two messages and nothing else.
* *PageRefresh.* Six acts of the user: leaving and coming back twice with a
  reload or a change of the rate in between; a third page that refreshes nothing
  stands for the others, `elsewhere` for an address that is no page. One cancelled
  navigation a load, which is what the listener allows. Rates below,
  within and above 2..60; `RetryLimit` is 3 for the code's 10. The invariants are
  proved for all values.
* *SettingsPage.* Three acts of the user between the answers (a reboot, a change
  and another, or an IMEI typed, its dialog and a change), one break, two ticks a
  countdown, two languages and two IMEIs. A second countdown within the five
  seconds after the first needs two acts. What is stored at first is bounded
  (`FirstIMEIs`, `FirstModes`, `FirstLanguages`): the mode that differs from the
  default, so that a read that failed shows, and a language that may differ from
  the browser's; the other IMEI is symmetric. One break, whose lost calls may be
  executed between any later steps.
* *NetworkPage.* Two modes and two bands (a lock of one does not touch the other),
  two cells a list that may share a key, one retry (the code's 3), two tries for
  the model (4), a countdown of one second, two pairs in the form (10), one
  pending answer, one break, and three to five acts of the user within a part of
  the page: two flows and a change of the ticks between them; two scans, two
  clicks and a lock.
* `CHECK_DEADLOCK FALSE` where used: counters of transactions, sets, calls, clicks and crashes
  are bounded, so those models stop when the bounds are used up and everything
  is idle. The real system waits for requests then. ATCache is checked for
  deadlock.

### Fairness, and why the code justifies it

* `ATCache!FairSpec`: goroutines that can continue do (the Go scheduler, and a
  transaction that has its own deadlines: shown by `TransactionEnds`), time
  passes (`Age`, `BootEnd`), and the ticker ticks. `Timeout` is *not* fair, so
  the liveness of `CoalescerSpec`, that a caller who waits is released, says that
  the wakeups alone suffice; requests are not fair.
* `ATTransport!FairSpec`: a caller that can go on does (`Progress`: every step
  except the failure of the lock file, of opening the port and of writing, which
  nothing obliges to happen); and a timer that
  has fired is chosen in the end by the `select` it is in, although signals may
  be ready as well each time (Go chooses among ready cases at random): strong
  fairness of the three timer steps. Nothing is assumed of the modem or the
  helpers. The lock file needs no more than weak fairness with two contenders
  and finitely many transactions; with unbounded competition `flock` promises
  no order and neither does the model.
* `TTLRules` has no liveness property: `UndisturbedSetSettles` is about the step
  that ends an operation.
* `ApiChannel!FairSpec`: for each socket, the browser handles the next of its
  events (opening ends one way or the other, an answer that has arrived is
  delivered, a broken connection is noticed) and the goroutine of the service
  reads and its handler ends. The handlers end because `Fetch` does
  (`CoalescerSpec`). That a dead connection is noticed is what TCP and the
  browser promise for a connection with data in flight; the client has no
  timer of its own, and `EverySettles` rests on this assumption.

* `SMSInbox!FairSpec`: the timer fires and time passes (`AutoRefresh`,
  `WaitOut`), the browser handles what was answered, the service serves (the
  page's calls end: `EverySettles`, `CoalescerSpec`), and a deletion that is
  queued is executed. The user and the arrivals are not fair.
* `PageRefresh!FairSpec`, `SettingsPage!FairSpec`, `NetworkPage!FairSpec`: timers
  fire, the browser runs the tasks it has queued, and the service answers what
  reached it (`EverySettles`), with whatever answer. A failure is never assumed
  not to happen again, but counted where a counter keeps the model finite; the
  user is not fair.

## 4. Proofs

All proofs hold for any sets of commands, clients, callers, overflow
goroutines, modes, bands and cells and any bounds, under the named assumptions of each module
(`ConstantsAssumption`, `TransportAssumption`, `ChannelAssumption`, `TTLAssumption`,
`PagesAssumption`, `RatesAssumption`, `BoundsAssumption`, `ImeiAssumption`,
`NetworkAssumption`, `InboxAssumption`), which only say that the sets are disjoint where the code's
are, that the bounds are numbers, of the TTL that values are bytes and its actors
finitely many, of the inbox that a long message has more than one part, and of the
network page that a model has bands; and `TextAssumption` of `TTLRules`, a
closed formula that TLC evaluates.

| Theorem | Module | Says |
|---|---|---|
| `TypeCorrect` | `ATCacheProofs`, `ATTransportProofs`, `TTLRulesProofs`, `ApiChannelProofs`, `PageRefreshProofs`, `SettingsPageProofs`, `NetworkPageProofs`, `SMSInboxProofs` | `Spec => []TypeOK` |
| `SingleFlightCorrect` | `ATCacheProofs` | the running flag is one execution |
| `WaitersCoveredCorrect` | `ATCacheProofs` | no lost wakeup |
| `ImplementsCoalescer` | `ATCacheProofs` | refinement of `RequestCoalescer!Spec` |
| `BootGraceCorrect` | `ATCacheProofs` | the boot delay |
| `NoOverflowCorrect` | `ATCacheProofs` | a queue with a place per command never overflows |
| `CoherentWhenSettledCorrect` | `ATCacheProofs` | then the cache is coherent once an action has settled |
| `LockOwnedCorrect` | `ATTransportProofs` | the lock file is released on every path |
| `NoMissedSignalCorrect` | `ATTransportProofs` | a channel of capacity one suffices |
| `SMSBodyOnceCorrect` | `ATTransportProofs` | no SMS body reaches the modem twice |
| `OwnAnswerCorrect` | `ATTransportProofs` | while nothing was missed, a caller returns the answer to its own command |
| `ImplementsSerialPort` | `ATTransportProofs` | refinement of `SerialPort!Spec` |
| `NoPilingUpCorrect` | `TTLRulesProofs` | while no command fails, a chain has no more managed rules than there are actors |
| `FileIsRequestedCorrect` | `TTLRulesProofs` | without two writers at once the file reads as a requested value or as none |
| `UndisturbedSetSettlesCorrect` | `TTLRulesProofs` | an undisturbed operation ends with its rule once in both chains, beside the rules of others that lack a mark and no other, and its value in the file |
| `NoOrphanCorrect` | `ApiChannelProofs` | every waiting call waits for a socket whose end rejects it |
| `OwnFailureCorrect` | `ApiChannelProofs` | without calls from rejection handlers a call fails with its own socket |
| `ImplementsRemoteCalls` | `ApiChannelProofs` | refinement of `RemoteCalls!Spec`: at most one execution, resolved by it only |
| `RefreshWhileShownCorrect` | `PageRefreshProofs` | a page refreshes itself, once, exactly while it is shown and no cancelled navigation stopped it |
| `TimersRightCorrect` | `SettingsPageProofs` | no timer of a reboot or of a LAN change is lost or doubled |
| `ShownIsTrueCorrect` | `SettingsPageProofs` | where nothing is in doubt the DMZ mode and language shown are those stored, and the IMEI confirmed is the one typed |
| `BandsRightCorrect` | `NetworkPageProofs` | each query is out once; when all is answered the boxes are ticked as the modem is locked |
| `LocksAsShownCorrect` | `NetworkPageProofs` | a lock asks for cells the table shows ticked; no hidden field is kept |
| `LongInOrderCorrect` | `SMSInboxProofs` | a long message on display has its own parts, in their order |
| `SelectionKeptCorrect` | `SMSInboxProofs` | a replaced list selects and opens nothing that was not |
| `NoHalfShownCorrect` | `SMSInboxProofs` | a poll that has not waited long shows no half of a message |

The arguments:

* *Single flight.* Not inductive alone: that the flag of `c` is one execution
  needs that whoever holds a place on the way (a client at `send`, the refresher,
  the queue, a runner) holds it for a command marked running, and that no two
  places hold the same command. The invariant is carried by where each step moves
  the one holder of its command. `WaitersCovered` then follows from single
  flight: the holder's `Store` takes the whole list.
* *No overflow* (`DeepQueue`: finitely many commands, no more than places).
  By single flight the queue has no duplicates, and the command being sent is not
  in it, so the queue is shorter than the number of commands. This is what the
  64 places of the code amount to: the commands of the pages are fewer. A page
  that lets the user type commands (the AT terminal) is outside that assumption,
  and the run with a queue of one place shows what is not lost then
  (`EventuallyCoherent` in `cache_overflow`).
* *Coherence.* With one runner an execution of a read never overlaps an action,
  and what the runner holds is what the modem answers now or will be invalidated
  by the invalidation still to come; the inductive invariant says this of the
  answer the worker holds as well as of the entries.
* *Transport.* `LockOwned` is inductive with the type invariant; everything else
  rests on it: only the owner moves. `NoMissedSignal` is inductive with it: the
  buffer grows only with a signal, and a signal is consumed only on the way to a
  new look. `SMSBodyOnce` needs the invariant `BodyInv`: no two callers have the
  same transaction, a transaction that has not reached its body has none in the
  modem's inbox and none taken, and one that has been past it never comes back,
  because no error after the body is retried. `OwnAnswer` needs `AnswerInv`, which
  says nothing once an answer was missed: until then what was written and not
  yet answered is one payload of the caller that holds the lock and waits, either
  in the modem's inbox or as one answer in its outbox, and while nobody asks both
  are empty; the caller drained what its buffer held before it wrote, so what the
  buffer gets afterwards is its own. `SMSBodyOnce` is checked as part of `PortSpec`.
* *The port.* `ImplementsSerialPort` puts these together. A return is one of the
  user of the port by `LockOwned`, and of its own answers by `AnswerInv`; a body
  that the modem takes is the first by `BodyInv`, and that of the user's
  transaction by `AnswerInv`; and who is in no transaction has none (`Resting`), so
  that a new one is a new request. A failed first try that is repeated is no step
  of the port, or makes it late.
* *TTL rules.* Chains are bags of rules, so the lemmas come first: what a deletion
  and an insertion leave of a bag. That only managed rules are listed, so that
  each spared one stays once in both chains, is inductive with the types. For
  `FileIsRequested` the file is what was there before, or it is empty
  while one actor stands between truncating and writing it, and then that actor's
  text is all it will contain. `UndisturbedSetSettles` needs `InHand`: an operation
  nobody disturbed has moved alone, so at each of its steps the chains hold
  what its earlier steps left, and the file its value once it is past saving; the spared
  rules make the rest of the chain.
  `NoPilingUp` counts equal rules, so the invariant gives the equal rules of a value
  as many actors as owners (`Owns`): an actor owns at most one rule of a family, and
  none from the end of its removal of that family's rules to its own insertion. While
  it deletes, an owner has a rule like its own on its list (`Claims`); of a rule that is
  deleted the owner is the actor that deletes it, if it owns one like it, and any
  other owner of one like it otherwise. All this holds while no command fails, where
  the property has its exception.
* *API channel.* `NoOrphan` is inductive with the types of the browser's
  variables, and the service's steps leave those alone. `OwnFailure` needs
  `OneSocket`: until a rejection handler has issued a call, the page's socket is
  the only one alive. The refinement needs `Placed`: a call that is on its way
  up or being executed was sent on that socket, is in no other place and has
  not been executed; so `Handle` executes it for the first time, and an answer
  on its way down is that of an execution.

* *Pages that refresh.* `RefreshWhileShown` needs to know more of the two records
  than it says: the device page is active exactly while it is shown, its flag is
  set exactly while a call is out, and a timer that is armed is the one that is
  named; the interval of the dashboard likewise, with `Going` (shown, and not
  halted) in place of shown. That a mounted page is active
  exactly then is carried through `showPage` by lemmas about the
  methods: what `start...` and `stop...` make of any record that has these
  facts.
* *Settings page.* The countdown and the timer of a LAN change are independent,
  with an invariant each. `CountdownRight` is inductive with one fact more: a
  countdown that did not begin while a timer of an earlier one was armed has none
  armed. `LanSuccessTimed` needs the calls: at most one change is among them, and
  only while the page says it is being saved and shows no success, so that its
  answer never finds a timer armed. This rests on the calls being a sequence of
  requests the page may issue, hence on the types of everything they are made of.
  `ShownIsTrue` has an invariant each for the DMZ mode, the language and the IMEI.
  All of them are about the calls of one action among those under way (which of
  them is last, and what it will set), so the lemmas say what a step does to
  those: it appends, takes the first, or leaves them in their order. What is `late`
  counts like a call under way whose execution may never be followed by an answer:
  while one about the mode or the language is left, that is in doubt.
* *Network page.* `PageInv` says what the page waits for and what will come of it.
  `AskedOnce`: of each query, of the question for the model and of a scan exactly
  one call is under way while the page's flag says so, and none otherwise.
  `TicksKept` carries `BandsRight`: a mode that is loaded shows the modem's lock
  (`Known`, except where a call failed, or a lost one may still lock: `LateOK`) and has its boxes drawn from it (`Drawn`, except
  where the user changed them); every mode that is not loaded is covered by
  a query under way, a retry or a countdown that ends in reading it (`Coming`);
  and before the bands are listed only the query of all modes can be any of these
  (`Early`). `LocksAsShown` needs `TableKept`, that a selection not carried over from
  another table is of cells of the table the parsed cells give in the page's
  mode; a call that locks them was issued with the cells so selected.
  `OverlayHeld` says that some countdown holds the overlay while it is shown.
* *SMS inbox.* The lemmas are about sorting: in a set of slots that a relation
  orders, the place of a slot is the number of those before it, which is one to one,
  so every place is taken and an order exists. Hence a merged text has exactly the
  parts of its slots, in the order of their numbers (`LongInOrder`), and the parts
  at some positions are those of the texts there, which is what `applySMSData`
  compares (`SelectionKept`). `NoHalfShown` needs to know where lists come from: the
  modem, the cache, the page and the answers under way are the only sources of
  another (`Sources`). As long as no slot is filled a second time there is one
  filling of the slots, all that ever was in them, of which every list is a part
  (`Filled`), so two lists of the same slots are the same list; and the slots a poll
  asks for are ones in which no message lacked parts (`Whole`), so the list with
  these slots that comes back lacks none. Where the code makes no promise the
  invariant makes none: a poll that had waited its time, or that saw no message.

Only model-checked: what is under fairness (the liveness part of
`CoalescerSpec`, `EventuallyCoherent`, `TransactionEnds`, `EverySettles`,
`ShownInTheEnd`, `ShownIsRefreshed`, `PageRecovers`, `PageComesBack`), which is
out of this prover's reach, as is everything about `ENABLED`; and the two
violations. Where a proof meets a filter or a fold of the library, whose induction
theorems take an operator as a parameter, it goes by the least element of a set of
positions instead (`NetworkPageProofs`, with the one theorem on well-founded
relations that needs none), or by an order that is shown to exist
(`SMSInboxProofs`).

## 5. Not modelled, and why

* *Login sessions* are a map under one mutex whose handlers do all they do inside
  it; no step is left open between two of them.
* *The password file* is read, checked and written by one handler without a lock,
  and created by the start of the service: of two changes made at once one is
  lost, and a crash within the first write leaves a partial file. `changeLoginPassword`
  of the settings page only holds its own flag.
* *SMS coding and sending*: splitting and headers are conversions without state.
  `sendSMSBusiness` sends the segments one after another, each a transaction of
  `ATTransport`; when one fails, the receiver has a part of the message. On the
  page, `sendSMS` is two calls in a row (`ApiChannel` has what is hard about it).
* *Start of the service with TTL 0*: it does not remove rules that a crash between
  inserting and saving left behind (`native_ttl.go:71`); `TTLRules` has that
  behaviour, and no property is about it.
* *Page actions and parsing in the service*: parsing of modem answers into fields
  is data; the sequences of actions appear as far as the pages see them.
* *Other clients, and commands typed on the settings page,* that change the IMEI,
  the DMZ mode or the bands behind the back of a page: its modem is changed by that
  page only. What the page then shows is as old as its last answer.
* *Rendering, translation, branding, certificates, metrics, the console's byte
  stream, the mock and the install scripts* are data or I/O without the kind of
  state a model checker adds anything to; `PROJECT.json` says so per component.

## 6. What could be added

1. `sendSMSBusiness` over the segments, composed with the promise of `SerialPort`,
   and the splitting of a message against a reference definition.
2. In `SMSInbox`, that nothing is deleted that the user did not see; today the page
   asks for the deletion of everything when all messages on display are selected.
3. The password file against crashes and two writers.
