---------------------------- MODULE PageRefresh ----------------------------
(***************************************************************************)
(* The single-page front end: switching pages (simpleadmin-spa.js) and the *)
(* two pages that refresh themselves while they are shown, the dashboard   *)
(* (pages/index.js) and the device information (pages/deviceinfo.js).      *)
(*                                                                         *)
(* Handlers run to completion on one thread; what interleaves is the       *)
(* user's clicks and history moves, the hashchange task the browser runs   *)
(* some time after a move, timers, and answers of calls made earlier.      *)
(* Showing a page runs the mount of that page and the listeners of the     *)
(* page-changed event in the same task, so the two pages are records and   *)
(* their methods are operators from record to record.                      *)
(***************************************************************************)
EXTENDS Naturals

CONSTANTS
  Pages,        \* the pages of the menu
  Rates,        \* refresh rates a user types in
  NotANumber,   \* what the form holds when no number was typed
  RetryLimit,   \* DEVICE_INFO_RETRY_LIMIT
  MaxActs,      \* bound: acts of the user
  MaxOut        \* bound: dashboard calls the interval adds to

ASSUME PagesAssumption == {"dashboard", "deviceinfo"} \subseteq Pages
ASSUME RatesAssumption == Rates \subseteq Nat /\ NotANumber \notin Nat
ASSUME BoundsAssumption == RetryLimit \in Nat /\ MaxActs \in Nat /\ MaxOut \in Nat

VARIABLES
  hash,         \* location.hash
  hashTasks,    \* hashchange events the browser has queued
  section,      \* the active section
  mountedPages,
  device,       \* the device information page
  dash,         \* the dashboard
  storedRate,   \* localStorage refreshRate as a number, 0 when there is none
  heard,        \* the dashboard's listener of beforeunload has run, and is gone
  halted,       \* history: it stopped the dashboard that is still shown
  acts

vars == <<hash, hashTasks, section, mountedPages, device, dash, storedRate, heard, halted, acts>>

-----------------------------------------------------------------------------
(* The device information page.  armed counts the timers that will fire,
   named tells whether _deviceInfoRetryTimer is one of them. *)

NewDevice == [active |-> FALSE, loading |-> FALSE, calls |-> 0,
              retries |-> 0, armed |-> 0, named |-> FALSE]

\* clearTimeout and clearInterval of the timer the variable names.
Cleared(p) == [p EXCEPT !.armed = IF p.named THEN @ - 1 ELSE @, !.named = FALSE]

stopDeviceInfoRefresh(d) == [Cleared(d) EXCEPT !.active = FALSE, !.retries = 0]

fetchATCommand(d, here) ==
  IF ~ (d.active /\ here) THEN stopDeviceInfoRefresh(d)
  ELSE IF d.loading THEN d
  ELSE [d EXCEPT !.loading = TRUE, !.calls = @ + 1]

startDeviceInfoRefresh(d, here) ==
  IF here THEN fetchATCommand([Cleared(d) EXCEPT !.active = TRUE], here) ELSE d

initDevice(d, here) == startDeviceInfoRefresh(Cleared(d), here)

\* The listener of page-changed.
deviceChanged(d, id) ==
  IF id = "deviceinfo" THEN startDeviceInfoRefresh(d, TRUE) ELSE stopDeviceInfoRefresh(d)

\* Mutant: the number of fast retries is not limited.
deviceAnsweredEager(d, outcome, here) ==
  IF outcome = "pending" /\ d.active /\ here
  THEN [Cleared(d) EXCEPT !.calls = @ - 1, !.loading = FALSE,
                          !.retries = @ + 1, !.armed = @ + 1, !.named = TRUE]
  ELSE stopDeviceInfoRefresh([d EXCEPT !.calls = @ - 1, !.loading = FALSE])

\* Mutant: a failed call leaves the flag set.
deviceAnsweredStuck(d, outcome, here) ==
  IF d.active /\ here
  THEN [Cleared(d) EXCEPT !.calls = @ - 1, !.loading = outcome = "failed",
                          !.armed = @ + 1, !.named = TRUE]
  ELSE stopDeviceInfoRefresh([d EXCEPT !.calls = @ - 1, !.loading = FALSE])

\* What follows the answer: "ready", "pending" (no IMEI yet) or "failed".
deviceAnswered(d, outcome, here) ==
  LET fast == outcome = "pending" /\ d.retries < RetryLimit
      done == [d EXCEPT !.calls = @ - 1, !.loading = FALSE,
                        !.retries = IF fast THEN @ + 1
                                    ELSE IF outcome = "failed" THEN @ ELSE 0]
  IN IF done.active /\ here
     THEN [Cleared(done) EXCEPT !.armed = @ + 1, !.named = TRUE]
     ELSE stopDeviceInfoRefresh(done)

Outcomes == {"ready", "pending", "failed"}

-----------------------------------------------------------------------------
(* The dashboard.  period is the period of the interval intervalId names. *)

NewDash == [active |-> FALSE, out |-> 0, rate |-> 2, armed |-> 0, named |-> FALSE, period |-> 0]

stopDashboardRefresh(b) == [Cleared(b) EXCEPT !.active = FALSE]

\* Mutant: the interval that runs is not cleared.
startIntervalAgain(b, here) ==
  IF b.active /\ here
  THEN [b EXCEPT !.armed = @ + 1, !.named = TRUE, !.period = b.rate]
  ELSE stopDashboardRefresh(b)

startInterval(b, here) ==
  LET c == Cleared(b)
  IN IF c.active /\ here
     THEN [c EXCEPT !.armed = @ + 1, !.named = TRUE, !.period = c.rate]
     ELSE stopDashboardRefresh(c)

\* tickOnce and fetchNetworkInfo: a call is made whether or not one is out.
tickOnce(b, here) ==
  IF b.active /\ here THEN [b EXCEPT !.out = @ + 1] ELSE stopDashboardRefresh(b)

startDashboardRefresh(b, here) ==
  IF ~ here THEN b
  ELSE LET on == [b EXCEPT !.active = TRUE]
       IN startInterval(IF b.active THEN on ELSE tickOnce(on, here), here)

initDash(b, rate, here) ==
  LET with == IF rate >= 2 THEN [b EXCEPT !.rate = rate] ELSE b
  IN startDashboardRefresh(with, here)

dashChanged(b, id) ==
  IF id = "dashboard" THEN startDashboardRefresh(b, TRUE) ELSE stopDashboardRefresh(b)

clampRate(typed, rate) ==
  IF typed = NotANumber THEN rate
  ELSE IF typed < 2 THEN 2 ELSE IF typed > 60 THEN 60 ELSE typed

-----------------------------------------------------------------------------
(* Switching pages. *)

normalizePage(value) == IF value \in Pages THEN value ELSE "dashboard"

\* showPage on pages that stand at (d, b): the section becomes the active one,
\* the page is mounted the first time, which runs its init, and every mounted
\* page hears page-changed.
deviceAfter(d, mounted, id) ==
  LET born == IF id = "deviceinfo" /\ id \notin mounted THEN initDevice(d, TRUE) ELSE d
  IN IF "deviceinfo" \in mounted \cup {id} THEN deviceChanged(born, id) ELSE born

dashAfter(b, mounted, id, rate) ==
  LET born == IF id = "dashboard" /\ id \notin mounted THEN initDash(b, rate, TRUE) ELSE b
  IN IF "dashboard" \in mounted \cup {id} THEN dashChanged(born, id) ELSE born

showPage(value) ==
  LET id == normalizePage(value)
  IN /\ section' = id
     /\ mountedPages' = mountedPages \cup {id}
     /\ device' = deviceAfter(device, mountedPages, id)
     /\ dash' = dashAfter(dash, mountedPages, id, storedRate)
     /\ halted' = FALSE /\ UNCHANGED heard

Act == acts < MaxActs /\ acts' = acts + 1

\* A click on a link of the menu; the address follows without an event.
ClickLink(id) ==
  /\ Act
  /\ showPage(id)
  /\ hash' = id
  /\ UNCHANGED <<hashTasks, storedRate>>

\* Back, forward or an edited address: popstate is handled with the move,
\* hashchange in a task of its own.
PopState(value) ==
  /\ Act
  /\ value # hash
  /\ hash' = value
  /\ hashTasks' = hashTasks + 1
  /\ showPage(value)
  /\ UNCHANGED storedRate

HashChange ==
  /\ hashTasks > 0
  /\ hashTasks' = hashTasks - 1
  /\ showPage(hash)
  /\ UNCHANGED <<hash, storedRate, acts>>

-----------------------------------------------------------------------------
\* A load of the document: everything but the address and localStorage is new.
Load(value) ==
  LET id == normalizePage(value)
  IN /\ hash' = value
     /\ hashTasks' = 0
     /\ section' = id
     /\ mountedPages' = {id}
     /\ device' = deviceAfter(NewDevice, {}, id)
     /\ dash' = dashAfter(NewDash, {}, id, storedRate)
     /\ halted' = FALSE /\ heard' = FALSE

Reload ==
  /\ Act
  /\ Load(hash)
  /\ UNCHANGED storedRate

\* The user leaves, which beforeunload announces, and stops the navigation: the
\* document stays, its dashboard does not refresh until it is shown anew.
LeaveCancelled ==
  /\ Act
  /\ "dashboard" \in mountedPages /\ ~ heard
  /\ heard' = TRUE
  /\ dash' = stopDashboardRefresh(dash)
  /\ halted' = (section = "dashboard")
  /\ UNCHANGED <<hash, hashTasks, section, mountedPages, device, storedRate>>

DeviceTimer ==
  /\ device.armed > 0
  /\ \E mine \in BOOLEAN :       \* the timer that fires is the one named
       /\ mine => device.named
       /\ ~ mine => device.armed > (IF device.named THEN 1 ELSE 0)
       /\ device' = fetchATCommand([device EXCEPT !.armed = @ - 1,
                                                  !.named = @ /\ ~ mine],
                                   section = "deviceinfo")
  /\ UNCHANGED <<hash, hashTasks, section, mountedPages, dash, storedRate, heard, halted, acts>>

DeviceAnswer(outcome) ==
  /\ device.calls > 0
  /\ device' = deviceAnswered(device, outcome, section = "deviceinfo")
  /\ UNCHANGED <<hash, hashTasks, section, mountedPages, dash, storedRate, heard, halted, acts>>

DashTick ==
  /\ dash.armed > 0
  /\ dash.out < MaxOut
  /\ dash' = tickOnce(dash, section = "dashboard")
  /\ UNCHANGED <<hash, hashTasks, section, mountedPages, device, storedRate, heard, halted, acts>>

\* An answer, or the failure of a call; the page applies it only while shown.
DashAnswer ==
  /\ dash.out > 0
  /\ dash' = [dash EXCEPT !.out = @ - 1]
  /\ UNCHANGED <<hash, hashTasks, section, mountedPages, device, storedRate, heard, halted, acts>>

\* The form is on the dashboard.
UpdateRefreshRate(typed) ==
  /\ Act
  /\ section = "dashboard"
  /\ LET rate == clampRate(typed, dash.rate)
         set == [dash EXCEPT !.rate = rate]
     IN /\ storedRate' = rate
        /\ dash' = IF dash.active THEN startInterval(set, TRUE) ELSE set
  /\ UNCHANGED <<hash, hashTasks, section, mountedPages, device, heard, halted>>

-----------------------------------------------------------------------------
Addresses == Pages \cup {"elsewhere"}

\* The first visit: nothing is stored, at any address.
Init ==
  /\ hash \in Addresses
  /\ hashTasks = 0
  /\ section = normalizePage(hash)
  /\ mountedPages = {section}
  /\ storedRate = 0
  /\ device = deviceAfter(NewDevice, {}, section)
  /\ dash = dashAfter(NewDash, {}, section, storedRate)
  /\ heard = FALSE /\ halted = FALSE
  /\ acts = 0

Next ==
  \/ \E id \in Pages : ClickLink(id)
  \/ \E value \in Addresses : PopState(value)
  \/ HashChange
  \/ Reload
  \/ LeaveCancelled
  \/ DeviceTimer
  \/ \E outcome \in Outcomes : DeviceAnswer(outcome)
  \/ DashTick
  \/ DashAnswer
  \/ \E typed \in Rates \cup {NotANumber} : UpdateRefreshRate(typed)

Spec == Init /\ [][Next]_vars

\* Timers fire and every call is answered or fails (the socket closes); the
\* browser runs the tasks it queued.  Nothing is assumed of the user.
Fairness ==
  /\ WF_vars(DeviceTimer)
  /\ WF_vars(\E outcome \in Outcomes : DeviceAnswer(outcome))
  /\ WF_vars(DashTick)
  /\ WF_vars(DashAnswer)
  /\ WF_vars(HashChange)

FairSpec == Spec /\ Fairness

-----------------------------------------------------------------------------
(* Properties. *)

Device == [active : BOOLEAN, loading : BOOLEAN, calls : Nat, retries : 0..RetryLimit,
           armed : Nat, named : BOOLEAN]
Dash == [active : BOOLEAN, out : Nat, rate : 2..60, armed : Nat, named : BOOLEAN,
         period : {0} \cup 2..60]

\* Types; the fast retries of the device page stay within their limit, and the
\* refresh rate within 2..60 seconds, whatever is typed and stored
\* (pages/deviceinfo.js:88, pages/index.js:339, :372).
TypeOK ==
  /\ hash \in Addresses
  /\ hashTasks \in Nat
  /\ section \in Pages
  /\ mountedPages \subseteq Pages
  /\ device \in Device
  /\ dash \in Dash
  /\ storedRate \in {0} \cup 2..60
  /\ heard \in BOOLEAN /\ halted \in BOOLEAN
  /\ acts \in 0..MaxActs

\* While the device page is shown exactly one thing keeps it going, a call
\* under way or a timer for the next one, however often the user leaves and
\* comes back while a call is out; while it is hidden no timer runs.
DeviceChain ==
  /\ section = "deviceinfo" => device.armed + device.calls = 1
  /\ section # "deviceinfo" => device.armed = 0 /\ device.calls <= 1

\* The dashboard's interval runs exactly while the dashboard is shown, never
\* twice, with the period the user set last, in this load or an earlier one;
\* only a navigation that was cancelled stops it under the user's eyes.
DashboardInterval ==
  /\ dash.armed = IF section = "dashboard" /\ ~ halted THEN 1 ELSE 0
  /\ dash.armed = 1 => dash.period = dash.rate
  /\ "dashboard" \in mountedPages /\ storedRate # 0 => dash.rate = storedRate

\* A page refreshes itself, once, exactly while it is the page shown
\* (pages/deviceinfo.js:48-130, pages/index.js:337-409, README.md:218).
RefreshWhileShown == DeviceChain /\ DashboardInterval

\* A page that stays shown keeps being refreshed, whatever the answers: the
\* device page after each answer or failure, the dashboard by its interval,
\* unless a cancelled navigation stopped that (pages/deviceinfo.js:95-110, pages/
\* index.js:389-409).
ShownIsRefreshed ==
  /\ <>[](section = "deviceinfo") =>
       []<><<\E outcome \in Outcomes : DeviceAnswer(outcome)>>_vars
  /\ <>[](section = "dashboard" /\ ~ halted) => []<><<DashTick>>_vars
=============================================================================
