------------------------- MODULE PageRefreshProofs -------------------------
(***************************************************************************)
(* TLAPS proofs about PageRefresh, for every set of pages, every limit and *)
(* any number of acts.  The inductive invariant says of each of the two    *)
(* pages what its record looks like while it is shown and while it is      *)
(* hidden; showing a page takes every record of the one kind or the other  *)
(* to one of the right kind, which is what the lemmas say of the methods.  *)
(***************************************************************************)
EXTENDS PageRefresh, TLAPS

\* The device page while it is shown (here) or hidden.
DeviceOK(d, here) ==
  /\ d \in Device
  /\ d.calls \in {0, 1} /\ (d.loading <=> d.calls = 1)
  /\ d.armed \in {0, 1} /\ (d.named <=> d.armed = 1)
  /\ d.active <=> here
  /\ here => d.armed + d.calls = 1
  /\ ~ here => d.armed = 0

\* The dashboard while it is shown or hidden.
DashOK(b, here) ==
  /\ b \in Dash
  /\ b.armed \in {0, 1} /\ (b.named <=> b.armed = 1)
  /\ b.active <=> here
  /\ b.armed = 1 <=> here
  /\ here => b.period = b.rate

\* A dashboard that was mounted uses the rate that is stored.
RateFits(b, mounted, rate) == "dashboard" \in mounted /\ rate # 0 => b.rate = rate

\* The dashboard is shown, and no cancelled navigation has stopped it since.
Going == section = "dashboard" /\ ~ halted

Inv ==
  /\ TypeOK
  /\ section \in mountedPages
  /\ DeviceOK(device, section = "deviceinfo")
  /\ DashOK(dash, Going)
  /\ RateFits(dash, mountedPages, storedRate)

-----------------------------------------------------------------------------
(* The methods of the device page. *)

LEMMA ClearedIs ==
  ASSUME NEW p, (IF p.named THEN p.armed - 1 ELSE p.armed) = 0
  PROVE  Cleared(p) = [p EXCEPT !.armed = 0, !.named = FALSE]
BY DEF Cleared

LEMMA Limits == 0 \in 0..RetryLimit /\ 0 \in Nat /\ 1 \in Nat
BY BoundsAssumption

LEMMA ClearedDevice ==
  ASSUME NEW d, NEW here \in BOOLEAN, DeviceOK(d, here)
  PROVE  Cleared(d) = [d EXCEPT !.armed = 0, !.named = FALSE]
<1>1. (IF d.named THEN d.armed - 1 ELSE d.armed) = 0
  BY DEF DeviceOK
<1> QED BY <1>1, ClearedIs

LEMMA StopDevice ==
  ASSUME NEW d, NEW here \in BOOLEAN, DeviceOK(d, here)
  PROVE  DeviceOK(stopDeviceInfoRefresh(d), FALSE)
<1> DEFINE e == stopDeviceInfoRefresh(d)
<1>1. e = [[d EXCEPT !.armed = 0, !.named = FALSE] EXCEPT !.active = FALSE, !.retries = 0]
  BY ClearedDevice DEF stopDeviceInfoRefresh
<1> HIDE DEF e
<1>2. e \in Device
  BY <1>1, Limits DEF DeviceOK, Device
<1>3. /\ e.calls = d.calls /\ e.loading = d.loading
      /\ e.armed = 0 /\ e.named = FALSE /\ e.active = FALSE
  BY <1>1 DEF DeviceOK, Device
<1>4. DeviceOK(e, FALSE)
  BY <1>2, <1>3 DEF DeviceOK
<1> QED BY <1>4 DEF e

\* A record that is active, with no timer.
Fetchable(d) ==
  /\ d \in Device /\ d.active /\ d.armed = 0 /\ ~ d.named
  /\ d.calls \in {0, 1} /\ (d.loading <=> d.calls = 1)

LEMMA FetchDevice ==
  ASSUME NEW d, Fetchable(d)
  PROVE  DeviceOK(fetchATCommand(d, TRUE), TRUE)
<1> DEFINE e == fetchATCommand(d, TRUE)
<1>1. CASE d.loading
  <2>1. e = d /\ d.calls = 1
    BY <1>1 DEF fetchATCommand, Fetchable
  <2>2. d.armed + d.calls = 1
    BY <2>1 DEF Fetchable
  <2>3. DeviceOK(d, TRUE)
    BY <1>1, <2>1, <2>2 DEF DeviceOK, Fetchable
  <2> QED BY <2>1, <2>3
<1>2. CASE ~ d.loading
  <2>1. d.calls + 1 = 1
    BY <1>2 DEF Fetchable
  <2>2. e = [d EXCEPT !.loading = TRUE, !.calls = 1]
    BY <1>2, <2>1 DEF fetchATCommand, Fetchable
  <2> HIDE DEF e
  <2>3. e \in Device
    BY <2>2, Limits DEF Fetchable, Device
  <2>4. e.active /\ e.armed = 0 /\ ~ e.named /\ e.calls = 1 /\ e.loading
    BY <2>2 DEF Fetchable, Device
  <2>5. DeviceOK(e, TRUE)
    BY <2>3, <2>4 DEF DeviceOK
  <2> QED BY <2>5 DEF e
<1> QED BY <1>1, <1>2

LEMMA StartDevice ==
  ASSUME NEW d, NEW here \in BOOLEAN, DeviceOK(d, here)
  PROVE  DeviceOK(startDeviceInfoRefresh(d, TRUE), TRUE)
<1> DEFINE c == [Cleared(d) EXCEPT !.active = TRUE]
<1>1. startDeviceInfoRefresh(d, TRUE) = fetchATCommand(c, TRUE)
  BY DEF startDeviceInfoRefresh
<1>2. c = [[d EXCEPT !.armed = 0, !.named = FALSE] EXCEPT !.active = TRUE]
  BY ClearedDevice
<1> HIDE DEF c
<1>3. c \in Device
  BY <1>2, Limits DEF DeviceOK, Device
<1>4. c.active /\ c.armed = 0 /\ ~ c.named /\ c.calls = d.calls /\ c.loading = d.loading
  BY <1>2 DEF DeviceOK, Device
<1>5. Fetchable(c)
  BY <1>3, <1>4 DEF DeviceOK, Fetchable
<1> QED BY <1>1, <1>5, FetchDevice

LEMMA FetchOnTimer ==
  ASSUME NEW d, DeviceOK(d, TRUE), d.armed = 1
  PROVE  DeviceOK(fetchATCommand([d EXCEPT !.armed = @ - 1, !.named = FALSE], TRUE), TRUE)
<1> DEFINE c == [d EXCEPT !.armed = @ - 1, !.named = FALSE]
<1>1. d.armed - 1 = 0
  OBVIOUS
<1>2. c = [d EXCEPT !.armed = 0, !.named = FALSE]
  BY <1>1
<1> HIDE DEF c
<1>3. c \in Device
  BY <1>2, Limits DEF DeviceOK, Device
<1>4. c.active /\ c.armed = 0 /\ ~ c.named /\ c.calls = d.calls /\ c.loading = d.loading
  BY <1>2 DEF DeviceOK, Device
<1>5. Fetchable(c)
  BY <1>3, <1>4 DEF DeviceOK, Fetchable
<1>6. DeviceOK(fetchATCommand(c, TRUE), TRUE)
  BY <1>5, FetchDevice
<1> QED BY <1>6 DEF c

LEMMA AnswerDevice ==
  ASSUME NEW d, NEW here \in BOOLEAN, DeviceOK(d, here), d.calls > 0, NEW outcome
  PROVE  DeviceOK(deviceAnswered(d, outcome, here), here)
<1> DEFINE fast == outcome = "pending" /\ d.retries < RetryLimit
           retries == IF fast THEN d.retries + 1
                      ELSE IF outcome = "failed" THEN d.retries ELSE 0
           done == [d EXCEPT !.calls = 0, !.loading = FALSE, !.retries = retries]
           e == deviceAnswered(d, outcome, here)
<1>1. retries \in 0..RetryLimit /\ d.calls - 1 = 0
  BY BoundsAssumption DEF DeviceOK, Device
<1>2. e = IF done.active /\ here
          THEN [Cleared(done) EXCEPT !.armed = @ + 1, !.named = TRUE]
          ELSE stopDeviceInfoRefresh(done)
  BY <1>1 DEF deviceAnswered
<1> HIDE DEF retries, e
<1>3. done \in Device
  BY <1>1, Limits DEF DeviceOK, Device
<1>4. /\ done.active = d.active /\ done.armed = d.armed /\ done.named = d.named
      /\ done.calls = 0 /\ done.loading = FALSE
  BY DEF DeviceOK, Device
<1> HIDE DEF done
<1>5. DeviceOK(done, FALSE) \/ here
  BY <1>3, <1>4 DEF DeviceOK
<1>6. CASE here
  <2>1. Cleared(done) = [done EXCEPT !.armed = 0, !.named = FALSE]
    <3>1. (IF done.named THEN done.armed - 1 ELSE done.armed) = 0
      BY <1>4 DEF DeviceOK
    <3> QED BY <3>1, ClearedIs
  <2>2. Cleared(done).armed + 1 = 1
    BY <1>3, <2>1 DEF Device
  <2>3. e = [[done EXCEPT !.armed = 0, !.named = FALSE] EXCEPT !.armed = 1, !.named = TRUE]
    BY <1>2, <1>4, <1>6, <2>1, <2>2 DEF DeviceOK
  <2>4. e \in Device
    BY <1>3, <2>3, Limits DEF Device
  <2>5. e.armed = 1 /\ e.named = TRUE /\ e.active = done.active
        /\ e.calls = 0 /\ e.loading = FALSE
    BY <1>3, <1>4, <2>3 DEF Device
  <2>6. DeviceOK(e, TRUE)
    BY <1>4, <1>6, <2>4, <2>5 DEF DeviceOK
  <2> QED BY <1>6, <2>6 DEF e
<1>7. CASE ~ here
  <2>1. DeviceOK(stopDeviceInfoRefresh(done), FALSE)
    BY <1>5, <1>7, StopDevice
  <2> QED BY <1>2, <1>7, <2>1 DEF e
<1> QED BY <1>6, <1>7

\* Showing a page, for the device page: mounted or not, shown before or not.
LEMMA DeviceAfter ==
  ASSUME NEW d, NEW here \in BOOLEAN, DeviceOK(d, here), NEW mounted, NEW id,
         here => "deviceinfo" \in mounted
  PROVE  DeviceOK(deviceAfter(d, mounted, id), id = "deviceinfo")
<1>1. CASE id = "deviceinfo"
  <2>1. PICK e : /\ DeviceOK(e, TRUE) \/ DeviceOK(e, here)
                 /\ deviceAfter(d, mounted, id) = startDeviceInfoRefresh(e, TRUE)
    <3>1. CASE "deviceinfo" \in mounted
      BY <1>1, <3>1 DEF deviceAfter, deviceChanged
    <3>2. CASE "deviceinfo" \notin mounted
      <4> DEFINE c == Cleared(d)
      <4>1. ~ here /\ c = [d EXCEPT !.armed = 0, !.named = FALSE]
        BY <3>2, ClearedDevice
      <4> HIDE DEF c
      <4>2. c \in Device
        BY <4>1, Limits DEF DeviceOK, Device
      <4>3. /\ c.armed = 0 /\ c.named = FALSE /\ c.active = d.active
            /\ c.calls = d.calls /\ c.loading = d.loading
        BY <4>1 DEF DeviceOK, Device
      <4>4. DeviceOK(c, FALSE)
        BY <4>1, <4>2, <4>3 DEF DeviceOK
      <4>5. DeviceOK(initDevice(d, TRUE), TRUE)
        BY <4>4, StartDevice DEF initDevice, c
      <4> QED BY <1>1, <3>2, <4>5 DEF deviceAfter, deviceChanged
    <3> QED BY <3>1, <3>2
  <2> QED BY <1>1, <2>1, StartDevice
<1>2. CASE id # "deviceinfo" /\ "deviceinfo" \in mounted
  <2>1. deviceAfter(d, mounted, id) = stopDeviceInfoRefresh(d)
    BY <1>2 DEF deviceAfter, deviceChanged
  <2> QED BY <1>2, <2>1, StopDevice
<1>3. CASE id # "deviceinfo" /\ "deviceinfo" \notin mounted
  BY <1>3 DEF deviceAfter
<1> QED BY <1>1, <1>2, <1>3

-----------------------------------------------------------------------------
(* The methods of the dashboard. *)

LEMMA StopDash ==
  ASSUME NEW b, NEW here \in BOOLEAN, DashOK(b, here)
  PROVE  /\ DashOK(stopDashboardRefresh(b), FALSE)
         /\ stopDashboardRefresh(b).rate = b.rate
<1> DEFINE e == stopDashboardRefresh(b)
<1>1. e = [[b EXCEPT !.armed = 0, !.named = FALSE] EXCEPT !.active = FALSE]
  <2>1. (IF b.named THEN b.armed - 1 ELSE b.armed) = 0
    BY DEF DashOK
  <2>2. Cleared(b) = [b EXCEPT !.armed = 0, !.named = FALSE]
    BY <2>1, ClearedIs
  <2> QED BY <2>2 DEF stopDashboardRefresh
<1> HIDE DEF e
<1>2. e \in Dash
  BY <1>1, Limits DEF DashOK, Dash
<1>3. e.armed = 0 /\ e.named = FALSE /\ e.active = FALSE /\ e.rate = b.rate
  BY <1>1 DEF DashOK, Dash
<1>4. DashOK(e, FALSE)
  BY <1>2, <1>3 DEF DashOK
<1> QED BY <1>3, <1>4 DEF e

\* An active record, whether its interval runs or not.
Startable(b) ==
  b \in Dash /\ b.active /\ b.armed \in {0, 1} /\ (b.named <=> b.armed = 1)

LEMMA StartsInterval ==
  ASSUME NEW b, Startable(b)
  PROVE  DashOK(startInterval(b, TRUE), TRUE) /\ startInterval(b, TRUE).rate = b.rate
<1> DEFINE c == [b EXCEPT !.armed = 0, !.named = FALSE]
           e == startInterval(b, TRUE)
<1>1. c \in Dash
  BY Limits DEF Startable, Dash
<1>2. c.active /\ c.armed + 1 = 1 /\ ~ c.named /\ c.rate = b.rate
  BY DEF Startable, Dash
<1>3. Cleared(b) = c
  <2>1. (IF b.named THEN b.armed - 1 ELSE b.armed) = 0
    BY DEF Startable
  <2> QED BY <2>1, ClearedIs
<1>4. e = IF c.active /\ TRUE
          THEN [c EXCEPT !.armed = @ + 1, !.named = TRUE, !.period = c.rate]
          ELSE stopDashboardRefresh(c)
  BY <1>3 DEF startInterval
<1> HIDE DEF c, e
<1>5. e = [c EXCEPT !.armed = 1, !.named = TRUE, !.period = c.rate]
  BY <1>2, <1>4
<1>6. e \in Dash
  BY <1>1, <1>5, Limits DEF Dash
<1>7. e.armed = 1 /\ e.named = TRUE /\ e.active = c.active /\ e.rate = c.rate /\ e.period = c.rate
  BY <1>1, <1>5 DEF Dash
<1>8. DashOK(e, TRUE)
  BY <1>2, <1>6, <1>7 DEF DashOK
<1> QED BY <1>2, <1>7, <1>8 DEF e

\* A tick only counts a call.
LEMMA Ticks ==
  ASSUME NEW b \in Dash, b.active
  PROVE  \E n \in Nat : tickOnce(b, TRUE) = [b EXCEPT !.out = n]
<1>1. b.out + 1 \in Nat
  BY DEF Dash
<1> QED BY <1>1 DEF tickOnce

LEMMA Counts ==
  ASSUME NEW b \in Dash, NEW n \in Nat, NEW e, e = [b EXCEPT !.out = n]
  PROVE  /\ e \in Dash /\ e.active = b.active /\ e.armed = b.armed /\ e.named = b.named
         /\ e.rate = b.rate /\ e.period = b.period
BY DEF Dash

LEMMA StartDash ==
  ASSUME NEW b, NEW here \in BOOLEAN, DashOK(b, here)
  PROVE  /\ DashOK(startDashboardRefresh(b, TRUE), TRUE)
         /\ startDashboardRefresh(b, TRUE).rate = b.rate
<1> DEFINE on == [b EXCEPT !.active = TRUE]
           ticked == tickOnce(on, TRUE)
<1>1. on \in Dash
  BY DEF DashOK, Dash
<1>2. on.active = TRUE /\ on.armed = b.armed /\ on.named = b.named /\ on.rate = b.rate
  BY DEF DashOK, Dash
<1>3. startDashboardRefresh(b, TRUE) = startInterval(IF b.active THEN on ELSE ticked, TRUE)
  BY DEF startDashboardRefresh
<1> HIDE DEF on
<1>4. PICK n \in Nat : ticked = [on EXCEPT !.out = n]
  BY <1>1, <1>2, Ticks
<1> HIDE DEF ticked
<1>5. /\ ticked \in Dash /\ ticked.active = on.active /\ ticked.armed = on.armed
      /\ ticked.named = on.named /\ ticked.rate = on.rate
  BY <1>1, <1>4, Counts
<1>6. Startable(on) /\ Startable(ticked)
  BY <1>1, <1>2, <1>5 DEF Startable, DashOK
<1> QED BY <1>2, <1>3, <1>5, <1>6, StartsInterval

LEMMA InitDash ==
  ASSUME NEW b, DashOK(b, FALSE), NEW rate \in {0} \cup 2..60
  PROVE  /\ DashOK(initDash(b, rate, TRUE), TRUE)
         /\ rate # 0 => initDash(b, rate, TRUE).rate = rate
<1> DEFINE with == IF rate >= 2 THEN [b EXCEPT !.rate = rate] ELSE b
<1>1. with \in Dash
  BY DEF DashOK, Dash
<1>2. /\ with.active = b.active /\ with.armed = b.armed /\ with.named = b.named
      /\ rate # 0 => with.rate = rate
  BY DEF DashOK, Dash
<1>3. initDash(b, rate, TRUE) = startDashboardRefresh(with, TRUE)
  BY DEF initDash
<1> HIDE DEF with
<1>4. DashOK(with, FALSE)
  BY <1>1, <1>2 DEF DashOK
<1> QED BY <1>2, <1>3, <1>4, StartDash

LEMMA DashAfter ==
  ASSUME NEW b, NEW here \in BOOLEAN, NEW mounted, NEW id, NEW rate \in {0} \cup 2..60,
         DashOK(b, here), here => "dashboard" \in mounted, RateFits(b, mounted, rate)
  PROVE  /\ DashOK(dashAfter(b, mounted, id, rate), id = "dashboard")
         /\ RateFits(dashAfter(b, mounted, id, rate), mounted \cup {id}, rate)
<1> USE DEF RateFits
<1>1. CASE id = "dashboard" /\ id \notin mounted
  <2>1. DashOK(initDash(b, rate, TRUE), TRUE)
        /\ (rate # 0 => initDash(b, rate, TRUE).rate = rate)
    BY <1>1, InitDash
  <2>2. dashAfter(b, mounted, id, rate) = startDashboardRefresh(initDash(b, rate, TRUE), TRUE)
    BY <1>1 DEF dashAfter, dashChanged
  <2> QED BY <1>1, <2>1, <2>2, StartDash
<1>2. CASE id = "dashboard" /\ id \in mounted
  <2>1. dashAfter(b, mounted, id, rate) = startDashboardRefresh(b, TRUE)
    BY <1>2 DEF dashAfter, dashChanged
  <2> QED BY <1>2, <2>1, StartDash
<1>3. CASE id # "dashboard" /\ "dashboard" \in mounted
  <2>1. dashAfter(b, mounted, id, rate) = stopDashboardRefresh(b)
    BY <1>3 DEF dashAfter, dashChanged
  <2> QED BY <1>3, <2>1, StopDash
<1>4. CASE id # "dashboard" /\ "dashboard" \notin mounted
  BY <1>4 DEF dashAfter
<1> QED BY <1>1, <1>2, <1>3, <1>4

-----------------------------------------------------------------------------
LEMMA NewPages == DeviceOK(NewDevice, FALSE) /\ DashOK(NewDash, FALSE)
BY BoundsAssumption DEF DeviceOK, Device, NewDevice, DashOK, Dash, NewDash

LEMMA Normalized ==
  ASSUME NEW value
  PROVE  normalizePage(value) \in Pages
BY PagesAssumption DEF normalizePage

LEMMA InitInv == Init => Inv
<1> SUFFICES ASSUME Init PROVE Inv
  OBVIOUS
<1>1. section \in Pages /\ mountedPages = {section} /\ storedRate = 0
  BY Normalized DEF Init
<1>2. DeviceOK(device, section = "deviceinfo")
  BY NewPages, DeviceAfter DEF Init
<1>3. DashOK(dash, section = "dashboard")
  <2>1. storedRate \in {0} \cup 2..60 /\ RateFits(NewDash, {}, storedRate)
    BY <1>1 DEF RateFits
  <2> QED BY <2>1, NewPages, DashAfter DEF Init
<1>4. heard \in BOOLEAN /\ halted \in BOOLEAN /\ ~ halted
  BY Zenon DEF Init
<1>5. TypeOK
  BY <1>1, <1>2, <1>3, <1>4, BoundsAssumption DEF TypeOK, Init, DeviceOK, DashOK
<1> QED BY <1>1, <1>2, <1>3, <1>4, <1>5 DEF Inv, RateFits, Going

\* Showing a page keeps what the invariant says of the pages.
LEMMA ShowInv ==
  ASSUME Inv, NEW value, showPage(value)
  PROVE  /\ section' \in Pages /\ mountedPages' \subseteq Pages /\ section' \in mountedPages'
         /\ DeviceOK(device', section' = "deviceinfo")
         /\ DashOK(dash', Going') /\ halted' \in BOOLEAN /\ heard' \in BOOLEAN
         /\ RateFits(dash', mountedPages', storedRate)
<1> DEFINE id == normalizePage(value)
<1>1. /\ id \in Pages /\ section' = id /\ mountedPages' = mountedPages \cup {id}
      /\ device' = deviceAfter(device, mountedPages, id)
      /\ dash' = dashAfter(dash, mountedPages, id, storedRate)
      /\ halted' = FALSE /\ heard' = heard
  BY Normalized DEF showPage
<1> HIDE DEF id
<1>2. DeviceOK(device', id = "deviceinfo")
  BY <1>1, DeviceAfter DEF Inv
<1>3. /\ DashOK(dash', id = "dashboard")
      /\ RateFits(dash', mountedPages \cup {id}, storedRate)
  <2> DEFINE here == Going
  <2>1. DashOK(dash, here) /\ storedRate \in {0} \cup 2..60 /\ here \in BOOLEAN
    BY DEF Inv, TypeOK, Going
  <2>2. here => "dashboard" \in mountedPages
    BY DEF Inv, Going
  <2>3. RateFits(dash, mountedPages, storedRate)
    BY DEF Inv
  <2> HIDE DEF here
  <2> QED BY <1>1, <2>1, <2>2, <2>3, DashAfter
<1>4. Going' <=> id = "dashboard"
  BY <1>1 DEF Going
<1>5. halted' \in BOOLEAN /\ heard' \in BOOLEAN
  BY <1>1, Zenon DEF Inv, TypeOK
<1> QED BY <1>1, <1>2, <1>3, <1>4, <1>5 DEF Inv, TypeOK, DashOK

LEMMA StepInv == Inv /\ [Next]_vars => Inv'
<1> SUFFICES ASSUME Inv, [Next]_vars PROVE Inv'
  OBVIOUS
<1> USE BoundsAssumption
<1>1. ASSUME NEW id \in Pages, ClickLink(id) PROVE Inv'
  <2>1. showPage(id) BY <1>1 DEF ClickLink
  <2> QED BY <1>1, <2>1, ShowInv DEF ClickLink, Act, Inv, TypeOK, Addresses, DeviceOK, DashOK
<1>2. ASSUME NEW value \in Addresses, PopState(value) PROVE Inv'
  <2>1. showPage(value) BY <1>2 DEF PopState
  <2> QED BY <1>2, <2>1, ShowInv DEF PopState, Act, Inv, TypeOK, DeviceOK, DashOK
<1>3. CASE HashChange
  <2>1. showPage(hash) BY <1>3 DEF HashChange
  <2> QED BY <1>3, <2>1, ShowInv DEF HashChange, Inv, TypeOK, DeviceOK, DashOK
<1>4. CASE Reload
  <2> DEFINE id == normalizePage(hash)
  <2>1. /\ id \in Pages /\ section' = id /\ mountedPages' = {id} /\ hash' = hash /\ hashTasks' = 0
        /\ device' = deviceAfter(NewDevice, {}, id)
        /\ dash' = dashAfter(NewDash, {}, id, storedRate)
        /\ storedRate' = storedRate /\ acts' \in 0..MaxActs
        /\ heard' = FALSE /\ halted' = FALSE
    BY <1>4, Normalized DEF Reload, Load, Act, Inv, TypeOK
  <2> HIDE DEF id
  <2>2. DeviceOK(device', id = "deviceinfo")
    BY <2>1, NewPages, DeviceAfter
  <2>3. DashOK(dash', id = "dashboard") /\ RateFits(dash', {} \cup {id}, storedRate)
    <3>1. storedRate \in {0} \cup 2..60 /\ RateFits(NewDash, {}, storedRate)
      BY DEF Inv, TypeOK, RateFits
    <3> QED BY <2>1, <3>1, NewPages, DashAfter
  <2>4. RateFits(dash', {id}, storedRate)
    BY <2>3 DEF RateFits
  <2> QED BY <2>1, <2>2, <2>3, <2>4 DEF Inv, TypeOK, DeviceOK, DashOK, Going
<1>5. CASE DeviceTimer
  <2>1. section = "deviceinfo" /\ device.armed = 1 /\ device.named
    BY <1>5 DEF DeviceTimer, Inv, DeviceOK
  <2>2. device' = fetchATCommand([device EXCEPT !.armed = @ - 1, !.named = FALSE], TRUE)
    <3>1. PICK mine \in BOOLEAN :
            /\ mine => device.named
            /\ ~ mine => device.armed > (IF device.named THEN 1 ELSE 0)
            /\ device' = fetchATCommand([device EXCEPT !.armed = @ - 1,
                                                       !.named = @ /\ ~ mine],
                                        section = "deviceinfo")
      BY <1>5 DEF DeviceTimer
    <3>2. mine
      BY <2>1, <3>1
    <3> QED BY <2>1, <3>1, <3>2
  <2>3. DeviceOK(device', TRUE)
    BY <2>1, <2>2, FetchOnTimer DEF Inv
  <2> QED BY <1>5, <2>1, <2>3 DEF DeviceTimer, Inv, TypeOK, DeviceOK, Going
<1>6. ASSUME NEW outcome \in Outcomes, DeviceAnswer(outcome) PROVE Inv'
  <2>1. DeviceOK(device', section = "deviceinfo")
    BY <1>6, AnswerDevice DEF DeviceAnswer, Inv
  <2> QED BY <1>6, <2>1 DEF DeviceAnswer, Inv, TypeOK, DeviceOK, Going
<1>7. CASE DashTick
  <2>1. section = "dashboard" /\ Going
    BY <1>7 DEF DashTick, Inv, DashOK, Going, Dash
  <2>2. DashOK(dash', TRUE) /\ dash'.rate = dash.rate
    <3>1. PICK n \in Nat : dash' = [dash EXCEPT !.out = n]
      BY <1>7, <2>1, Ticks DEF DashTick, Inv, DashOK
    <3>2. /\ dash' \in Dash /\ dash'.active = dash.active /\ dash'.armed = dash.armed
          /\ dash'.named = dash.named /\ dash'.rate = dash.rate /\ dash'.period = dash.period
      BY <3>1, Counts DEF Inv, DashOK
    <3> QED BY <2>1, <3>2 DEF Inv, DashOK
  <2> QED BY <1>7, <2>1, <2>2 DEF DashTick, Inv, TypeOK, DashOK, RateFits, Going
<1>8. CASE DashAnswer
  <2>1. dash.out - 1 \in Nat
    BY <1>8 DEF DashAnswer, Inv, DashOK, Dash
  <2>2. DashOK(dash', Going) /\ dash'.rate = dash.rate
    <3>1. /\ dash' \in Dash /\ dash'.active = dash.active /\ dash'.armed = dash.armed
          /\ dash'.named = dash.named /\ dash'.rate = dash.rate /\ dash'.period = dash.period
      BY <1>8, <2>1, Counts DEF DashAnswer, Inv, DashOK
    <3> QED BY <3>1 DEF Inv, DashOK
  <2> QED BY <1>8, <2>2 DEF DashAnswer, Inv, TypeOK, DashOK, RateFits, Going
<1>9. ASSUME NEW typed \in Rates \cup {NotANumber}, UpdateRefreshRate(typed) PROVE Inv'
  <2> DEFINE rate == clampRate(typed, dash.rate)
             set == [dash EXCEPT !.rate = rate]
  <2>1. /\ section = "dashboard" /\ storedRate' = rate
        /\ dash' = IF dash.active THEN startInterval(set, TRUE) ELSE set
    BY <1>9 DEF UpdateRefreshRate
  <2>2. rate \in 2..60
    BY RatesAssumption DEF Inv, TypeOK, Dash, clampRate
  <2> HIDE DEF rate
  <2>3. /\ set \in Dash /\ set.active = dash.active /\ set.armed = dash.armed
        /\ set.named = dash.named /\ set.rate = rate
    BY <2>2 DEF Inv, DashOK, Dash
  <2> HIDE DEF set
  <2>4. DashOK(dash', Going) /\ dash'.rate = rate
    <3>1. CASE Going
      <4>1. Startable(set) /\ dash.active
        BY <2>3, <3>1 DEF Startable, Inv, DashOK
      <4> QED BY <2>1, <2>3, <3>1, <4>1, StartsInterval
    <3>2. CASE ~ Going
      <4>1. ~ dash.active /\ dash.armed = 0
        BY <3>2 DEF Inv, DashOK
      <4> QED BY <2>1, <2>3, <3>2, <4>1 DEF Inv, DashOK
    <3> QED BY <3>1, <3>2
  <2>5. /\ acts' \in 0..MaxActs
        /\ UNCHANGED <<hash, hashTasks, section, mountedPages, device, heard, halted>>
    BY <1>9 DEF UpdateRefreshRate, Act, Inv, TypeOK
  <2> QED BY <2>1, <2>2, <2>4, <2>5 DEF Inv, TypeOK, DashOK, RateFits, Going
<1>10. CASE UNCHANGED vars
  BY <1>10 DEF vars, Inv, TypeOK, Going
<1>11. CASE LeaveCancelled
  <2>1. heard' \in BOOLEAN /\ halted' \in BOOLEAN
    BY <1>11, Zenon DEF LeaveCancelled
  <2>2. /\ acts' \in 0..MaxActs
        /\ dash' = stopDashboardRefresh(dash)
        /\ UNCHANGED <<hash, hashTasks, section, mountedPages, device, storedRate>>
    BY <1>11 DEF LeaveCancelled, Act, Inv, TypeOK
  <2>3. ~ Going'
    BY <1>11, Zenon DEF LeaveCancelled, Going
  <2>4. DashOK(dash', FALSE) /\ dash'.rate = dash.rate
    BY <2>2, StopDash DEF Inv, Going
  <2> QED BY <2>1, <2>2, <2>3, <2>4 DEF Inv, TypeOK, DashOK, RateFits
<1> QED
  BY <1>1, <1>2, <1>3, <1>4, <1>5, <1>6, <1>7, <1>8, <1>9, <1>10, <1>11 DEF Next

\* Types: the retries of the device page and the dashboard's refresh rate stay
\* within their limits (pages/deviceinfo.js:88, pages/index.js:339).
THEOREM TypeCorrect == Spec => []TypeOK
<1>1. Inv => TypeOK BY DEF Inv
<1> QED BY <1>1, InitInv, StepInv, PTL DEF Spec

\* Whatever the order of clicks, history moves, reloads, timers and answers, the
\* page shown has one chain of refreshes, and a hidden page has no timer
\* (pages/deviceinfo.js:48-130, pages/index.js:337-409).
THEOREM RefreshWhileShownCorrect == Spec => []RefreshWhileShown
<1>1. Inv => RefreshWhileShown
  BY DEF Inv, DeviceOK, DashOK, RateFits, RefreshWhileShown, DeviceChain, DashboardInterval, Going
<1> QED BY <1>1, InitInv, StepInv, PTL DEF Spec
=============================================================================
