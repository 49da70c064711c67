-------------------------- MODULE SettingsPageProofs --------------------------
(***************************************************************************)
(* Theorems about SettingsPage: the types of its variables, that no timer  *)
(* of the page is lost and none runs twice, and that the page shows what   *)
(* is stored.                                                              *)
(*                                                                         *)
(* A timer is cleared by counting it down, so that the count stays a       *)
(* number because a timer that is named runs; the countdown of a reboot    *)
(* and the timer of a LAN change are independent and have an invariant     *)
(* each.  What the page shows has an invariant each for the DMZ mode, the  *)
(* language and the IMEI.  All of them are about the calls of one action   *)
(* among those under way, which a step appends to, takes the first of, or  *)
(* leaves in their order.                                                  *)
(***************************************************************************)
EXTENDS SettingsPage, SequenceTheorems, TLAPS

-----------------------------------------------------------------------------
(* The countdown. *)

BootOK ==
  /\ isRebooting \in BOOLEAN /\ isRebooted \in BOOLEAN
  /\ named \in BOOLEAN /\ raced \in BOOLEAN
  /\ showModal \in BOOLEAN /\ showImeiModal \in BOOLEAN
  /\ countdown \in 0..Seconds /\ ticking \in Nat /\ settling \in Nat

\* CountdownRight is inductive with this: a countdown that did not begin while
\* a timer of an earlier one was armed has none armed.
BootInv ==
  /\ BootOK /\ CountdownRight
  /\ isRebooting /\ ~ raced => settling = 0

LEMMA Restarts == ASSUME BootInv, startRebootCountdown PROVE BootInv'
<1>1. ticking' = 1 /\ settling' = settling /\ settling \in Nat
  BY DEF BootInv, BootOK, CountdownRight, startRebootCountdown, ClearedTicks
<1>2. /\ isRebooting' = TRUE /\ isRebooted' = FALSE /\ named' = TRUE
      /\ showModal' = FALSE /\ showImeiModal' = FALSE /\ raced' = (settling > 0)
  BY DEF startRebootCountdown
<1>3. countdown' \in 0..Seconds
  BY BoundsAssumption DEF startRebootCountdown
<1>4. raced' \in BOOLEAN /\ (~ raced' => settling' = 0)
  <2>1. raced' \in BOOLEAN
    <3>1. (settling > 0) \in BOOLEAN OBVIOUS
    <3>2. QED BY <1>2, <3>1, Zenon
  <2>2. ASSUME ~ raced' PROVE settling' = 0
    <3>1. ~ settling > 0 BY <1>2, <2>2, Zenon
    <3>2. QED BY <1>1, <3>1
  <2>3. QED BY <2>1, <2>2
<1>5. BootOK' BY <1>1, <1>2, <1>3, <1>4 DEF BootOK
<1>6. CountdownRight' BY <1>1, <1>2 DEF CountdownRight
<1>7. QED BY <1>4, <1>5, <1>6 DEF BootInv

LEMMA BootInit == Init => BootInv
<1> SUFFICES ASSUME Init PROVE BootInv OBVIOUS
<1>1. /\ ticking = 0 /\ settling = 0 /\ countdown = 0
      /\ isRebooting = FALSE /\ isRebooted = TRUE /\ named = FALSE /\ raced = FALSE
      /\ showModal = FALSE /\ showImeiModal = FALSE
  BY DEF Init
<1>2. countdown \in 0..Seconds BY <1>1, BoundsAssumption
<1>3. BootOK BY <1>1, <1>2 DEF BootOK
<1>4. CountdownRight BY <1>1 DEF CountdownRight
<1>5. QED BY <1>1, <1>3, <1>4 DEF BootInv

LEMMA TickStep == ASSUME BootInv, Tick PROVE BootInv'
<1>1. /\ ticking = 1 /\ isRebooting /\ named
      /\ countdown \in 0..Seconds /\ settling \in Nat
  BY DEF Tick, BootInv, BootOK, CountdownRight
<1>2. countdown' \in 0..Seconds
  BY <1>1, BoundsAssumption DEF Tick
<1>3. UNCHANGED <<isRebooted, showModal, showImeiModal>>
  BY DEF Tick
<1>4. CASE countdown <= 1
  <2>1. /\ ticking' = 0 /\ settling' = settling + 1
        /\ named' = FALSE /\ isRebooting' = FALSE /\ raced' = FALSE
    BY <1>1, <1>4 DEF Tick, ClearedTicks
  <2>2. settling' \in Nat /\ settling' > 0 BY <1>1, <2>1
  <2>3. BootOK' BY <1>2, <1>3, <2>1, <2>2 DEF BootInv, BootOK
  <2>4. CountdownRight' BY <2>1, <2>2 DEF CountdownRight
  <2>5. QED BY <2>1, <2>3, <2>4 DEF BootInv
<1>5. CASE ~ countdown <= 1
  <2>1. UNCHANGED <<ticking, named, isRebooting, raced, settling>>
    BY <1>5 DEF Tick
  <2>2. QED BY <1>2, <1>3, <2>1 DEF BootInv, BootOK, CountdownRight
<1>6. QED BY <1>4, <1>5

\* The actions by what they do to the countdown and the dialogs.
LEMMA BootStep == ASSUME BootInv, [Next]_vars PROVE BootInv'
<1>1. CASE UNCHANGED boot
  BY <1>1 DEF boot, BootInv, BootOK, CountdownRight
<1>2. CASE Tick
  BY <1>2, TickStep
<1>3. CASE Settled
  BY <1>3 DEF Settled, BootInv, BootOK, CountdownRight
<1>4. CASE rebootDevice \/ updateIMEI \/ ipPassThroughDisable \/ passthroughAnswered
  <2>1. startRebootCountdown
    BY <1>4 DEF rebootDevice, updateIMEI, ipPassThroughDisable, passthroughAnswered
  <2>2. QED BY <2>1, Restarts
<1>5. CASE closeModal \/ openRebootModal \/ openImeiModal \/ closeImeiModal \/ usbnetAnswered
  <2>1. /\ showModal' \in BOOLEAN /\ showImeiModal' \in BOOLEAN
        /\ UNCHANGED <<isRebooting, isRebooted, countdown, ticking, named, settling, raced>>
    BY <1>5 DEF closeModal, openRebootModal, openImeiModal, closeImeiModal, usbnetAnswered,
                BootInv, BootOK
  <2>2. QED BY <2>1 DEF BootInv, BootOK, CountdownRight
<1>6. CASE Break
  <2>1. startRebootCountdown \/ UNCHANGED boot
    BY <1>6 DEF Break
  <2>2. QED BY <2>1, <1>1, Restarts
<1>7. CASE ServiceStep /\ ~ usbnetAnswered /\ ~ passthroughAnswered
  <2>1. UNCHANGED boot
    BY <1>7 DEF ServiceStep, statusAnswered, languageLoaded, languageSaved, loadingAnswered,
                dmzAnswered, lanipAnswered, dnsAnswered, otherAnswered
  <2>2. QED BY <2>1, <1>1
<1>8. CASE \/ \E value \in IMEIs \cup {"", BadImei} : TypeImei(value)
           \/ sendATCommand \/ setTTL
           \/ \E action \in {"dns_proxy", "usbnet", "passthrough_on"} : callOnly(action)
           \/ setDMZ
           \/ \E complete \in BOOLEAN : setLANIP(complete)
           \/ \E chosen \in Languages : saveLanguageSetting(chosen)
           \/ lanSuccessOver
  <2>1. UNCHANGED boot
    BY <1>8 DEF TypeImei, sendATCommand, setTTL, startLoading, callOnly, setDMZ, setLANIP,
                saveLanguageSetting, lanSuccessOver
  <2>2. QED BY <2>1, <1>1
<1>9. CASE UNCHANGED vars \/ LateExecute
  <2>1. UNCHANGED boot BY <1>9 DEF vars, LateExecute
  <2>2. QED BY <2>1, <1>1
<1>10. QED
  BY <1>2, <1>3, <1>4, <1>5, <1>6, <1>7, <1>8, <1>9 DEF Next, UserStep

-----------------------------------------------------------------------------
(* The calls. *)

CallsOK == calls \in Seq(Requests)

LEMMA PlainRequest ==
  ASSUME NEW action \in Actions \ {"set_imei", "set_language", "dmz"}
  PROVE  Plain(action) \in Requests /\ Plain(action).action = action
  BY DEF Plain, Call, Requests, Values

LEMMA OneIsSequence == ASSUME NEW c \in Requests PROVE <<c>> \in Seq(Requests)
  OBVIOUS

\* What is asked by the start of the page.
LEMMA InitCallsTyped ==
  /\ InitCalls \in Seq(Requests)
  /\ \A i \in DOMAIN InitCalls : InitCalls[i].action \in {"get_language", "status", "get_ttl"}
<1>1. /\ Plain("get_language") \in Requests /\ Plain("get_language").action = "get_language"
      /\ Plain("status") \in Requests /\ Plain("status").action = "status"
      /\ Plain("get_ttl") \in Requests /\ Plain("get_ttl").action = "get_ttl"
  BY PlainRequest DEF Actions
<1>2. QED
  BY <1>1 DEF InitCalls

LEMMA ConcatTyped ==
  ASSUME NEW q \in Seq(Requests), NEW cs \in Seq(Requests) PROVE q \o cs \in Seq(Requests)
  BY ConcatProperties

LEMMA TailTyped ==
  ASSUME NEW q \in Seq(Requests), q # <<>>
  PROVE  Tail(q) \in Seq(Requests) /\ Head(q) \in Requests
  BY HeadTailProperties

\* The actions the invariants follow, and who issues their calls.
Followed == {"lanip", "dmz", "set_language", "set_imei"}

Issues(a) ==
  \/ a = "lanip" /\ \E complete \in BOOLEAN : setLANIP(complete)
  \/ a = "dmz" /\ setDMZ
  \/ a = "set_language" /\ \E chosen \in Languages : saveLanguageSetting(chosen)
  \/ a = "set_imei" /\ updateIMEI

None(q, a) == \A i \in DOMAIN q : q[i].action # a

\* What another step makes of the calls: some are appended, none of them of
\* the action.
Appends(q, a) == \E cs \in Seq(Requests) : None(cs, a) /\ calls' = q \o cs

LEMMA AppendsOne ==
  ASSUME NEW q, NEW a, NEW c \in Requests, c.action # a, calls' = q \o <<c>>
  PROVE  Appends(q, a)
<1>1. <<c>> \in Seq(Requests) BY OneIsSequence
<1>2. None(<<c>>, a) BY DEF None
<1>3. QED BY <1>1, <1>2 DEF Appends

LEMMA AppendsNone == ASSUME NEW q \in Seq(Requests), calls' = q \o <<>> PROVE calls' = q
  BY EmptySeq, ConcatEmptySeq

\* What the requests are made of.
DataOK ==
  /\ isLoading \in BOOLEAN /\ doubt \in BOOLEAN /\ langDoubt \in BOOLEAN /\ imeiDoubt \in BOOLEAN
  /\ imei \in IMEIs \cup {NoImei} /\ newImei \in Values /\ typed \in Values
  /\ dmzMode \in {"0", "1"}
  /\ language \in Languages /\ currentLanguage \in Languages /\ serverLanguage \in Languages
  /\ modem \in [imei : IMEIs, dmz : {"0", "1"}]
  /\ late \subseteq Requests
  /\ acts \in 0..MaxActs /\ breaks \in 0..MaxBreaks

Grown(a) ==
  \/ calls' = calls
  \/ UNCHANGED service /\ (calls' = calls \/ Appends(calls, a))
  \/ ServiceStep /\ calls # <<>> /\ (calls' = Tail(calls) \/ Appends(Tail(calls), a))

LEMMA OtherSteps ==
  ASSUME CallsOK, DataOK, [Next]_vars, NEW a \in Followed, ~ Issues(a), ~ Break
  PROVE  Grown(a)
<1> USE DEF Issue
<1>1. CASE UNCHANGED vars \/ LateExecute
  BY <1>1 DEF vars, LateExecute, Grown
<1>2. CASE Tick \/ lanSuccessOver \/ closeModal \/ openImeiModal \/ closeImeiModal
           \/ \E value \in IMEIs \cup {"", BadImei} : TypeImei(value)
  BY <1>2 DEF Tick, lanSuccessOver, closeModal, openImeiModal, closeImeiModal, TypeImei, Grown, service
<1>3. CASE Settled
  <2>1. UNCHANGED service /\ calls' = calls \o InitCalls BY <1>3 DEF Settled
  <2>2. None(InitCalls, a) BY InitCallsTyped DEF None, Followed
  <2>3. QED BY <2>1, <2>2, InitCallsTyped DEF Grown, Appends
<1>4. CASE rebootDevice
  <2>1. UNCHANGED service /\ calls' = calls \o <<Plain("reboot")>> BY <1>4 DEF rebootDevice
  <2>2. QED BY <2>1, PlainRequest, AppendsOne DEF Grown, Actions, Followed
<1>5. CASE openRebootModal
  <2>1. UNCHANGED service /\ calls' \in {calls, calls \o <<Plain("reset_at")>>}
    BY <1>5 DEF openRebootModal
  <2>2. QED BY <2>1, PlainRequest, AppendsOne DEF Grown, Actions, Followed
<1>6. CASE updateIMEI
  <2>1. UNCHANGED service /\ calls' = calls \o <<Call("set_imei", newImei)>>
    BY <1>6 DEF updateIMEI
  <2>2. Call("set_imei", newImei) \in Requests /\ Call("set_imei", newImei).action = "set_imei"
    BY DEF DataOK, Call, Requests, Actions
  <2>3. a # "set_imei" BY <1>6 DEF Issues
  <2>4. QED BY <2>1, <2>2, <2>3, AppendsOne DEF Grown
<1>7. CASE sendATCommand \/ setTTL
  <2>1. PICK action \in {"manual_at", "set_ttl"} :
          UNCHANGED service /\ calls' = calls \o <<Plain(action)>>
    BY <1>7 DEF sendATCommand, setTTL, startLoading
  <2>2. QED BY <2>1, PlainRequest, AppendsOne DEF Grown, Actions, Followed
<1>8. CASE ipPassThroughDisable
  <2>1. UNCHANGED service /\ calls' = calls \o <<Plain("passthrough_off")>>
    BY <1>8 DEF ipPassThroughDisable
  <2>2. QED BY <2>1, PlainRequest, AppendsOne DEF Grown, Actions, Followed
<1>9. CASE \E action \in {"dns_proxy", "usbnet", "passthrough_on"} : callOnly(action)
  <2>1. PICK action \in {"dns_proxy", "usbnet", "passthrough_on"} :
          UNCHANGED service /\ calls' = calls \o <<Plain(action)>>
    BY <1>9 DEF callOnly
  <2>2. QED BY <2>1, PlainRequest, AppendsOne DEF Grown, Actions, Followed
<1>10. CASE setDMZ
  <2>1. PICK mode \in {"0", "1"} : UNCHANGED service /\ calls' = calls \o <<Call("dmz", mode)>>
    BY <1>10 DEF setDMZ
  <2>2. Call("dmz", mode) \in Requests /\ Call("dmz", mode).action = "dmz"
    BY DEF Call, Requests, Actions
  <2>3. a # "dmz" BY <1>10 DEF Issues
  <2>4. QED BY <2>1, <2>2, <2>3, AppendsOne DEF Grown
<1>11. CASE \E chosen \in Languages : saveLanguageSetting(chosen)
  <2>1. PICK chosen \in Languages :
          UNCHANGED service /\ calls' = calls \o <<Call("set_language", chosen)>>
    BY <1>11 DEF saveLanguageSetting
  <2>2. /\ Call("set_language", chosen) \in Requests
        /\ Call("set_language", chosen).action = "set_language"
    BY DEF Call, Requests, Actions
  <2>3. a # "set_language" BY <1>11 DEF Issues
  <2>4. QED BY <2>1, <2>2, <2>3, AppendsOne DEF Grown
<1>12. CASE \E complete \in BOOLEAN : setLANIP(complete)
  <2>1. UNCHANGED service /\ calls' \in {calls \o <<>>, calls \o <<Plain("lanip")>>}
    BY <1>12 DEF setLANIP
  <2>2. a # "lanip" BY <1>12 DEF Issues
  <2>3. CASE calls' = calls \o <<>> BY <2>1, <2>3, AppendsNone DEF Grown, CallsOK
  <2>4. CASE calls' = calls \o <<Plain("lanip")>>
    BY <2>1, <2>2, <2>4, PlainRequest, AppendsOne DEF Grown, Actions
  <2>5. QED BY <2>1, <2>3, <2>4
<1>13. CASE \/ \E read \in Readings : statusAnswered(read)
            \/ \E accepted \in BOOLEAN : languageLoaded(accepted)
            \/ \E accepted \in BOOLEAN : languageSaved(accepted)
            \/ \E accepted \in BOOLEAN : dmzAnswered(accepted)
            \/ \E accepted \in BOOLEAN : lanipAnswered(accepted)
            \/ usbnetAnswered \/ passthroughAnswered \/ otherAnswered
  <2>1. ServiceStep BY <1>13 DEF ServiceStep
  <2>2. calls # <<>> /\ calls' = Tail(calls)
    BY <1>13 DEF statusAnswered, languageLoaded, languageSaved, dmzAnswered, lanipAnswered,
                 usbnetAnswered, passthroughAnswered, otherAnswered, Answered, Answer
  <2>3. QED BY <2>1, <2>2 DEF Grown
<1>14. CASE \/ dnsAnswered
            \/ \E action \in LoadingActions, accepted \in BOOLEAN : loadingAnswered(action, accepted)
  <2>1. PICK c \in {Plain("status"), Plain("get_ttl")} :
          /\ calls # <<>>
          /\ calls' \in {Tail(calls) \o <<>>, Tail(calls) \o <<c>>}
    BY <1>14 DEF dnsAnswered, loadingAnswered, Answered
  <2>2. Tail(calls) \in Seq(Requests) BY <2>1, TailTyped DEF CallsOK
  <2>3. c \in Requests /\ c.action # a BY PlainRequest DEF Actions, Followed
  <2>4. ServiceStep BY <1>14 DEF ServiceStep
  <2>5. CASE calls' = Tail(calls) \o <<>> BY <2>1, <2>2, <2>4, <2>5, AppendsNone DEF Grown
  <2>6. CASE calls' = Tail(calls) \o <<c>> BY <2>1, <2>3, <2>4, <2>6, AppendsOne DEF Grown
  <2>7. QED BY <2>1, <2>5, <2>6
<1>15. QED
  BY <1>1, <1>2, <1>3, <1>4, <1>5, <1>6, <1>7, <1>8, <1>9, <1>10, <1>11, <1>12, <1>13, <1>14
     DEF Next, ServiceStep, UserStep

LEMMA CallsStep == ASSUME CallsOK, DataOK, [Next]_vars PROVE CallsOK'
<1>1. CASE Break BY <1>1, EmptySeq DEF Break, CallsOK
<1>2. ASSUME NEW a \in Followed, Grown(a) PROVE CallsOK'
  <2>1. calls # <<>> => Tail(calls) \in Seq(Requests) BY TailTyped DEF CallsOK
  <2>2. QED BY <1>2, <2>1, ConcatTyped DEF Grown, Appends, CallsOK
<1>3. ~ Issues("lanip") \/ ~ Issues("dmz")
  BY DEF Issues, setLANIP, setDMZ, dmz, DataOK
<1>4. QED BY <1>1, <1>2, <1>3, OtherSteps DEF Followed

-----------------------------------------------------------------------------
(* The change of the LAN addresses. *)

LanOK ==
  /\ isSavingLANIP \in BOOLEAN /\ lanIpSaveSuccess \in BOOLEAN /\ lanNamed \in BOOLEAN
  /\ lanTimers \in Nat

\* One change is out at most, and only while the page says so.
OneLan(q, saving, success) ==
  \A i \in DOMAIN q : q[i].action = "lanip" =>
     /\ saving /\ ~ success
     /\ \A j \in DOMAIN q : q[j].action = "lanip" => i = j

\* LanSuccessTimed is inductive with OneLan: an answer comes when the success of
\* the change before it has been taken away.
LanInv ==
  /\ LanOK /\ LanSuccessTimed
  /\ OneLan(calls, isSavingLANIP, lanIpSaveSuccess)

\* Where the calls of a longer and of a shorter sequence stand.
LEMMA ConcatFacts ==
  ASSUME NEW q \in Seq(Requests), NEW cs \in Seq(Requests)
  PROVE  /\ \A i \in DOMAIN q : i \in Nat /\ i \in DOMAIN (q \o cs) /\ (q \o cs)[i] = q[i]
         /\ \A i \in DOMAIN (q \o cs) : i \notin DOMAIN q =>
              /\ i \in Nat /\ \A j \in DOMAIN q : j < i
              /\ \E k \in DOMAIN cs : i = Len(q) + k /\ (q \o cs)[i] = cs[k]
<1>1. /\ DOMAIN q = 1..Len(q) /\ DOMAIN cs = 1..Len(cs)
      /\ Len(q) \in Nat /\ Len(cs) \in Nat
  BY LenProperties
<1>2. /\ DOMAIN (q \o cs) = 1..(Len(q) + Len(cs))
      /\ \A i \in 1..(Len(q) + Len(cs)) :
           (q \o cs)[i] = IF i <= Len(q) THEN q[i] ELSE cs[i - Len(q)]
  BY ConcatProperties, LenProperties
<1>3. ASSUME NEW i \in DOMAIN (q \o cs), i \notin DOMAIN q
      PROVE  /\ i \in Nat /\ \A j \in DOMAIN q : j < i
             /\ \E k \in DOMAIN cs : i = Len(q) + k /\ (q \o cs)[i] = cs[k]
  <2>1. i - Len(q) \in DOMAIN cs /\ (q \o cs)[i] = cs[i - Len(q)] BY <1>1, <1>2, <1>3
  <2>2. QED BY <1>1, <1>2, <1>3, <2>1
<1>4. QED BY <1>1, <1>2, <1>3

LEMMA ConcatNoLan ==
  ASSUME NEW q \in Seq(Requests), NEW cs \in Seq(Requests), None(cs, "lanip"),
         NEW saving, NEW success, OneLan(q, saving, success)
  PROVE  OneLan(q \o cs, saving, success)
<1>1. \A i \in DOMAIN (q \o cs) :
        (q \o cs)[i].action = "lanip" => i \in DOMAIN q /\ (q \o cs)[i] = q[i]
  BY ConcatFacts DEF None
<1>2. QED BY <1>1 DEF OneLan

LEMMA TailFacts ==
  ASSUME NEW q \in Seq(Requests), q # <<>>
  PROVE  \A i \in DOMAIN Tail(q) : /\ i + 1 \in DOMAIN q /\ i \in Nat \ {0}
                                   /\ Tail(q)[i] = q[i + 1]
<1>1. /\ Len(q) \in Nat \ {0} /\ DOMAIN q = 1..Len(q)
  BY LenProperties, EmptySeq
<1>2. /\ Tail(q) \in Seq(Requests) /\ Len(Tail(q)) = Len(q) - 1
      /\ \A i \in 1..Len(Tail(q)) : Tail(q)[i] = q[i + 1]
  BY HeadTailProperties
<1>3. DOMAIN Tail(q) = 1..Len(Tail(q)) BY <1>2, LenProperties
<1>4. QED BY <1>1, <1>2, <1>3

LEMMA TailOneLan ==
  ASSUME NEW q \in Seq(Requests), q # <<>>,
         NEW saving, NEW success, OneLan(q, saving, success)
  PROVE  OneLan(Tail(q), saving, success)
<1> SUFFICES ASSUME NEW i \in DOMAIN Tail(q), Tail(q)[i].action = "lanip"
             PROVE  /\ saving /\ ~ success
                    /\ \A j \in DOMAIN Tail(q) : Tail(q)[j].action = "lanip" => i = j
  BY DEF OneLan
<1>1. i + 1 \in DOMAIN q /\ q[i + 1].action = "lanip" /\ i \in Nat BY TailFacts
<1>2. saving /\ ~ success BY <1>1 DEF OneLan
<1>3. ASSUME NEW j \in DOMAIN Tail(q), Tail(q)[j].action = "lanip" PROVE i = j
  <2>1. j + 1 \in DOMAIN q /\ q[j + 1].action = "lanip" /\ j \in Nat BY <1>3, TailFacts
  <2>2. i + 1 = j + 1 BY <1>1, <2>1 DEF OneLan
  <2>3. QED BY <1>1, <2>1, <2>2
<1>4. QED BY <1>2, <1>3

\* The answer of a change takes the only one away.
LEMMA TailNoLan ==
  ASSUME NEW q \in Seq(Requests), q # <<>>, Head(q).action = "lanip",
         NEW saving, NEW success, OneLan(q, saving, success)
  PROVE  None(Tail(q), "lanip")
<1> SUFFICES ASSUME NEW i \in DOMAIN Tail(q), Tail(q)[i].action = "lanip" PROVE FALSE
  BY DEF None
<1>1. i + 1 \in DOMAIN q /\ q[i + 1].action = "lanip" /\ i \in Nat \ {0} BY TailFacts
<1>2. 1 \in DOMAIN q /\ q[1].action = "lanip"
  <2>1. Len(q) \in Nat \ {0} /\ DOMAIN q = 1..Len(q) BY LenProperties, EmptySeq
  <2>2. Head(q) = q[1] OBVIOUS
  <2>3. QED BY <2>1, <2>2
<1>3. i + 1 = 1 BY <1>1, <1>2 DEF OneLan
<1>4. QED BY <1>1, <1>3

LEMMA NoLanIsOneLan == ASSUME NEW q, None(q, "lanip"), NEW saving, NEW success PROVE OneLan(q, saving, success)
  BY DEF None, OneLan

\* The timer of a success, by its two cases.
LEMMA LanTimer ==
  ASSUME isSavingLANIP \in BOOLEAN,
         \/ lanTimers = 0 /\ lanNamed = FALSE /\ lanIpSaveSuccess = FALSE
         \/ lanTimers = 1 /\ lanNamed = TRUE /\ lanIpSaveSuccess = TRUE
  PROVE  LanOK /\ LanSuccessTimed
<1>1. CASE lanTimers = 0 /\ lanNamed = FALSE /\ lanIpSaveSuccess = FALSE
  BY <1>1 DEF LanOK, LanSuccessTimed
<1>2. CASE lanTimers = 1 /\ lanNamed = TRUE /\ lanIpSaveSuccess = TRUE
  BY <1>2 DEF LanOK, LanSuccessTimed
<1>3. QED BY <1>1, <1>2

LEMMA LanTimerCases ==
  ASSUME LanOK, LanSuccessTimed
  PROVE  \/ lanTimers = 0 /\ lanNamed = FALSE /\ lanIpSaveSuccess = FALSE
         \/ lanTimers = 1 /\ lanNamed = TRUE /\ lanIpSaveSuccess = TRUE
  BY DEF LanOK, LanSuccessTimed

LEMMA LanInit == Init => LanInv
<1> SUFFICES ASSUME Init PROVE LanInv OBVIOUS
<1>1. LanOK /\ LanSuccessTimed BY LanTimer DEF Init
<1>2. None(calls, "lanip") BY InitCallsTyped DEF Init, None
<1>3. QED BY <1>1, <1>2, NoLanIsOneLan DEF LanInv

\* The steps of a LAN change, and a break.
LanSteps ==
  \/ \E complete \in BOOLEAN : setLANIP(complete)
  \/ \E accepted \in BOOLEAN : lanipAnswered(accepted)
  \/ lanSuccessOver
  \/ Break

LEMMA LanLeft == ASSUME [Next]_vars, ~ LanSteps PROVE UNCHANGED lan
<1>1. CASE ServiceStep
  BY <1>1 DEF ServiceStep, LanSteps, statusAnswered, languageLoaded, languageSaved, loadingAnswered,
              dmzAnswered, dnsAnswered, usbnetAnswered, passthroughAnswered, otherAnswered
<1>2. CASE UserStep
  BY <1>2 DEF UserStep, LanSteps, rebootDevice, closeModal, openRebootModal, TypeImei,
              openImeiModal, updateIMEI, closeImeiModal, sendATCommand, setTTL, startLoading,
              ipPassThroughDisable, callOnly, setDMZ, saveLanguageSetting
<1>3. CASE Tick \/ Settled \/ LateExecute \/ UNCHANGED vars
  BY <1>3 DEF Tick, Settled, LateExecute, vars
<1>4. QED BY <1>1, <1>2, <1>3 DEF Next, LanSteps

LEMMA LanStep == ASSUME LanInv, CallsOK, DataOK, [Next]_vars PROVE LanInv'
<1>1. CASE ~ LanSteps
  <2>1. UNCHANGED lan /\ Grown("lanip")
    BY <1>1, LanLeft, OtherSteps DEF LanSteps, Issues, Followed
  <2>2. LanOK' /\ LanSuccessTimed' BY <2>1 DEF lan, LanInv, LanOK, LanSuccessTimed
  <2>3. OneLan(calls', isSavingLANIP, lanIpSaveSuccess)
    <3>1. CASE calls' = calls BY <3>1 DEF LanInv
    <3>2. CASE Appends(calls, "lanip")
      BY <3>2, ConcatNoLan DEF Appends, None, LanInv, CallsOK
    <3>3. CASE calls # <<>> /\ calls' = Tail(calls)
      BY <3>3, TailOneLan DEF LanInv, CallsOK
    <3>4. CASE calls # <<>> /\ Appends(Tail(calls), "lanip")
      <4>1. Tail(calls) \in Seq(Requests) BY <3>4, TailTyped DEF CallsOK
      <4>2. OneLan(Tail(calls), isSavingLANIP, lanIpSaveSuccess)
        BY <3>4, TailOneLan DEF LanInv, CallsOK
      <4>3. QED BY <3>4, <4>1, <4>2, ConcatNoLan DEF Appends, None
    <3>5. QED BY <2>1, <3>1, <3>2, <3>3, <3>4 DEF Grown
  <2>4. QED BY <2>1, <2>2, <2>3 DEF lan, LanInv
<1>2. ASSUME NEW complete \in BOOLEAN, setLANIP(complete) PROVE LanInv'
  <2>1. LanOK' /\ LanSuccessTimed' /\ lanIpSaveSuccess' = FALSE
    <3>1. /\ isSavingLANIP' \in BOOLEAN /\ lanNamed' = FALSE /\ lanIpSaveSuccess' = FALSE
          /\ lanTimers' = (IF lanNamed THEN lanTimers - 1 ELSE lanTimers)
      BY <1>2 DEF setLANIP
    <3>2. \/ lanTimers = 0 /\ lanNamed = FALSE
          \/ lanTimers = 1 /\ lanNamed = TRUE
      BY LanTimerCases DEF LanInv
    <3>3. lanTimers' = 0
      <4>1. CASE lanTimers = 0 /\ lanNamed = FALSE BY <3>1, <4>1
      <4>2. CASE lanTimers = 1 /\ lanNamed = TRUE BY <3>1, <4>2
      <4>3. QED BY <3>2, <4>1, <4>2
    <3>4. /\ isSavingLANIP' \in BOOLEAN /\ lanIpSaveSuccess' = FALSE
          /\ lanNamed' = FALSE /\ lanTimers' = 0
      BY <3>1, <3>3
    <3>5. QED BY <3>4 DEF LanOK, LanSuccessTimed
  <2>2. None(calls, "lanip") BY <1>2 DEF setLANIP, LanInv, OneLan, None
  <2>3. CASE ~ complete
    <3>1. calls' = calls BY <1>2, <2>3, AppendsNone DEF setLANIP, Issue, CallsOK
    <3>2. QED BY <2>1, <2>2, <3>1, NoLanIsOneLan DEF LanInv
  <2>4. CASE complete
    <3>1. calls' = calls \o <<Plain("lanip")>> /\ isSavingLANIP'
      BY <1>2, <2>4 DEF setLANIP, Issue
    <3>2. /\ Len(calls) \in Nat /\ DOMAIN calls = 1..Len(calls)
          /\ DOMAIN calls' = 1..(Len(calls) + 1)
          /\ \A i \in DOMAIN calls' : i <= Len(calls) => calls'[i] = calls[i]
      <4>1. Plain("lanip") \in Requests BY PlainRequest DEF Actions
      <4>2. <<Plain("lanip")>> \in Seq(Requests) /\ Len(<<Plain("lanip")>>) = 1
        BY <4>1, OneIsSequence
      <4>3. QED BY <3>1, <4>2, ConcatProperties, LenProperties DEF CallsOK
    <3>3. \A i \in DOMAIN calls' : calls'[i].action = "lanip" => i = Len(calls) + 1
      BY <2>2, <3>2 DEF None
    <3>4. OneLan(calls', isSavingLANIP', lanIpSaveSuccess')
      BY <2>1, <3>1, <3>3 DEF OneLan
    <3>5. QED BY <2>1, <3>4 DEF LanInv
  <2>5. QED BY <2>3, <2>4
<1>3. ASSUME NEW accepted \in BOOLEAN, lanipAnswered(accepted) PROVE LanInv'
  <2>1. calls # <<>> /\ Head(calls).action = "lanip" /\ calls' = Tail(calls)
    BY <1>3 DEF lanipAnswered, Answered, Answer
  <2>2. None(calls', "lanip") BY <2>1, TailNoLan DEF LanInv, CallsOK
  <2>3. ~ lanIpSaveSuccess
    <3>1. 1 \in DOMAIN calls /\ Head(calls) = calls[1]
      BY <2>1, LenProperties, EmptySeq DEF CallsOK
    <3>2. QED BY <2>1, <3>1 DEF LanInv, OneLan
  <2>4. LanOK' /\ LanSuccessTimed'
    <3>1. isSavingLANIP' = FALSE BY <1>3 DEF lanipAnswered
    <3>2. lanTimers = 0 /\ lanNamed = FALSE /\ lanIpSaveSuccess = FALSE
      BY <2>3, LanTimerCases DEF LanInv
    <3>3. CASE accepted
      <4>1. lanTimers' = 1 /\ lanNamed' = TRUE /\ lanIpSaveSuccess' = TRUE
        BY <1>3, <3>2, <3>3 DEF lanipAnswered
      <4>2. QED BY <3>1, <4>1 DEF LanOK, LanSuccessTimed
    <3>4. CASE ~ accepted
      <4>1. lanTimers' = 0 /\ lanNamed' = FALSE /\ lanIpSaveSuccess' = FALSE
        BY <1>3, <3>2, <3>4 DEF lanipAnswered
      <4>2. QED BY <3>1, <4>1 DEF LanOK, LanSuccessTimed
    <3>5. QED BY <3>3, <3>4
  <2>5. QED BY <2>2, <2>4, NoLanIsOneLan DEF LanInv
<1>4. CASE lanSuccessOver
  <2>1. LanOK' /\ LanSuccessTimed'
    <3>1. /\ lanNamed' = FALSE /\ lanIpSaveSuccess' = FALSE
          /\ lanTimers > 0 /\ lanTimers' = lanTimers - 1
          /\ isSavingLANIP' = isSavingLANIP /\ isSavingLANIP \in BOOLEAN
      BY <1>4 DEF lanSuccessOver, LanInv, LanOK
    <3>2. \/ lanTimers = 0 /\ lanNamed = FALSE
          \/ lanTimers = 1 /\ lanNamed = TRUE
      BY LanTimerCases DEF LanInv
    <3>3. lanTimers' = 0
      <4>1. CASE lanTimers = 0 /\ lanNamed = FALSE BY <3>1, <4>1
      <4>2. CASE lanTimers = 1 /\ lanNamed = TRUE BY <3>1, <4>2
      <4>3. QED BY <3>2, <4>1, <4>2
    <3>4. /\ isSavingLANIP' \in BOOLEAN /\ lanIpSaveSuccess' = FALSE
          /\ lanNamed' = FALSE /\ lanTimers' = 0
      BY <3>1, <3>3
    <3>5. QED BY <3>4 DEF LanOK, LanSuccessTimed
  <2>2. OneLan(calls, isSavingLANIP, FALSE) BY DEF LanInv, OneLan
  <2>3. QED BY <1>4, <2>1, <2>2 DEF lanSuccessOver, LanInv
<1>5. CASE Break
  <2>1. LanOK' /\ LanSuccessTimed' /\ calls' = <<>>
    BY <1>5 DEF Break, LanInv, LanOK, LanSuccessTimed
  <2>2. None(<<>>, "lanip") BY DEF None
  <2>3. QED BY <2>1, <2>2, NoLanIsOneLan DEF LanInv
<1>6. QED BY <1>1, <1>2, <1>3, <1>4, <1>5 DEF LanSteps

-----------------------------------------------------------------------------
(* The data. *)

LEMMA DataInit == Init => DataOK
<1> SUFFICES ASSUME Init PROVE DataOK OBVIOUS
<1>1. acts \in 0..MaxActs /\ breaks \in 0..MaxBreaks
  <2>1. acts = 0 /\ breaks = 0 BY DEF Init
  <2>2. MaxActs \in Nat /\ MaxBreaks \in Nat BY BoundsAssumption
  <2>3. QED BY <2>1, <2>2
<1>2. /\ isLoading \in BOOLEAN /\ doubt \in BOOLEAN /\ langDoubt \in BOOLEAN
      /\ dmzMode \in {"0", "1"} /\ modem \in [imei : IMEIs, dmz : {"0", "1"}]
      /\ language \in Languages /\ currentLanguage \in Languages /\ serverLanguage \in Languages
  BY FirstAssumption DEF Init
<1>3. /\ imei \in IMEIs \cup {NoImei} /\ newImei \in Values /\ typed \in Values
      /\ imeiDoubt \in BOOLEAN /\ late \subseteq Requests
  BY DEF Init, Values
<1>4. QED BY <1>1, <1>2, <1>3 DEF DataOK

\* What the modem and the service make of a request keeps the types.
LEMMA ExecutedTyped ==
  ASSUME DataOK, NEW c \in Requests, Executed(c)
  PROVE  /\ modem' \in [imei : IMEIs, dmz : {"0", "1"}]
         /\ serverLanguage' \in Languages
<1>1. serverLanguage' \in Languages BY DEF Executed, Requests, DataOK
<1>2. CASE c.action = "set_imei" /\ c.arg \in IMEIs
  <2>1. modem' = [modem EXCEPT !.imei = c.arg] BY <1>2 DEF Executed
  <2>2. QED BY <1>1, <1>2, <2>1 DEF DataOK
<1>3. CASE c.action = "dmz"
  <2>1. modem' = [modem EXCEPT !.dmz = c.arg] BY <1>3 DEF Executed
  <2>2. c.arg \in {"0", "1"} BY <1>3 DEF Requests
  <2>3. QED BY <1>1, <2>1, <2>2 DEF DataOK
<1>4. CASE ~ (c.action = "set_imei" /\ c.arg \in IMEIs) /\ c.action # "dmz"
  <2>1. modem' = modem BY <1>4 DEF Executed
  <2>2. QED BY <1>1, <2>1 DEF DataOK
<1>5. QED BY <1>2, <1>3, <1>4

\* Who changes a setting: an answer, by its call, or a request executed late.
LEMMA ServiceSteps ==
  ASSUME [Next]_vars
  PROVE  \/ UNCHANGED <<modem, serverLanguage>>
         \/ ServiceStep /\ calls # <<>> /\ Executed(Head(calls))
         \/ \E c \in late : Executed(c)
<1>1. CASE ServiceStep
  <2>1. \E action, accepted : Answered(action, accepted)
    BY <1>1 DEF ServiceStep, statusAnswered, languageLoaded, languageSaved, loadingAnswered,
                dmzAnswered, lanipAnswered, dnsAnswered, usbnetAnswered, passthroughAnswered,
                otherAnswered
  <2>2. QED BY <1>1, <2>1 DEF Answered
<1>2. CASE UserStep
  BY <1>2 DEF UserStep, rebootDevice, closeModal, openRebootModal, TypeImei, openImeiModal,
              updateIMEI, closeImeiModal, sendATCommand, setTTL, startLoading,
              ipPassThroughDisable, callOnly, setDMZ, setLANIP, saveLanguageSetting, service
<1>3. CASE Tick \/ Settled \/ lanSuccessOver \/ UNCHANGED vars
  BY <1>3 DEF Tick, Settled, lanSuccessOver, vars, service
<1>4. CASE Break BY <1>4 DEF Break
<1>5. CASE LateExecute BY <1>5 DEF LateExecute
<1>6. QED BY <1>1, <1>2, <1>3, <1>4, <1>5 DEF Next

\* What may be executed late is what a broken connection carried.
LEMMA LateSteps ==
  ASSUME [Next]_vars
  PROVE  late' \subseteq late \/ (Break /\ late' = late \cup Storing)
<1>1. CASE ServiceStep
  <2>1. \E action, accepted : Answered(action, accepted)
    BY <1>1 DEF ServiceStep, statusAnswered, languageLoaded, languageSaved, loadingAnswered,
                dmzAnswered, lanipAnswered, dnsAnswered, usbnetAnswered, passthroughAnswered,
                otherAnswered
  <2>2. QED BY <2>1 DEF Answered
<1>2. CASE UserStep
  BY <1>2 DEF UserStep, rebootDevice, closeModal, openRebootModal, TypeImei, openImeiModal,
              updateIMEI, closeImeiModal, sendATCommand, setTTL, startLoading,
              ipPassThroughDisable, callOnly, setDMZ, setLANIP, saveLanguageSetting, service
<1>3. CASE Tick \/ Settled \/ lanSuccessOver \/ UNCHANGED vars
  BY <1>3 DEF Tick, Settled, lanSuccessOver, vars, service
<1>4. CASE Break BY <1>4 DEF Break
<1>5. CASE LateExecute BY <1>5 DEF LateExecute
<1>6. QED BY <1>1, <1>2, <1>3, <1>4, <1>5 DEF Next

LEMMA LateGrows ==
  ASSUME [Next]_vars, NEW a, HasLate(a)'
  PROVE  HasLate(a) \/ (Break /\ Has(a))
  BY LateSteps DEF HasLate, Has, Storing

LEMMA ServiceTyped ==
  ASSUME CallsOK, DataOK, [Next]_vars
  PROVE  /\ modem' \in [imei : IMEIs, dmz : {"0", "1"}]
         /\ serverLanguage' \in Languages
         /\ late' \subseteq Requests
<1>1. \A i \in DOMAIN calls : calls[i] \in Requests BY ElementOfSeq, LenProperties DEF CallsOK
<1>2. late' \subseteq Requests BY <1>1, LateSteps DEF Storing, DataOK
<1>3. CASE UNCHANGED <<modem, serverLanguage>> BY <1>2, <1>3 DEF DataOK
<1>4. CASE calls # <<>> /\ Executed(Head(calls))
  BY <1>2, <1>4, TailTyped, ExecutedTyped DEF CallsOK
<1>5. CASE \E c \in late : Executed(c) BY <1>2, <1>5, ExecutedTyped DEF DataOK
<1>6. QED BY <1>3, <1>4, <1>5, ServiceSteps

\* What the page keeps of it.
PageOK ==
  /\ isLoading \in BOOLEAN /\ doubt \in BOOLEAN /\ langDoubt \in BOOLEAN /\ imeiDoubt \in BOOLEAN
  /\ imei \in IMEIs \cup {NoImei} /\ newImei \in Values /\ typed \in Values
  /\ dmzMode \in {"0", "1"}
  /\ language \in Languages /\ currentLanguage \in Languages
  /\ acts \in 0..MaxActs /\ breaks \in 0..MaxBreaks

Page == <<isLoading, imeis, dmz, lang, acts, breaks>>

LEMMA HasBoolean == ASSUME NEW action PROVE Has(action) \in BOOLEAN
  BY DEF Has

LEMMA OutdatedBoolean == ImeiOutdated \in BOOLEAN
  BY DEF ImeiOutdated, Has, HasLate

LEMMA ActTyped == ASSUME DataOK, Act PROVE acts' \in 0..MaxActs
  BY BoundsAssumption DEF Act, DataOK

\* An answer, by what it does to the page's own data.
LEMMA AnswerTyped == ASSUME CallsOK, DataOK, ServiceStep PROVE PageOK'
<1>1. PageOK /\ modem.imei \in IMEIs /\ serverLanguage \in Languages
  BY DEF DataOK, PageOK
<1>2. ASSUME NEW read \in Readings, statusAnswered(read) PROVE PageOK'
  <2>1. read.imei \in IMEIs \cup {NoImei} BY DEF Readings
  <2>2. /\ imei' \in {imei, read.imei}
        /\ newImei' \in {newImei} \cup IMEIs
        /\ dmzMode' \in {"0", "1"} /\ doubt' \in BOOLEAN
        /\ imeiDoubt' = (imeiDoubt \/ read.imei \notin {NoImei, modem.imei})
        /\ UNCHANGED <<isLoading, typed, language, currentLanguage, langDoubt, acts, breaks>>
    BY <1>2, <2>1 DEF statusAnswered, Answered, resolveDmzMode, lang
  <2>3. imeiDoubt' \in BOOLEAN BY <1>1, <2>2 DEF PageOK
  <2>4. QED BY <1>1, <2>1, <2>2, <2>3 DEF PageOK, Values
<1>3. ASSUME NEW accepted \in BOOLEAN, languageLoaded(accepted) PROVE PageOK'
  <2>1. /\ language' \in Languages /\ currentLanguage' \in Languages
        /\ UNCHANGED <<isLoading, imeis, dmz, acts, breaks>>
    BY <1>1, <1>3 DEF languageLoaded, Answered, PageOK
  <2>2. langDoubt' = (langDoubt /\ (accepted => Has("set_language") \/ HasLate("set_language")))
    BY <1>3 DEF languageLoaded
  <2>3. langDoubt' \in BOOLEAN
    <3>1. langDoubt' \in {langDoubt, FALSE} BY <1>1, <2>2 DEF PageOK
    <3>2. QED BY <1>1, <3>1 DEF PageOK
  <2>4. QED BY <1>1, <2>1, <2>3 DEF PageOK, imeis, dmz
<1>4. ASSUME NEW accepted \in BOOLEAN, languageSaved(accepted) PROVE PageOK'
  <2>1. /\ calls # <<>> /\ Head(calls).action = "set_language"
        /\ language' = Head(calls).arg /\ langDoubt' = (langDoubt \/ ~ accepted)
        /\ UNCHANGED <<isLoading, imeis, dmz, currentLanguage, acts, breaks>>
    BY <1>4 DEF languageSaved, Answered
  <2>2. language' \in Languages BY <2>1, TailTyped DEF CallsOK, Requests
  <2>3. langDoubt' \in BOOLEAN BY <1>1, <2>1 DEF PageOK
  <2>4. QED BY <1>1, <2>1, <2>2, <2>3 DEF PageOK, imeis, dmz
<1>5. ASSUME NEW accepted \in BOOLEAN, dmzAnswered(accepted) PROVE PageOK'
  <2>1. /\ doubt' = (doubt \/ ~ accepted)
        /\ UNCHANGED <<isLoading, imeis, dmzMode, lang, acts, breaks>>
    BY <1>5 DEF dmzAnswered, Answered
  <2>2. doubt' \in BOOLEAN BY <1>1, <2>1 DEF PageOK
  <2>3. QED BY <1>1, <2>1, <2>2 DEF PageOK, imeis, lang
<1>6. CASE \/ \E action \in LoadingActions, accepted \in BOOLEAN : loadingAnswered(action, accepted)
           \/ \E accepted \in BOOLEAN : lanipAnswered(accepted)
           \/ dnsAnswered \/ usbnetAnswered \/ passthroughAnswered \/ otherAnswered
  <2>1. /\ isLoading' \in {isLoading, FALSE}
        /\ UNCHANGED <<imeis, dmz, lang, acts, breaks>>
    BY <1>6 DEF loadingAnswered, lanipAnswered, dnsAnswered, usbnetAnswered,
                passthroughAnswered, otherAnswered, Answered
  <2>2. QED BY <1>1, <2>1 DEF PageOK, imeis, dmz, lang
<1>7. QED BY <1>2, <1>3, <1>4, <1>5, <1>6 DEF ServiceStep

LEMMA UserTyped == ASSUME DataOK, UserStep PROVE PageOK'
<1>1. PageOK BY DEF DataOK, PageOK
<1>2. acts' \in 0..MaxActs /\ breaks' = breaks
  <2>1. Act /\ breaks' = breaks
    BY DEF UserStep, Clickable, rebootDevice, closeModal, openRebootModal, TypeImei,
           openImeiModal, updateIMEI, closeImeiModal, sendATCommand, setTTL, startLoading,
           ipPassThroughDisable, callOnly, setDMZ, setLANIP, saveLanguageSetting
  <2>2. QED BY <2>1, ActTyped
<1>3. CASE \/ rebootDevice \/ closeModal \/ openRebootModal \/ updateIMEI \/ closeImeiModal
           \/ sendATCommand \/ setTTL \/ ipPassThroughDisable
           \/ \E action \in {"dns_proxy", "usbnet", "passthrough_on"} : callOnly(action)
           \/ \E complete \in BOOLEAN : setLANIP(complete)
  <2>1. isLoading' \in {isLoading, TRUE} /\ UNCHANGED <<imeis, dmz, lang>>
    BY <1>3 DEF rebootDevice, closeModal, openRebootModal, updateIMEI,
                closeImeiModal, sendATCommand, setTTL, startLoading, ipPassThroughDisable,
                callOnly, setLANIP
  <2>2. QED BY <1>1, <1>2, <2>1 DEF PageOK, imeis, dmz, lang
<1>4. CASE openImeiModal \/ \E value \in IMEIs \cup {"", BadImei} : TypeImei(value)
  <2>1. /\ newImei' \in Values /\ typed' \in Values
        /\ UNCHANGED <<isLoading, imei, dmz, lang>>
    BY <1>1, <1>4 DEF openImeiModal, TypeImei, Values, PageOK
  <2>2. imeiDoubt' = ImeiOutdated BY <1>4 DEF openImeiModal, TypeImei
  <2>3. imeiDoubt' \in BOOLEAN BY <2>2, OutdatedBoolean
  <2>4. QED BY <1>1, <1>2, <2>1, <2>3 DEF PageOK, dmz, lang
<1>5. CASE setDMZ
  <2>1. /\ dmzMode' \in {"0", "1"} /\ doubt' = (doubt \/ Has("status"))
        /\ UNCHANGED <<isLoading, imeis, lang>>
    BY <1>5 DEF setDMZ
  <2>2. doubt' \in BOOLEAN BY <1>1, <2>1, HasBoolean DEF PageOK
  <2>3. QED BY <1>1, <1>2, <2>1, <2>2 DEF PageOK, imeis, lang
<1>6. CASE \E chosen \in Languages : saveLanguageSetting(chosen)
  <2>1. /\ language' \in Languages /\ currentLanguage' \in Languages
        /\ langDoubt' = (langDoubt \/ Has("get_language"))
        /\ UNCHANGED <<isLoading, imeis, dmz>>
    BY <1>6 DEF saveLanguageSetting
  <2>2. langDoubt' \in BOOLEAN BY <1>1, <2>1, HasBoolean DEF PageOK
  <2>3. QED BY <1>1, <1>2, <2>1, <2>2 DEF PageOK, imeis, dmz
<1>7. QED BY <1>3, <1>4, <1>5, <1>6 DEF UserStep

LEMMA BreakTyped == ASSUME CallsOK, DataOK, Break PROVE PageOK'
<1>1. PageOK BY DEF DataOK, PageOK
<1>2. breaks' \in 0..MaxBreaks /\ UNCHANGED <<imeis, dmzMode, currentLanguage, acts>>
  BY <1>1, BoundsAssumption DEF Break, PageOK
<1>3. language' \in Languages
  <2>1. \/ UNCHANGED language
        \/ \E i \in DOMAIN calls :
             /\ LanguageLost(i)
             /\ language' = IF calls[i].action = "set_language" THEN calls[i].arg
                           ELSE currentLanguage
    BY DEF Break
  <2>2. \A i \in DOMAIN calls : calls[i] \in Requests BY ElementOfSeq, LenProperties DEF CallsOK
  <2>3. \A i \in DOMAIN calls : calls[i].action = "set_language" => calls[i].arg \in Languages
    BY <2>2 DEF Requests
  <2>4. QED BY <1>1, <2>1, <2>3 DEF PageOK
<1>4. /\ isLoading' = (isLoading /\ \A action \in LoadingActions : ~ Has(action))
      /\ doubt' = (doubt \/ Has("dmz")) /\ langDoubt' = (langDoubt \/ Has("set_language"))
  BY DEF Break
<1>5. isLoading' \in BOOLEAN /\ doubt' \in BOOLEAN /\ langDoubt' \in BOOLEAN
  BY <1>1, <1>4, HasBoolean DEF PageOK
<1>6. QED BY <1>1, <1>2, <1>3, <1>5 DEF PageOK, imeis

LEMMA DataStep == ASSUME CallsOK, DataOK, [Next]_vars PROVE DataOK'
<1>1. ASSUME Tick \/ Settled \/ lanSuccessOver \/ LateExecute \/ UNCHANGED vars PROVE PageOK'
  <2>1. UNCHANGED Page
    BY <1>1 DEF Tick, Settled, lanSuccessOver, LateExecute, vars, Page
  <2>2. QED BY <2>1 DEF Page, PageOK, DataOK, imeis, dmz, lang
<1>2. PageOK'
  BY <1>1, AnswerTyped, UserTyped, BreakTyped DEF Next
<1>3. QED BY <1>2, ServiceTyped DEF PageOK, DataOK

-----------------------------------------------------------------------------
(* What the page shows. *)

LEMMA ConcatNone ==
  ASSUME NEW q \in Seq(Requests), NEW cs \in Seq(Requests), NEW a, None(q, a), None(cs, a)
  PROVE  None(q \o cs, a)
  BY ConcatFacts DEF None

LEMMA TailNone == ASSUME NEW q \in Seq(Requests), q # <<>>, NEW a, None(q, a) PROVE None(Tail(q), a)
  BY TailFacts DEF None

\* The last of the calls of an action asks for v.
LastIs(q, a, v) ==
  \E i \in DOMAIN q : /\ q[i].action = a /\ q[i].arg = v
                      /\ \A j \in DOMAIN q : j > i => q[j].action # a

LEMMA ConcatLast ==
  ASSUME NEW q \in Seq(Requests), NEW cs \in Seq(Requests), NEW a, NEW v,
         LastIs(q, a, v), None(cs, a)
  PROVE  LastIs(q \o cs, a, v)
<1>1. PICK i \in DOMAIN q : /\ q[i].action = a /\ q[i].arg = v
                            /\ \A j \in DOMAIN q : j > i => q[j].action # a
  BY DEF LastIs
<1>2. i \in DOMAIN (q \o cs) /\ (q \o cs)[i] = q[i] BY ConcatFacts
<1>3. ASSUME NEW j \in DOMAIN (q \o cs), j > i PROVE (q \o cs)[j].action # a
  <2>1. CASE j \in DOMAIN q BY <1>1, <1>3, <2>1, ConcatFacts
  <2>2. CASE j \notin DOMAIN q BY <2>2, ConcatFacts DEF None
  <2>3. QED BY <2>1, <2>2
<1>4. QED BY <1>1, <1>2, <1>3 DEF LastIs

LEMMA AppendedIsLast ==
  ASSUME NEW q \in Seq(Requests), NEW c \in Requests
  PROVE  LastIs(q \o <<c>>, c.action, c.arg)
<1>1. /\ <<c>> \in Seq(Requests) /\ Len(<<c>>) = 1 /\ <<c>>[1] = c BY OneIsSequence
<1>2. Len(q) \in Nat /\ DOMAIN q = 1..Len(q) BY LenProperties
<1>3. /\ DOMAIN (q \o <<c>>) = 1..(Len(q) + 1)
      /\ (q \o <<c>>)[Len(q) + 1] = c
  BY <1>1, <1>2, ConcatProperties, LenProperties
<1>4. /\ Len(q) + 1 \in DOMAIN (q \o <<c>>)
      /\ \A j \in DOMAIN (q \o <<c>>) : ~ j > Len(q) + 1
  BY <1>2, <1>3
<1>5. QED BY <1>3, <1>4 DEF LastIs

LEMMA HeadIsFirst ==
  ASSUME NEW q \in Seq(Requests), q # <<>>
  PROVE  /\ 1 \in DOMAIN q /\ Head(q) = q[1]
         /\ \A i \in DOMAIN q :
              i = 1 \/ (i - 1 \in DOMAIN Tail(q) /\ i \in Nat /\ Tail(q)[i - 1] = q[i])
<1>1. /\ Len(q) \in Nat \ {0} /\ DOMAIN q = 1..Len(q)
  BY LenProperties, EmptySeq
<1>2. /\ Tail(q) \in Seq(Requests) /\ Len(Tail(q)) = Len(q) - 1
      /\ \A i \in 1..Len(Tail(q)) : Tail(q)[i] = q[i + 1]
  BY HeadTailProperties
<1>3. DOMAIN Tail(q) = 1..Len(Tail(q)) BY <1>2, LenProperties
<1>4. Head(q) = q[1] OBVIOUS
<1>5. QED BY <1>1, <1>2, <1>3, <1>4

LEMMA TailLast ==
  ASSUME NEW q \in Seq(Requests), q # <<>>, NEW a, NEW v, LastIs(q, a, v)
  PROVE  \/ LastIs(Tail(q), a, v)
         \/ Head(q).action = a /\ Head(q).arg = v /\ None(Tail(q), a)
<1>1. PICK i \in DOMAIN q : /\ q[i].action = a /\ q[i].arg = v
                            /\ \A j \in DOMAIN q : j > i => q[j].action # a
  BY DEF LastIs
<1>2. CASE i = 1
  <2>1. None(Tail(q), a) BY <1>1, <1>2, TailFacts DEF None
  <2>2. QED BY <1>1, <1>2, <2>1, HeadIsFirst
<1>3. CASE i # 1
  <2>1. i - 1 \in DOMAIN Tail(q) /\ Tail(q)[i - 1] = q[i] /\ i \in Nat BY <1>3, HeadIsFirst
  <2>2. \A j \in DOMAIN Tail(q) : j > i - 1 => Tail(q)[j].action # a BY <1>1, <2>1, TailFacts
  <2>3. QED BY <1>1, <2>1, <2>2 DEF LastIs
<1>4. QED BY <1>2, <1>3

\* A step that neither issues nor answers a call of an action leaves the
\* action's calls in their order.
LEMMA GrownCalls ==
  ASSUME CallsOK, NEW a, Grown(a), ServiceStep => Head(calls).action # a
  PROVE  /\ None(calls, a) => None(calls', a)
         /\ \A v : LastIs(calls, a, v) => LastIs(calls', a, v)
<1>1. calls \in Seq(Requests) /\ (calls # <<>> => Tail(calls) \in Seq(Requests))
  BY TailTyped DEF CallsOK
<1>2. ASSUME NEW q \in Seq(Requests), calls' = q \/ Appends(q, a)
      PROVE  /\ None(q, a) => None(calls', a)
             /\ \A v : LastIs(q, a, v) => LastIs(calls', a, v)
  BY <1>2, ConcatNone, ConcatLast DEF Appends
<1>3. CASE calls' = calls \/ Appends(calls, a)
  BY <1>1, <1>2, <1>3
<1>4. CASE ServiceStep /\ calls # <<>> /\ (calls' = Tail(calls) \/ Appends(Tail(calls), a))
  <2>1. /\ None(calls, a) => None(Tail(calls), a)
        /\ \A v : LastIs(calls, a, v) => LastIs(Tail(calls), a, v)
    BY <1>1, <1>4, TailNone, TailLast
  <2>2. QED BY <1>1, <1>2, <1>4, <2>1
<1>5. QED BY <1>3, <1>4 DEF Grown

\* A setting is changed only by a request about it.
LEMMA ExecutedKeeps ==
  ASSUME DataOK, NEW c, Executed(c)
  PROVE  /\ modem'.dmz # modem.dmz => c.action = "dmz"
         /\ modem'.imei # modem.imei => c.action = "set_imei"
         /\ serverLanguage' # serverLanguage => c.action = "set_language"
<1>1. serverLanguage' # serverLanguage => c.action = "set_language" BY DEF Executed
<1>2. CASE c.action = "set_imei" /\ c.arg \in IMEIs
  <2>1. modem' = [modem EXCEPT !.imei = c.arg] BY <1>2 DEF Executed
  <2>2. modem'.dmz = modem.dmz BY <2>1 DEF DataOK
  <2>3. QED BY <1>1, <1>2, <2>2
<1>3. CASE c.action = "dmz"
  <2>1. modem' = [modem EXCEPT !.dmz = c.arg] BY <1>3 DEF Executed
  <2>2. modem'.imei = modem.imei BY <2>1 DEF DataOK
  <2>3. QED BY <1>1, <1>3, <2>2
<1>4. CASE ~ (c.action = "set_imei" /\ c.arg \in IMEIs) /\ c.action # "dmz"
  <2>1. modem' = modem BY <1>4 DEF Executed
  <2>2. QED BY <1>1, <2>1
<1>5. QED BY <1>2, <1>3, <1>4

LEMMA OthersKeep ==
  ASSUME DataOK, [Next]_vars
  PROVE  /\ modem'.dmz # modem.dmz =>
              (ServiceStep /\ calls # <<>> /\ Head(calls).action = "dmz") \/ HasLate("dmz")
         /\ modem'.imei # modem.imei =>
              (ServiceStep /\ calls # <<>> /\ Head(calls).action = "set_imei") \/ HasLate("set_imei")
         /\ serverLanguage' # serverLanguage =>
              (ServiceStep /\ calls # <<>> /\ Head(calls).action = "set_language")
                \/ HasLate("set_language")
<1>1. CASE UNCHANGED <<modem, serverLanguage>> BY <1>1
<1>2. CASE ServiceStep /\ calls # <<>> /\ Executed(Head(calls)) BY <1>2, ExecutedKeeps
<1>3. ASSUME NEW c \in late, Executed(c)
      PROVE  /\ modem'.dmz # modem.dmz => HasLate("dmz")
             /\ modem'.imei # modem.imei => HasLate("set_imei")
             /\ serverLanguage' # serverLanguage => HasLate("set_language")
  BY <1>3, ExecutedKeeps DEF HasLate
<1>4. QED BY <1>1, <1>2, <1>3, ServiceSteps

LEMMA AnswersOf ==
  ASSUME ServiceStep
  PROVE  /\ calls # <<>>
         /\ Head(calls).action = "dmz" => \E accepted \in BOOLEAN : dmzAnswered(accepted)
         /\ Head(calls).action = "set_language" => \E accepted \in BOOLEAN : languageSaved(accepted)
<1>1. CASE \/ \E read \in Readings : statusAnswered(read)
           \/ \E accepted \in BOOLEAN : languageLoaded(accepted)
           \/ \E action \in LoadingActions, accepted \in BOOLEAN : loadingAnswered(action, accepted)
           \/ \E accepted \in BOOLEAN : lanipAnswered(accepted)
           \/ dnsAnswered \/ usbnetAnswered \/ passthroughAnswered \/ otherAnswered
  <2>1. calls # <<>> /\ Head(calls).action \notin {"dmz", "set_language"}
    BY <1>1 DEF statusAnswered, languageLoaded, loadingAnswered, LoadingActions, lanipAnswered,
                dnsAnswered, usbnetAnswered, passthroughAnswered, otherAnswered, Answered
  <2>2. QED BY <2>1
<1>2. ASSUME NEW accepted \in BOOLEAN, dmzAnswered(accepted)
      PROVE  calls # <<>> /\ Head(calls).action = "dmz" /\ \E a \in BOOLEAN : dmzAnswered(a)
  BY <1>2 DEF dmzAnswered, Answered
<1>3. ASSUME NEW accepted \in BOOLEAN, languageSaved(accepted)
      PROVE  calls # <<>> /\ Head(calls).action = "set_language" /\ \E a \in BOOLEAN : languageSaved(a)
  BY <1>3 DEF languageSaved, Answered
<1>4. QED BY <1>1, <1>2, <1>3 DEF ServiceStep

\* DmzShown is inductive with what the last change under way asks for, and that
\* no change is executed late.
DmzInv ==
  ~ doubt => /\ ~ HasLate("dmz")
             /\ \/ None(calls, "dmz") /\ dmzMode = modem.dmz
                \/ LastIs(calls, "dmz", dmzMode)

DmzSteps ==
  \/ setDMZ
  \/ \E read \in Readings : statusAnswered(read)
  \/ \E accepted \in BOOLEAN : dmzAnswered(accepted)
  \/ Break

LEMMA DmzLeft == ASSUME [Next]_vars, ~ DmzSteps PROVE UNCHANGED dmz
<1>1. CASE ServiceStep
  BY <1>1 DEF ServiceStep, DmzSteps, languageLoaded, languageSaved, loadingAnswered,
              lanipAnswered, dnsAnswered, usbnetAnswered, passthroughAnswered, otherAnswered
<1>2. CASE UserStep
  BY <1>2 DEF UserStep, DmzSteps, rebootDevice, closeModal, openRebootModal, TypeImei,
              openImeiModal, updateIMEI, closeImeiModal, sendATCommand, setTTL, startLoading,
              ipPassThroughDisable, callOnly, setLANIP, saveLanguageSetting
<1>3. CASE Tick \/ Settled \/ lanSuccessOver \/ LateExecute \/ UNCHANGED vars
  BY <1>3 DEF Tick, Settled, lanSuccessOver, LateExecute, vars
<1>4. QED BY <1>1, <1>2, <1>3 DEF Next, DmzSteps

\* A confirmed mode has no change that is executed late.
LEMMA DmzLate == ASSUME DmzInv, [Next]_vars, ~ doubt' PROVE ~ HasLate("dmz") /\ ~ HasLate("dmz")'
<1>1. CASE ~ DmzSteps
  <2>1. ~ doubt /\ ~ Break BY <1>1, DmzLeft DEF dmz, DmzSteps
  <2>2. QED BY <2>1, LateGrows DEF DmzInv
<1>2. CASE setDMZ \/ \E accepted \in BOOLEAN : dmzAnswered(accepted)
  <2>1. ~ doubt /\ late' = late BY <1>2 DEF setDMZ, dmzAnswered, Answered, service
  <2>2. QED BY <2>1 DEF DmzInv, HasLate
<1>3. CASE \E read \in Readings : statusAnswered(read)
  <2>1. ~ HasLate("dmz") /\ late' = late BY <1>3 DEF statusAnswered, Answered
  <2>2. QED BY <2>1 DEF HasLate
<1>4. CASE Break
  <2>1. ~ doubt /\ ~ Has("dmz") BY <1>4 DEF Break
  <2>2. QED BY <2>1, LateGrows DEF DmzInv
<1>5. QED BY <1>1, <1>2, <1>3, <1>4 DEF DmzSteps

LEMMA DmzStep == ASSUME CallsOK, DataOK, DmzInv, [Next]_vars, ~ doubt' PROVE DmzInv'
<1> USE DEF CallsOK
<1>0. ~ HasLate("dmz") /\ ~ HasLate("dmz")' BY DmzLate
<1>1. CASE setDMZ
  <2>1. PICK mode \in {"0", "1"} : dmzMode' = mode /\ calls' = calls \o <<Call("dmz", mode)>>
    BY <1>1 DEF setDMZ, Issue
  <2>2. /\ Call("dmz", mode) \in Requests
        /\ Call("dmz", mode).action = "dmz" /\ Call("dmz", mode).arg = mode
    BY DEF Call, Requests, Actions
  <2>3. LastIs(calls', "dmz", dmzMode') BY <2>1, <2>2, AppendedIsLast
  <2>4. QED BY <1>0, <2>3 DEF DmzInv
<1>2. ASSUME NEW read \in Readings, statusAnswered(read) PROVE DmzInv'
  <2>1. /\ calls # <<>> /\ calls' = Tail(calls) /\ Head(calls).action = "status"
        /\ dmzMode' = resolveDmzMode(read.dmz, read.dmz = "1") /\ read.dmz = modem.dmz
        /\ ~ \E i \in 2..Len(calls) : calls[i].action = "dmz"
    BY <1>2 DEF statusAnswered, Answered, Answer
  <2>2. dmzMode' = modem.dmz BY <2>1 DEF resolveDmzMode, DataOK
  <2>3. modem'.dmz = modem.dmz BY <1>0, <2>1, OthersKeep
  <2>4. None(calls', "dmz")
    <3>1. \A i \in 2..Len(calls) : calls[i].action # "dmz" BY <2>1
    <3>2. DOMAIN calls = 1..Len(calls) /\ Len(calls) \in Nat BY LenProperties
    <3>3. \A i \in DOMAIN Tail(calls) : i + 1 \in 2..Len(calls) /\ Tail(calls)[i] = calls[i + 1]
      BY <2>1, <3>2, TailFacts
    <3>4. QED BY <2>1, <3>1, <3>3 DEF None
  <2>5. QED BY <1>0, <2>2, <2>3, <2>4 DEF DmzInv
<1>3. ASSUME NEW accepted \in BOOLEAN, dmzAnswered(accepted) PROVE DmzInv'
  <2>1. /\ calls # <<>> /\ calls' = Tail(calls) /\ Head(calls).action = "dmz"
        /\ ~ doubt /\ Executed(Head(calls)) /\ dmzMode' = dmzMode
    BY <1>3 DEF dmzAnswered, Answered, Answer
  <2>2. LastIs(calls, "dmz", dmzMode)
    <3>1. ~ None(calls, "dmz") BY <2>1, HeadIsFirst DEF None
    <3>2. QED BY <2>1, <3>1 DEF DmzInv
  <2>3. modem'.dmz = Head(calls).arg BY <2>1 DEF Executed, DataOK
  <2>4. QED BY <1>0, <2>1, <2>2, <2>3, TailLast DEF DmzInv
<1>4. CASE Break
  <2>1. /\ calls # <<>> /\ calls' = <<>> /\ dmzMode' = dmzMode /\ ~ doubt
        /\ None(calls, "dmz") /\ modem' = modem
    BY <1>4 DEF Break, Has, None
  <2>2. ~ LastIs(calls, "dmz", dmzMode) BY <2>1 DEF None, LastIs
  <2>3. None(calls', "dmz") BY <2>1 DEF None
  <2>4. QED BY <1>0, <2>1, <2>2, <2>3 DEF DmzInv
<1>5. CASE ~ DmzSteps
  <2>1. UNCHANGED <<dmzMode, doubt>> BY <1>5, DmzLeft DEF dmz
  <2>2. Grown("dmz") BY <1>5, OtherSteps DEF DmzSteps, Issues, Followed
  <2>3. ServiceStep => Head(calls).action # "dmz" BY <1>5, AnswersOf DEF DmzSteps
  <2>4. modem'.dmz = modem.dmz BY <1>0, <2>3, OthersKeep
  <2>5. QED BY <1>0, <2>1, <2>2, <2>3, <2>4, GrownCalls DEF DmzInv
<1>6. QED BY <1>1, <1>2, <1>3, <1>4, <1>5 DEF DmzSteps

\* A set_language under way asks for the language selected, and whoever loads
\* the language loads it after that.
SavedFirst(q, v) ==
  \A i \in DOMAIN q : q[i].action = "set_language" =>
     /\ q[i].arg = v
     /\ \A j \in DOMAIN q : q[j].action = "get_language" => j > i

\* LanguageAgrees is inductive with it.
LangInv ==
  ~ langDoubt => /\ ~ HasLate("set_language")
                 /\ language = currentLanguage
                 /\ None(calls, "set_language") => currentLanguage = serverLanguage
                 /\ SavedFirst(calls, language)

LEMMA ConcatSavedFirst ==
  ASSUME NEW q \in Seq(Requests), NEW cs \in Seq(Requests), NEW v,
         SavedFirst(q, v), None(cs, "set_language")
  PROVE  SavedFirst(q \o cs, v)
<1> SUFFICES ASSUME NEW i \in DOMAIN (q \o cs), (q \o cs)[i].action = "set_language"
             PROVE  /\ (q \o cs)[i].arg = v
                    /\ \A j \in DOMAIN (q \o cs) : (q \o cs)[j].action = "get_language" => j > i
  BY DEF SavedFirst
<1>1. i \in DOMAIN q BY ConcatFacts DEF None
<1>2. (q \o cs)[i] = q[i] BY <1>1, ConcatFacts
<1>3. ASSUME NEW j \in DOMAIN (q \o cs), (q \o cs)[j].action = "get_language" PROVE j > i
  <2>1. CASE j \in DOMAIN q BY <1>1, <1>2, <1>3, <2>1, ConcatFacts DEF SavedFirst
  <2>2. CASE j \notin DOMAIN q BY <1>1, <2>2, ConcatFacts
  <2>3. QED BY <2>1, <2>2
<1>4. QED BY <1>1, <1>2, <1>3 DEF SavedFirst

LEMMA AppendedSavedFirst ==
  ASSUME NEW q \in Seq(Requests), None(q, "set_language"), None(q, "get_language"),
         NEW c \in Requests, c.action = "set_language"
  PROVE  SavedFirst(q \o <<c>>, c.arg)
<1>1. <<c>> \in Seq(Requests) BY OneIsSequence
<1>2. \A k \in DOMAIN <<c>> : <<c>>[k] = c OBVIOUS
<1>3. \A i \in DOMAIN (q \o <<c>>) :
        /\ i \in DOMAIN q => (q \o <<c>>)[i].action \notin {"set_language", "get_language"}
        /\ i \notin DOMAIN q => (q \o <<c>>)[i] = c
  BY <1>1, <1>2, ConcatFacts DEF None
<1>4. \A i \in DOMAIN (q \o <<c>>) : (q \o <<c>>)[i].action # "get_language" BY <1>3
<1>5. QED BY <1>3, <1>4 DEF SavedFirst

LEMMA TailSavedFirst ==
  ASSUME NEW q \in Seq(Requests), q # <<>>, NEW v, SavedFirst(q, v)
  PROVE  SavedFirst(Tail(q), v)
<1> SUFFICES ASSUME NEW i \in DOMAIN Tail(q), Tail(q)[i].action = "set_language"
             PROVE  /\ Tail(q)[i].arg = v
                    /\ \A j \in DOMAIN Tail(q) : Tail(q)[j].action = "get_language" => j > i
  BY DEF SavedFirst
<1>1. i + 1 \in DOMAIN q /\ Tail(q)[i] = q[i + 1] /\ i \in Nat BY TailFacts
<1>2. Tail(q)[i].arg = v BY <1>1 DEF SavedFirst
<1>3. ASSUME NEW j \in DOMAIN Tail(q), Tail(q)[j].action = "get_language" PROVE j > i
  <2>1. j + 1 \in DOMAIN q /\ q[j + 1].action = "get_language" /\ j \in Nat BY <1>3, TailFacts
  <2>2. j + 1 > i + 1 BY <1>1, <2>1 DEF SavedFirst
  <2>3. QED BY <1>1, <2>1, <2>2
<1>4. QED BY <1>2, <1>3

LEMMA GrownSavedFirst ==
  ASSUME CallsOK, Grown("set_language"), NEW v, SavedFirst(calls, v)
  PROVE  SavedFirst(calls', v)
<1>1. calls \in Seq(Requests) /\ (calls # <<>> => Tail(calls) \in Seq(Requests))
  BY TailTyped DEF CallsOK
<1>2. ASSUME NEW q \in Seq(Requests), SavedFirst(q, v), calls' = q \/ Appends(q, "set_language")
      PROVE  SavedFirst(calls', v)
  BY <1>2, ConcatSavedFirst DEF Appends
<1>3. calls # <<>> => SavedFirst(Tail(calls), v) BY <1>1, TailSavedFirst
<1>4. QED BY <1>1, <1>2, <1>3 DEF Grown

\* A call of an action that is under way stays under way until it is answered.
LEMMA GrownNone ==
  ASSUME CallsOK, NEW a, Grown(a), ServiceStep => Head(calls).action # a, None(calls', a)
  PROVE  None(calls, a)
<1>1. calls \in Seq(Requests) /\ (calls # <<>> => Tail(calls) \in Seq(Requests))
  BY TailTyped DEF CallsOK
<1>2. ASSUME NEW q \in Seq(Requests), calls' = q \/ Appends(q, a)
      PROVE  None(q, a)
  <2>1. CASE calls' = q BY <2>1
  <2>2. CASE Appends(q, a)
    <3>1. PICK cs \in Seq(Requests) : calls' = q \o cs BY <2>2 DEF Appends
    <3>2. \A i \in DOMAIN q : i \in DOMAIN calls' /\ calls'[i] = q[i] BY <3>1, ConcatFacts
    <3>3. QED BY <3>2 DEF None
  <2>3. QED BY <1>2, <2>1, <2>2
<1>3. ASSUME calls # <<>>, None(Tail(calls), a), Head(calls).action # a PROVE None(calls, a)
  <2>1. ASSUME NEW i \in DOMAIN calls PROVE calls[i].action # a
    <3>1. CASE i = 1 BY <1>1, <1>3, <3>1, HeadIsFirst
    <3>2. CASE i # 1
      <4>1. i - 1 \in DOMAIN Tail(calls) /\ Tail(calls)[i - 1] = calls[i]
        BY <1>1, <1>3, <3>2, HeadIsFirst
      <4>2. QED BY <1>3, <4>1 DEF None
    <3>3. QED BY <3>1, <3>2
  <2>2. QED BY <2>1 DEF None
<1>4. QED BY <1>1, <1>2, <1>3 DEF Grown

LangSteps ==
  \/ \E chosen \in Languages : saveLanguageSetting(chosen)
  \/ \E accepted \in BOOLEAN : languageLoaded(accepted)
  \/ \E accepted \in BOOLEAN : languageSaved(accepted)
  \/ Break

LEMMA LangLeft == ASSUME [Next]_vars, ~ LangSteps PROVE UNCHANGED lang
<1>1. CASE ServiceStep
  BY <1>1 DEF ServiceStep, LangSteps, statusAnswered, loadingAnswered, dmzAnswered,
              lanipAnswered, dnsAnswered, usbnetAnswered, passthroughAnswered, otherAnswered
<1>2. CASE UserStep
  BY <1>2 DEF UserStep, LangSteps, rebootDevice, closeModal, openRebootModal, TypeImei,
              openImeiModal, updateIMEI, closeImeiModal, sendATCommand, setTTL, startLoading,
              ipPassThroughDisable, callOnly, setLANIP, setDMZ
<1>3. CASE Tick \/ Settled \/ lanSuccessOver \/ LateExecute \/ UNCHANGED vars
  BY <1>3 DEF Tick, Settled, lanSuccessOver, LateExecute, vars
<1>4. QED BY <1>1, <1>2, <1>3 DEF Next, LangSteps

\* A language that is agreed upon has no save that is executed late.
LEMMA LangLate ==
  ASSUME LangInv, [Next]_vars, ~ langDoubt'
  PROVE  ~ HasLate("set_language") /\ ~ HasLate("set_language")'
<1>1. CASE ~ LangSteps
  <2>1. ~ langDoubt /\ ~ Break BY <1>1, LangLeft DEF lang, LangSteps
  <2>2. QED BY <2>1, LateGrows DEF LangInv
<1>2. CASE \/ \E chosen \in Languages : saveLanguageSetting(chosen)
           \/ \E accepted \in BOOLEAN : languageSaved(accepted)
  <2>1. ~ langDoubt /\ late' = late
    BY <1>2 DEF saveLanguageSetting, languageSaved, Answered, service
  <2>2. QED BY <2>1 DEF LangInv, HasLate
<1>3. CASE \E accepted \in BOOLEAN : languageLoaded(accepted)
  <2>1. late' = late /\ (~ langDoubt \/ ~ HasLate("set_language"))
    BY <1>3 DEF languageLoaded, Answered
  <2>2. QED BY <2>1 DEF LangInv, HasLate
<1>4. CASE Break
  <2>1. ~ langDoubt /\ ~ Has("set_language") BY <1>4 DEF Break
  <2>2. QED BY <2>1, LateGrows DEF LangInv
<1>5. QED BY <1>1, <1>2, <1>3, <1>4 DEF LangSteps

LEMMA LangStep == ASSUME CallsOK, DataOK, LangInv, [Next]_vars, ~ langDoubt' PROVE LangInv'
<1> USE DEF CallsOK
<1>0. ~ HasLate("set_language") /\ ~ HasLate("set_language")' BY LangLate
<1>1. ASSUME NEW chosen \in Languages, saveLanguageSetting(chosen) PROVE LangInv'
  <2> DEFINE c == Call("set_language", chosen)
  <2>1. /\ calls' = calls \o <<c>> /\ language' = chosen /\ currentLanguage' = chosen
        /\ None(calls, "set_language") /\ None(calls, "get_language")
    BY <1>1 DEF saveLanguageSetting, Issue, Has, None
  <2>2. c \in Requests /\ c.action = "set_language" /\ c.arg = chosen
    BY DEF Call, Requests, Actions
  <2>3. SavedFirst(calls', chosen) BY <2>1, <2>2, AppendedSavedFirst
  <2>4. ~ None(calls', "set_language") BY <2>1, <2>2, AppendedIsLast DEF None, LastIs
  <2>5. QED BY <1>0, <2>1, <2>3, <2>4 DEF LangInv
<1>2. CASE languageLoaded(TRUE)
  <2>1. /\ calls # <<>> /\ calls' = Tail(calls) /\ Head(calls).action = "get_language"
        /\ language' = serverLanguage /\ currentLanguage' = serverLanguage
        /\ ~ (langDoubt /\ Has("set_language"))
    BY <1>0, <1>2 DEF languageLoaded, Answered, Answer
  <2>2. None(calls, "set_language")
    <3>1. CASE langDoubt BY <2>1, <3>1 DEF Has, None
    <3>2. CASE ~ langDoubt
      <4>1. 1 \in DOMAIN calls /\ calls[1].action = "get_language" BY <2>1, HeadIsFirst
      <4>2. \A i \in DOMAIN calls : i \in Nat \ {0} BY LenProperties
      <4>3. \A i \in DOMAIN calls : ~ 1 > i BY <4>2
      <4>4. QED BY <3>2, <4>1, <4>3 DEF LangInv, SavedFirst, None
    <3>3. QED BY <3>1, <3>2
  <2>3. None(calls', "set_language") BY <2>1, <2>2, TailNone
  <2>4. serverLanguage' = serverLanguage BY <1>0, <2>1, OthersKeep
  <2>5. QED BY <1>0, <2>1, <2>3, <2>4 DEF LangInv, SavedFirst, None
<1>7. CASE languageLoaded(FALSE)
  <2>1. /\ calls # <<>> /\ calls' = Tail(calls) /\ Head(calls).action = "get_language"
        /\ language' = currentLanguage /\ currentLanguage' = currentLanguage
        /\ ~ langDoubt /\ serverLanguage' = serverLanguage
    BY <1>7 DEF languageLoaded, Answered, Answer
  <2>2. SavedFirst(calls', language') BY <2>1, TailSavedFirst DEF LangInv
  <2>3. None(calls', "set_language") => None(calls, "set_language")
    <3>1. ASSUME None(Tail(calls), "set_language"), NEW i \in DOMAIN calls
          PROVE  calls[i].action # "set_language"
      BY <2>1, <3>1, HeadIsFirst DEF None
    <3>2. QED BY <2>1, <3>1 DEF None
  <2>4. QED BY <1>0, <2>1, <2>2, <2>3 DEF LangInv
<1>3. ASSUME NEW accepted \in BOOLEAN, languageSaved(accepted) PROVE LangInv'
  <2>1. /\ calls # <<>> /\ calls' = Tail(calls) /\ Head(calls).action = "set_language"
        /\ language' = Head(calls).arg /\ currentLanguage' = currentLanguage
        /\ ~ langDoubt /\ Executed(Head(calls))
    BY <1>3 DEF languageSaved, Answered, Answer
  <2>2. Head(calls).arg = language
    BY <2>1, HeadIsFirst DEF LangInv, SavedFirst
  <2>3. serverLanguage' = Head(calls).arg BY <2>1 DEF Executed
  <2>4. SavedFirst(calls', language) BY <2>1, TailSavedFirst DEF LangInv
  <2>5. QED BY <1>0, <2>1, <2>2, <2>3, <2>4 DEF LangInv
<1>4. CASE Break
  <2>1. /\ calls # <<>> /\ calls' = <<>> /\ ~ langDoubt /\ None(calls, "set_language")
        /\ currentLanguage' = currentLanguage /\ serverLanguage' = serverLanguage
    BY <1>4 DEF Break, Has, None
  <2>2. language' = language \/ language' = currentLanguage
    BY <1>4, <2>1 DEF Break, None
  <2>3. SavedFirst(<<>>, language') BY DEF SavedFirst
  <2>4. QED BY <1>0, <2>1, <2>2, <2>3 DEF LangInv
<1>5. CASE ~ LangSteps
  <2>1. UNCHANGED <<language, currentLanguage, langDoubt>> BY <1>5, LangLeft DEF lang
  <2>2. Grown("set_language") BY <1>5, OtherSteps DEF LangSteps, Issues, Followed
  <2>3. ServiceStep => Head(calls).action # "set_language" BY <1>5, AnswersOf DEF LangSteps
  <2>5. serverLanguage' = serverLanguage BY <1>0, <2>3, OthersKeep
  <2>6. None(calls', "set_language") => None(calls, "set_language") BY <2>2, <2>3, GrownNone
  <2>7. SavedFirst(calls, language) => SavedFirst(calls', language) BY <2>2, GrownSavedFirst
  <2>8. QED BY <1>0, <2>1, <2>5, <2>6, <2>7 DEF LangInv
<1>6. QED BY <1>1, <1>2, <1>3, <1>4, <1>5, <1>7 DEF LangSteps

\* ImeiConfirmed is inductive with this: a field the user filled holds what the
\* user typed or the IMEI of the page, and under a dialog opened when that IMEI
\* was the modem's no change of it is under way.
ImeiInv ==
  /\ typed # "" => newImei \in {typed, imei}
  /\ showImeiModal /\ ~ imeiDoubt =>
       /\ None(calls, "set_imei") /\ ~ HasLate("set_imei")
       /\ imei \in {NoImei, modem.imei}
       /\ typed # "" => newImei = typed

ImeiSteps ==
  \/ \E value \in IMEIs \cup {"", BadImei} : TypeImei(value)
  \/ openImeiModal
  \/ \E read \in Readings : statusAnswered(read)

LEMMA ImeiLeft ==
  ASSUME [Next]_vars, ~ ImeiSteps
  PROVE  UNCHANGED imeis /\ (showImeiModal' = showImeiModal \/ showImeiModal' = FALSE)
<1>1. CASE ServiceStep
  BY <1>1 DEF ServiceStep, ImeiSteps, languageLoaded, languageSaved, loadingAnswered, dmzAnswered,
              lanipAnswered, dnsAnswered, usbnetAnswered, passthroughAnswered, otherAnswered,
              startRebootCountdown, boot
<1>2. CASE UserStep
  BY <1>2 DEF UserStep, ImeiSteps, rebootDevice, closeModal, openRebootModal, updateIMEI,
              closeImeiModal, sendATCommand, setTTL, startLoading, ipPassThroughDisable, callOnly,
              setLANIP, setDMZ, saveLanguageSetting, startRebootCountdown, boot
<1>3. CASE Tick \/ Settled \/ lanSuccessOver \/ Break \/ LateExecute \/ UNCHANGED vars
  BY <1>3 DEF Tick, Settled, lanSuccessOver, Break, LateExecute, vars, startRebootCountdown, boot
<1>4. QED BY <1>1, <1>2, <1>3 DEF Next, ImeiSteps

LEMMA ImeiStep == ASSUME CallsOK, DataOK, ImeiInv, [Next]_vars PROVE ImeiInv'
<1> USE DEF CallsOK
<1>1. CASE \E value \in IMEIs \cup {"", BadImei} : TypeImei(value)
  <2>1. /\ newImei' = typed' /\ imeiDoubt' = ImeiOutdated
        /\ UNCHANGED <<calls, modem, late, imei>>
    BY <1>1 DEF TypeImei, service
  <2>2. ~ ImeiOutdated => /\ None(calls, "set_imei") /\ ~ HasLate("set_imei")
                          /\ imei \in {NoImei, modem.imei}
    BY DEF ImeiOutdated, Has, None
  <2>3. QED BY <2>1, <2>2 DEF ImeiInv, HasLate
<1>2. CASE openImeiModal
  <2>1. /\ newImei # imei /\ imeiDoubt' = ImeiOutdated
        /\ UNCHANGED <<calls, modem, late, imei, newImei, typed>>
    BY <1>2 DEF openImeiModal, service
  <2>2. ~ ImeiOutdated => /\ None(calls, "set_imei") /\ ~ HasLate("set_imei")
                          /\ imei \in {NoImei, modem.imei}
    BY DEF ImeiOutdated, Has, None
  <2>3. QED BY <2>1, <2>2 DEF ImeiInv, HasLate
<1>3. ASSUME NEW read \in Readings, statusAnswered(read) PROVE ImeiInv'
  <2>1. /\ calls # <<>> /\ calls' = Tail(calls) /\ Head(calls).action = "status"
        /\ imei' = (IF read.imei = NoImei THEN imei ELSE read.imei)
        /\ newImei' = (IF read.imei # NoImei /\ newImei \in {"", NoImei, imei}
                       THEN read.imei ELSE newImei)
        /\ imeiDoubt' = (imeiDoubt \/ read.imei \notin {NoImei, modem.imei})
        /\ UNCHANGED <<showImeiModal, typed, late>>
    BY <1>3 DEF statusAnswered, Answered, Answer, boot
  <2>2. typed' # "" => newImei' \in {typed', imei'} BY <2>1 DEF ImeiInv
  <2>3. ASSUME showImeiModal', ~ imeiDoubt'
        PROVE  /\ None(calls', "set_imei") /\ ~ HasLate("set_imei")'
               /\ imei' \in {NoImei, modem'.imei}
               /\ typed' # "" => newImei' = typed'
    <3>1. /\ None(calls, "set_imei") /\ ~ HasLate("set_imei")
          /\ imei \in {NoImei, modem.imei}
          /\ typed # "" => newImei = typed
          /\ read.imei \in {NoImei, modem.imei}
      BY <2>1, <2>3 DEF ImeiInv
    <3>2. newImei # NoImei BY ImeiAssumption DEF DataOK, Values, NoImei, BadImei
    <3>3. modem'.imei = modem.imei BY <2>1, <3>1, OthersKeep
    <3>4. ~ HasLate("set_imei")' BY <2>1, <3>1 DEF HasLate
    <3>5. None(calls', "set_imei") BY <2>1, <3>1, TailNone
    <3>6. imei' \in {NoImei, modem'.imei}
      <4>1. imei' \in {imei, read.imei} BY <2>1
      <4>2. QED BY <3>1, <3>3, <4>1
    <3>7. ASSUME typed' # "" PROVE newImei' = typed'
      <4>1. newImei = typed /\ newImei # "" /\ typed' = typed BY <2>1, <3>1, <3>7
      <4>2. CASE read.imei # NoImei /\ newImei = imei
        <5>1. newImei' = read.imei BY <2>1, <4>2
        <5>2. QED BY <3>1, <3>2, <4>1, <4>2, <5>1
      <4>3. CASE read.imei = NoImei \/ newImei # imei
        <5>1. newImei' = newImei BY <2>1, <3>2, <4>1, <4>3
        <5>2. QED BY <4>1, <5>1
      <4>4. QED BY <4>2, <4>3
    <3>8. QED BY <3>4, <3>5, <3>6, <3>7
  <2>4. QED BY <2>2, <2>3 DEF ImeiInv
<1>4. CASE ~ ImeiSteps
  <2>1. UNCHANGED <<imei, newImei, typed, imeiDoubt>> /\ (showImeiModal' => showImeiModal)
    <3>1. UNCHANGED imeis /\ (showImeiModal' = showImeiModal \/ showImeiModal' = FALSE)
      BY <1>4, ImeiLeft
    <3>2. showImeiModal' => showImeiModal BY <3>1, Zenon
    <3>3. QED BY <3>1, <3>2 DEF imeis
  <2>2. ASSUME None(calls, "set_imei"), ~ HasLate("set_imei"), showImeiModal'
        PROVE  None(calls', "set_imei") /\ ~ HasLate("set_imei")' /\ modem'.imei = modem.imei
    <3>1. calls # <<>> => Head(calls).action # "set_imei" BY <2>2, HeadIsFirst DEF None
    <3>2. modem'.imei = modem.imei BY <2>2, <3>1, OthersKeep
    <3>3. ~ HasLate("set_imei")' BY <2>2, LateGrows DEF Has, None
    <3>4. CASE Break BY <3>2, <3>3, <3>4 DEF Break, None
    <3>5. CASE ~ Break
      <4>1. ~ Issues("set_imei") BY <2>2 DEF Issues, updateIMEI, startRebootCountdown
      <4>2. Grown("set_imei") BY <3>5, <4>1, OtherSteps DEF Followed
      <4>3. QED BY <2>2, <3>1, <3>2, <3>3, <4>2, AnswersOf, GrownCalls
    <3>6. QED BY <3>4, <3>5
  <2>3. QED BY <2>1, <2>2 DEF ImeiInv
<1>5. QED BY <1>1, <1>2, <1>3, <1>4 DEF ImeiSteps

-----------------------------------------------------------------------------
Inv == BootInv /\ LanInv /\ CallsOK /\ DataOK /\ DmzInv /\ LangInv /\ ImeiInv

LEMMA InvInit == Init => Inv
<1> SUFFICES ASSUME Init PROVE Inv OBVIOUS
<1>1. BootInv /\ LanInv /\ CallsOK /\ DataOK
  BY BootInit, LanInit, DataInit, InitCallsTyped DEF CallsOK, Init
<1>2. DmzInv /\ LangInv /\ ImeiInv BY DEF Init, DmzInv, LangInv, ImeiInv
<1>3. QED BY <1>1, <1>2 DEF Inv

LEMMA InvStep == Inv /\ [Next]_vars => Inv'
<1> SUFFICES ASSUME Inv, [Next]_vars PROVE Inv' OBVIOUS
<1>1. CallsOK' /\ DataOK' BY CallsStep, DataStep DEF Inv
<1>2. BootInv' /\ LanInv' BY BootStep, LanStep DEF Inv
<1>3. DmzInv' BY DmzStep DEF Inv, DmzInv
<1>4. LangInv' BY LangStep DEF Inv, LangInv
<1>5. ImeiInv' BY ImeiStep DEF Inv
<1>6. QED BY <1>1, <1>2, <1>3, <1>4, <1>5 DEF Inv

LEMMA InvAlways == Spec => []Inv
  BY InvInit, InvStep, PTL DEF Spec

\* The page's flags, forms and calls have their types, and the modem and the
\* service's language file only get what the page may ask for
\* (pages/settings.js:3-43, structured_api.go:339-441).
THEOREM TypeCorrect == Spec => []TypeOK
<1>1. Inv => TypeOK
  BY DEF Inv, BootInv, BootOK, LanInv, LanOK, CallsOK, DataOK, TypeOK
<1>2. QED BY <1>1, InvAlways, PTL

\* However reboots, answers and saves follow one another, one countdown runs
\* while the overlay is up and none otherwise, a page that waits for the device
\* has a timer that ends the waiting, and a success of a LAN change has one
\* timer that takes it away (pages/settings.js:171-196, :416-455).
THEOREM TimersRightCorrect == Spec => []TimersRight
<1>1. Inv => TimersRight
  BY DEF Inv, BootInv, LanInv, TimersRight
<1>2. QED BY <1>1, InvAlways, PTL

\* Once read from the modem the DMZ mode on display is the stored one, one
\* language is selected, used and stored, and the user confirms the IMEI that
\* was typed, in whatever order answers, acts, breaks and late executions come,
\* with the exceptions the three properties name: a status that is not the
\* modem's, a refusal, a call lost with its connection, a change during a read
\* (pages/settings.js:214-243, :326-415, simpleadmin-core.js:944-982).
THEOREM ShownIsTrueCorrect == Spec => []ShownIsTrue
<1>1. ASSUME Inv PROVE DmzShown
  <2>1. ~ Has("dmz") => ~ LastIs(calls, "dmz", dmzMode) BY DEF Has, LastIs
  <2>2. QED BY <1>1, <2>1 DEF Inv, DmzInv, DmzShown
<1>2. ASSUME Inv PROVE LanguageAgrees
  <2>1. ~ Has("set_language") => None(calls, "set_language") BY DEF Has, None
  <2>2. QED BY <1>2, <2>1 DEF Inv, LangInv, LanguageAgrees
<1>3. ASSUME Inv PROVE ImeiConfirmed
  BY <1>3 DEF Inv, ImeiInv, ImeiConfirmed
<1>4. Inv => ShownIsTrue BY <1>1, <1>2, <1>3 DEF ShownIsTrue
<1>5. QED BY <1>4, InvAlways, PTL
=============================================================================
