---------------------------- MODULE SettingsPage ----------------------------
(***************************************************************************)
(* The settings page (pages/settings.js) with the language setting it      *)
(* shares with the rest of the front end (Lang of simpleadmin-core.js) and *)
(* with the service (main.go).                                             *)
(*                                                                         *)
(* The page's calls go over one connection, whose service executes and     *)
(* answers them one after another; a connection that breaks rejects all of *)
(* them, and what the service had received of them it may still execute    *)
(* later (module ApiChannel).  Between a call and its answer the user      *)
(* acts, and the timers of a reboot run.  While a dialog or the reboot     *)
(* overlay covers the page the buttons of the page cannot be clicked, but  *)
(* the keyboard still reaches the field that had the focus.                *)
(*                                                                         *)
(* The status comes from the cache of the AT commands (module ATCache): it *)
(* may be the modem's, an older one, or nothing yet, which is parsed to    *)
(* defaults.  The modem is changed by this page only: another client, or a *)
(* command typed into the page's terminal, that changes the IMEI or the    *)
(* DMZ mode is left out.                                                   *)
(***************************************************************************)
EXTENDS Naturals, Sequences

CONSTANTS
  IMEIs,        \* well-formed IMEIs
  Languages,    \* the languages the front end supports
  FirstIMEIs,   \* bound: the IMEI of the modem at first,
  FirstModes,   \* its DMZ mode,
  FirstLanguages,       \* and the language of the service
  Seconds,      \* length of a countdown, in ticks
  MaxActs,      \* bound: acts of the user
  MaxBreaks     \* bound: breaks of the connection

ASSUME BoundsAssumption == Seconds \in Nat \ {0} /\ MaxActs \in Nat /\ MaxBreaks \in Nat

NoImei == "-"           \* not known yet
BadImei == "bad"        \* typed, but not 15 digits

ASSUME ImeiAssumption == NoImei \notin IMEIs
ASSUME FirstAssumption ==
  FirstIMEIs \subseteq IMEIs /\ FirstModes \subseteq {"0", "1"} /\ FirstLanguages \subseteq Languages

VARIABLES
  calls,                \* calls issued and not answered, oldest first
  isLoading,
  isRebooting, isRebooted, countdown,
  ticking,              \* intervals that run
  named,                \* rebootCountdownTimer is one of them
  settling,             \* armed timers of the 5 s after a countdown
  raced,                \* history: this countdown began while one was armed
  showModal, showImeiModal,
  imei, newImei,
  typed,                \* history: the IMEI the user typed last
  imeiDoubt,            \* history: imei was out of date when the user typed or opened the dialog, or since
  dmzMode,
  doubt,                \* history: dmzMode was not confirmed by a status that was the modem's
  isSavingLANIP, lanIpSaveSuccess,
  lanTimers, lanNamed,  \* timers that reset it; lanIpSaveSuccessTimer is one of them
  language,             \* the page's selection
  currentLanguage,      \* of Lang, and of localStorage, which it is written to
  langDoubt,            \* history: a save that a load overtook or that failed, and nothing loaded since
  modem,                \* the modem's IMEI and DMZ mode
  serverLanguage,       \* the language file
  late,                 \* requests of broken connections the service may still execute
  acts, breaks

boot == <<isRebooting, isRebooted, countdown, ticking, named, settling, raced, showModal, showImeiModal>>
imeis == <<imei, newImei, typed, imeiDoubt>>
dmz == <<dmzMode, doubt>>
lan == <<isSavingLANIP, lanIpSaveSuccess, lanTimers, lanNamed>>
lang == <<language, currentLanguage, langDoubt>>
service == <<modem, serverLanguage, late>>
vars == <<calls, isLoading, boot, imeis, dmz, lan, lang, service, acts, breaks>>

-----------------------------------------------------------------------------
(* Calls. *)

Call(action, arg) == [action |-> action, arg |-> arg]
Plain(action) == Call(action, "")

Issue(cs) == calls' = calls \o cs
Has(action) == \E i \in DOMAIN calls : calls[i].action = action
HasLate(action) == \E c \in late : c.action = action

\* sendATCommand, updateIMEI and setTTL share the flag isLoading.
LoadingActions == {"manual_at", "set_imei", "set_ttl"}

\* What init asks for, unless the device is still rebooting.
InitCalls == <<Plain("get_language"), Plain("status"), Plain("get_ttl")>>

\* What a request does to the modem and the language file.  A request the
\* service or the modem refuses changes nothing.
Executed(c) ==
  /\ modem' = CASE c.action = "set_imei" /\ c.arg \in IMEIs -> [modem EXCEPT !.imei = c.arg]
                [] c.action = "dmz" -> [modem EXCEPT !.dmz = c.arg]
                [] OTHER -> modem
  /\ serverLanguage' = IF c.action = "set_language" THEN c.arg ELSE serverLanguage

-----------------------------------------------------------------------------
(* Reboots. *)

\* Mutant: the countdown that runs is not cleared.
startRebootCountdownAgain ==
  /\ showModal' = FALSE /\ showImeiModal' = FALSE
  /\ isRebooting' = TRUE /\ isRebooted' = FALSE
  /\ countdown' = Seconds
  /\ ticking' = ticking + 1 /\ named' = TRUE
  /\ raced' = (settling > 0)
  /\ UNCHANGED settling

ClearedTicks == IF named THEN ticking - 1 ELSE ticking

startRebootCountdown ==
  /\ showModal' = FALSE /\ showImeiModal' = FALSE
  /\ isRebooting' = TRUE /\ isRebooted' = FALSE
  /\ countdown' = Seconds
  /\ ticking' = ClearedTicks + 1 /\ named' = TRUE
  /\ raced' = (settling > 0)
  /\ UNCHANGED settling

\* One tick of the countdown; the last one lifts the overlay and leaves the
\* device five more seconds.
Tick ==
  /\ ticking > 0
  /\ countdown' = IF countdown > 0 THEN countdown - 1 ELSE 0
  /\ IF countdown <= 1
     THEN /\ ticking' = ClearedTicks /\ named' = FALSE
          /\ isRebooting' = FALSE /\ raced' = FALSE
          /\ settling' = settling + 1
     ELSE UNCHANGED <<ticking, named, isRebooting, raced, settling>>
  /\ UNCHANGED <<calls, isLoading, isRebooted, showModal, showImeiModal,
                 imeis, dmz, lan, lang, service, acts, breaks>>

\* The five seconds are over: the page starts again.
Settled ==
  /\ settling > 0
  /\ settling' = settling - 1
  /\ isRebooted' = TRUE
  /\ Issue(InitCalls)
  /\ UNCHANGED <<isLoading, isRebooting, countdown, ticking, named, raced, showModal,
                 showImeiModal, imeis, dmz, lan, lang, service, acts, breaks>>

-----------------------------------------------------------------------------
(* The user. *)

Act == acts < MaxActs /\ acts' = acts + 1

\* Nothing covers the page; all buttons but a few wait for isLoading.
Clickable == Act /\ ~ isRebooting /\ ~ showModal /\ ~ showImeiModal

rebootDevice ==
  /\ Act /\ showModal /\ ~ isRebooting
  /\ Issue(<<Plain("reboot")>>)
  /\ startRebootCountdown
  /\ UNCHANGED <<isLoading, imeis, dmz, lan, lang, service, breaks>>

closeModal ==
  /\ Act /\ showModal /\ ~ isRebooting
  /\ showModal' = FALSE
  /\ UNCHANGED <<calls, isLoading, isRebooting, isRebooted, countdown, ticking, named,
                 settling, raced, showImeiModal, imeis, dmz, lan, lang, service, breaks>>

\* showRebootModal, and resetATCommands, which shows it at once.
openRebootModal ==
  /\ Clickable /\ ~ isLoading
  /\ calls' \in {calls, calls \o <<Plain("reset_at")>>}
  /\ showModal' = TRUE
  /\ UNCHANGED <<isLoading, isRebooting, isRebooted, countdown, ticking, named, settling,
                 raced, showImeiModal, imeis, dmz, lan, lang, service, breaks>>

\* The modem's IMEI is another than the page's, or will be.
ImeiOutdated ==
  Has("set_imei") \/ HasLate("set_imei") \/ imei \notin {NoImei, modem.imei}

\* The field keeps the focus when Enter opens the dialog over it.
TypeImei(value) ==
  /\ Act /\ ~ isRebooting
  /\ newImei' = value /\ typed' = value
  /\ imeiDoubt' = ImeiOutdated
  /\ UNCHANGED <<calls, isLoading, boot, imei, dmz, lan, lang, service, breaks>>

openImeiModal ==
  /\ Clickable
  /\ newImei \in IMEIs \ {imei}
  /\ showImeiModal' = TRUE
  /\ imeiDoubt' = ImeiOutdated
  /\ UNCHANGED <<calls, isLoading, isRebooting, isRebooted, countdown, ticking, named,
                 settling, raced, showModal, imei, newImei, typed, dmz, lan, lang, service, breaks>>

updateIMEI ==
  /\ Act /\ showImeiModal /\ ~ showModal /\ ~ isRebooting /\ ~ isLoading
  /\ isLoading' = TRUE
  /\ Issue(<<Call("set_imei", newImei)>>)
  /\ startRebootCountdown
  /\ UNCHANGED <<imeis, dmz, lan, lang, service, breaks>>

closeImeiModal ==
  /\ Act /\ showImeiModal /\ ~ showModal /\ ~ isRebooting /\ ~ isLoading
  /\ showImeiModal' = FALSE
  /\ UNCHANGED <<calls, isLoading, isRebooting, isRebooted, countdown, ticking, named,
                 settling, raced, showModal, imeis, dmz, lan, lang, service, breaks>>

\* sendATCommand also by Enter, and setTTL, do not wait for isLoading.
startLoading(action) ==
  /\ Clickable
  /\ isLoading' = TRUE
  /\ Issue(<<Plain(action)>>)
  /\ UNCHANGED <<boot, imeis, dmz, lan, lang, service, breaks>>

sendATCommand == startLoading("manual_at")
setTTL == startLoading("set_ttl")

ipPassThroughDisable ==
  /\ Clickable /\ ~ isLoading
  /\ Issue(<<Plain("passthrough_off")>>)
  /\ startRebootCountdown
  /\ UNCHANGED <<isLoading, imeis, dmz, lan, lang, service, breaks>>

\* A DNS proxy, ipPassThroughEnable and usbNetModeChanger: a call, and what
\* its answer brings.
callOnly(action) ==
  /\ Clickable /\ ~ isLoading
  /\ Issue(<<Plain(action)>>)
  /\ UNCHANGED <<isLoading, boot, imeis, dmz, lan, lang, service, breaks>>

\* Mutant: the page goes on showing the old mode.
setDMZSilent ==
  /\ Clickable /\ ~ isLoading
  /\ Issue(<<Call("dmz", IF dmzMode = "0" THEN "1" ELSE "0")>>)
  /\ doubt' = (doubt \/ Has("status"))
  /\ UNCHANGED <<isLoading, boot, imeis, dmzMode, lan, lang, service, breaks>>

\* setDMZEnable and setDMZDisable show the mode they ask for at once; which of
\* the two is offered depends on the mode shown.
setDMZ ==
  /\ Clickable /\ ~ isLoading
  /\ LET mode == IF dmzMode = "0" THEN "1" ELSE "0"
     IN dmzMode' = mode /\ Issue(<<Call("dmz", mode)>>)
  /\ doubt' = (doubt \/ Has("status"))
  /\ UNCHANGED <<isLoading, boot, imeis, lan, lang, service, breaks>>

\* A form that is not filled in only takes the last success away.
setLANIP(complete) ==
  /\ Clickable /\ ~ isLoading /\ ~ isSavingLANIP
  /\ lanIpSaveSuccess' = FALSE
  /\ lanTimers' = IF lanNamed THEN lanTimers - 1 ELSE lanTimers
  /\ lanNamed' = FALSE
  /\ isSavingLANIP' = complete
  /\ Issue(IF complete THEN <<Plain("lanip")>> ELSE <<>>)
  /\ UNCHANGED <<isLoading, boot, imeis, dmz, lang, service, breaks>>

\* A language is chosen and saved: Lang uses it at once, the service stores it.
\* isSavingLanguage is set as long as the call is out.
saveLanguageSetting(chosen) ==
  /\ Clickable /\ ~ Has("set_language")
  /\ language' = chosen /\ currentLanguage' = chosen
  /\ langDoubt' = (langDoubt \/ Has("get_language"))
  /\ Issue(<<Call("set_language", chosen)>>)
  /\ UNCHANGED <<isLoading, boot, imeis, dmz, lan, service, breaks>>

-----------------------------------------------------------------------------
(* Answers. *)

\* The head of the calls is executed and answered: accepted, or refused with
\* ok = false or an error status, which resolves the promise as well.
Answered(action, accepted) ==
  /\ calls # <<>> /\ Head(calls).action = action
  /\ IF accepted THEN Executed(Head(calls)) ELSE UNCHANGED <<modem, serverLanguage>>
  /\ UNCHANGED <<late, acts, breaks>>

Answer == calls' = Tail(calls)

\* Mutant: a modem without a DMZ host names no mode.
resolveDmzModeRaw(mode, hasIp) == IF hasIp THEN "1" ELSE ""

resolveDmzMode(mode, hasIp) == IF hasIp \/ mode = "1" THEN "1" ELSE "0"

\* What the settings are read as: an answer of the cache, which may be older
\* than the last change, or the defaults of an answer that is pending or failed.
Readings == [imei : IMEIs, dmz : {"0", "1"}] \cup {[imei |-> NoImei, dmz |-> "0"]}

\* Mutant: the field is filled whatever it holds.
statusAnsweredFills(read) ==
  /\ Answered("status", TRUE) /\ Answer
  /\ dmzMode' = resolveDmzMode(read.dmz, read.dmz = "1")
  /\ doubt' = \/ read.dmz # modem.dmz \/ HasLate("dmz")
              \/ \E i \in 2..Len(calls) : calls[i].action = "dmz"
  /\ imei' = IF read.imei = NoImei THEN imei ELSE read.imei
  /\ newImei' = IF read.imei = NoImei THEN newImei ELSE read.imei
  /\ imeiDoubt' = (imeiDoubt \/ read.imei \notin {NoImei, modem.imei})
  /\ UNCHANGED <<isLoading, boot, typed, lan, lang>>

\* fetchCurrentSettings shows what was read.  An IMEI that was not read changes
\* nothing; the field of the new IMEI follows one that was as long as the user
\* typed no other.
statusAnswered(read) ==
  /\ Answered("status", TRUE) /\ Answer
  /\ dmzMode' = resolveDmzMode(read.dmz, read.dmz = "1")
  /\ doubt' = \/ read.dmz # modem.dmz \/ HasLate("dmz")
              \/ \E i \in 2..Len(calls) : calls[i].action = "dmz"
  /\ imei' = IF read.imei = NoImei THEN imei ELSE read.imei
  /\ newImei' = IF read.imei # NoImei /\ newImei \in {"", NoImei, imei}
                THEN read.imei ELSE newImei
  /\ imeiDoubt' = (imeiDoubt \/ read.imei \notin {NoImei, modem.imei})
  /\ UNCHANGED <<isLoading, boot, typed, lan, lang>>

\* Mutant: the answer reaches the page but not Lang.
languageLoadedPage(accepted) ==
  /\ Answered("get_language", accepted) /\ Answer
  /\ language' = IF accepted THEN serverLanguage ELSE currentLanguage
  /\ langDoubt' = (langDoubt /\ (accepted => Has("set_language") \/ HasLate("set_language")))
  /\ UNCHANGED <<isLoading, boot, imeis, dmz, lan, currentLanguage>>

\* fetchLanguageSetting through Lang.load, which resolves with the language in
\* use when none is answered.
languageLoaded(accepted) ==
  /\ Answered("get_language", accepted) /\ Answer
  /\ currentLanguage' = IF accepted THEN serverLanguage ELSE currentLanguage
  /\ language' = currentLanguage'
  /\ langDoubt' = (langDoubt /\ (accepted => Has("set_language") \/ HasLate("set_language")))
  /\ UNCHANGED <<isLoading, boot, imeis, dmz, lan>>

\* save resolves with the language it was called with, stored or not.
languageSaved(accepted) ==
  /\ Answered("set_language", accepted) /\ Answer
  /\ language' = Head(calls).arg
  /\ langDoubt' = (langDoubt \/ ~ accepted)
  /\ UNCHANGED <<isLoading, boot, imeis, dmz, lan, currentLanguage>>

loadingAnswered(action, accepted) ==
  /\ Answered(action, accepted)
  /\ isLoading' = FALSE
  /\ calls' = Tail(calls) \o (IF action = "set_ttl" THEN <<Plain("get_ttl")>> ELSE <<>>)
  /\ UNCHANGED <<boot, imeis, dmz, lan, lang>>

dmzAnswered(accepted) ==
  /\ Answered("dmz", accepted) /\ Answer
  /\ doubt' = (doubt \/ ~ accepted)
  /\ UNCHANGED <<isLoading, boot, imeis, dmzMode, lan, lang>>

lanipAnswered(accepted) ==
  /\ Answered("lanip", accepted) /\ Answer
  /\ isSavingLANIP' = FALSE
  /\ IF accepted
     THEN lanIpSaveSuccess' = TRUE /\ lanTimers' = lanTimers + 1 /\ lanNamed' = TRUE
     ELSE UNCHANGED <<lanIpSaveSuccess, lanTimers, lanNamed>>
  /\ UNCHANGED <<isLoading, boot, imeis, dmz, lang>>

\* The three seconds of a success.
lanSuccessOver ==
  /\ lanTimers > 0
  /\ lanTimers' = lanTimers - 1
  /\ lanIpSaveSuccess' = FALSE /\ lanNamed' = FALSE
  /\ UNCHANGED <<calls, isLoading, boot, imeis, dmz, isSavingLANIP, lang, service, acts, breaks>>

\* dns_proxy reads the settings again, unless the device reboots.
dnsAnswered ==
  /\ Answered("dns_proxy", TRUE)
  /\ calls' = Tail(calls) \o (IF isRebooted THEN <<Plain("status")>> ELSE <<>>)
  /\ UNCHANGED <<isLoading, boot, imeis, dmz, lan, lang>>

\* usbNetModeChanger offers a reboot when its call has succeeded.
usbnetAnswered ==
  /\ Answered("usbnet", TRUE) /\ Answer
  /\ showModal' = TRUE
  /\ UNCHANGED <<isLoading, isRebooting, isRebooted, countdown, ticking, named, settling,
                 raced, showImeiModal, imeis, dmz, lan, lang>>

\* handleRebootNotice: the countdown begins again with the service's answer.
passthroughAnswered ==
  /\ Answered("passthrough_off", TRUE) /\ Answer
  /\ startRebootCountdown
  /\ UNCHANGED <<isLoading, imeis, dmz, lan, lang>>

\* Calls whose answer the page does not use, or only shows.
otherAnswered ==
  /\ \E action \in {"reboot", "reset_at", "passthrough_on", "get_ttl"} : Answered(action, TRUE)
  /\ Answer
  /\ UNCHANGED <<isLoading, boot, imeis, dmz, lan, lang>>

\* The calls that change what the page shows.
Storing ==
  {c \in {calls[i] : i \in DOMAIN calls} : c.action \in {"set_imei", "dmz", "set_language"}}

\* Mutant: a failed call leaves the page loading.
BreakKeeps ==
  /\ calls # <<>> /\ breaks < MaxBreaks
  /\ breaks' = breaks + 1
  /\ calls' = <<>>
  /\ isSavingLANIP' = FALSE
  /\ doubt' = (doubt \/ Has("dmz"))
  /\ langDoubt' = (langDoubt \/ Has("set_language"))
  /\ late' = late \cup Storing
  /\ UNCHANGED <<modem, serverLanguage, isLoading, boot, imeis, dmzMode, lanIpSaveSuccess,
                 lanTimers, lanNamed, language, currentLanguage, acts>>

\* What the last of the calls about the language leaves selected, when all are
\* rejected: what it was to save, or what Lang uses.
LanguageLost(i) ==
  /\ calls[i].action \in {"get_language", "set_language"}
  /\ \A j \in DOMAIN calls : j > i => calls[j].action \notin {"get_language", "set_language"}

\* The connection breaks: every call is rejected, and may be executed later.
Break ==
  /\ calls # <<>> /\ breaks < MaxBreaks
  /\ breaks' = breaks + 1
  /\ calls' = <<>>
  /\ late' = late \cup Storing
  /\ isLoading' = (isLoading /\ \A action \in LoadingActions : ~ Has(action))
  /\ isSavingLANIP' = FALSE
  /\ doubt' = (doubt \/ Has("dmz"))
  /\ \/ ~ Has("get_language") /\ ~ Has("set_language") /\ UNCHANGED language
     \/ \E i \in DOMAIN calls :
          /\ LanguageLost(i)
          /\ language' = IF calls[i].action = "set_language" THEN calls[i].arg ELSE currentLanguage
  /\ langDoubt' = (langDoubt \/ Has("set_language"))
  /\ IF Has("passthrough_off") /\ ~ isRebooting THEN startRebootCountdown ELSE UNCHANGED boot
  /\ UNCHANGED <<modem, serverLanguage, imeis, dmzMode, lanIpSaveSuccess, lanTimers, lanNamed,
                 currentLanguage, acts>>

\* The service executes a request of a broken connection, or lost it; of equal
\* ones others may be left.
LateExecute ==
  \E c \in late :
    /\ Executed(c) \/ UNCHANGED <<modem, serverLanguage>>
    /\ late' \in {late, late \ {c}}
    /\ UNCHANGED <<calls, isLoading, boot, imeis, dmz, lan, lang, acts, breaks>>

-----------------------------------------------------------------------------
\* The page is mounted; Lang has the language stored in the browser, which may
\* differ from the service's, and no DMZ mode is known yet.
Init ==
  /\ modem \in [imei : FirstIMEIs, dmz : FirstModes]
  /\ serverLanguage \in FirstLanguages /\ late = {}
  /\ currentLanguage \in Languages /\ language = currentLanguage
  /\ calls = InitCalls
  /\ isLoading = FALSE
  /\ isRebooting = FALSE /\ isRebooted = TRUE /\ countdown = 0
  /\ ticking = 0 /\ named = FALSE /\ settling = 0 /\ raced = FALSE
  /\ showModal = FALSE /\ showImeiModal = FALSE
  /\ imei = NoImei /\ newImei = "" /\ typed = "" /\ imeiDoubt = FALSE
  /\ dmzMode = "0" /\ doubt = TRUE
  /\ isSavingLANIP = FALSE /\ lanIpSaveSuccess = FALSE /\ lanTimers = 0 /\ lanNamed = FALSE
  /\ langDoubt = TRUE
  /\ acts = 0 /\ breaks = 0

ServiceStep ==
  \/ \E read \in Readings : statusAnswered(read)
  \/ \E accepted \in BOOLEAN : languageLoaded(accepted)
  \/ \E accepted \in BOOLEAN : languageSaved(accepted)
  \/ \E action \in LoadingActions, accepted \in BOOLEAN : loadingAnswered(action, accepted)
  \/ \E accepted \in BOOLEAN : dmzAnswered(accepted)
  \/ \E accepted \in BOOLEAN : lanipAnswered(accepted)
  \/ dnsAnswered
  \/ usbnetAnswered
  \/ passthroughAnswered
  \/ otherAnswered

UserStep ==
  \/ rebootDevice \/ closeModal \/ openRebootModal
  \/ \E value \in IMEIs \cup {"", BadImei} : TypeImei(value)
  \/ openImeiModal \/ updateIMEI \/ closeImeiModal
  \/ sendATCommand \/ setTTL
  \/ ipPassThroughDisable
  \/ \E action \in {"dns_proxy", "usbnet", "passthrough_on"} : callOnly(action)
  \/ setDMZ
  \/ \E complete \in BOOLEAN : setLANIP(complete)
  \/ \E chosen \in Languages : saveLanguageSetting(chosen)

Next == ServiceStep \/ UserStep \/ Tick \/ Settled \/ lanSuccessOver \/ Break \/ LateExecute

Spec == Init /\ [][Next]_vars

\* Timers fire, and the service answers what reached it unless the connection
\* breaks; what it does after that it may do at any time or never.
FairSpec ==
  Spec /\ WF_vars(Tick) /\ WF_vars(Settled) /\ WF_vars(lanSuccessOver) /\ WF_vars(ServiceStep)

-----------------------------------------------------------------------------
(* Properties. *)

\* What the calls ask for.
Values == IMEIs \cup {"", BadImei}
Actions ==
  {"manual_at", "set_imei", "set_ttl", "status", "get_language", "set_language", "get_ttl",
   "dmz", "lanip", "dns_proxy", "usbnet", "passthrough_on", "passthrough_off", "reboot", "reset_at"}

Requests ==
  {c \in [action : Actions, arg : Values \cup Languages \cup {"0", "1"}] :
     /\ c.action = "set_imei" => c.arg \in Values
     /\ c.action = "set_language" => c.arg \in Languages
     /\ c.action = "dmz" => c.arg \in {"0", "1"}}

TypeOK ==
  /\ calls \in Seq(Requests)
  /\ {isLoading, isRebooting, isRebooted, named, raced, showModal, showImeiModal, doubt,
      imeiDoubt, isSavingLANIP, lanIpSaveSuccess, lanNamed, langDoubt} \subseteq BOOLEAN
  /\ countdown \in 0..Seconds
  /\ {ticking, settling, lanTimers} \subseteq Nat
  /\ imei \in IMEIs \cup {NoImei}
  /\ {newImei, typed} \subseteq Values
  /\ dmzMode \in {"0", "1"}
  /\ {language, currentLanguage, serverLanguage} \subseteq Languages
  /\ modem \in [imei : IMEIs, dmz : {"0", "1"}]
  /\ late \subseteq Requests
  /\ acts \in 0..MaxActs /\ breaks \in 0..MaxBreaks

\* One countdown runs while the overlay is up, the overlay is up only while the
\* device counts as rebooting, unless the countdown began in the five seconds
\* after an earlier one, and a page that waits for the device has a timer that
\* ends the waiting (pages/settings.js:171-196, :180, :328).
CountdownRight ==
  /\ ticking = (IF isRebooting THEN 1 ELSE 0) /\ (isRebooting <=> named)
  /\ isRebooting /\ ~ raced => ~ isRebooted
  /\ ~ isRebooted /\ ~ isRebooting => settling > 0

\* The success of a LAN change is taken away by one timer, its own
\* (pages/settings.js:416-455).
LanSuccessTimed == lanTimers = (IF lanIpSaveSuccess THEN 1 ELSE 0) /\ (lanNamed <=> lanIpSaveSuccess)

\* No timer of the page is lost and none runs twice, however reboots, answers
\* and saves follow one another: the two above.
TimersRight == CountdownRight /\ LanSuccessTimed

\* Once the page has read the modem's own mode it shows that mode, or after the
\* user's changes the last one, as soon as their calls are answered, until the
\* modem refuses one, the connection breaks on one, one is issued while a status
\* is under way, or a status read is not the modem's: an older answer of the
\* cache, or none, which shows "0" whatever the modem is in.  A request of a
\* broken connection that may still be executed keeps the mode unconfirmed
\* (pages/settings.js:326-415, structured_api.go:342-344, :985).
DmzShown == ~ doubt /\ ~ Has("dmz") => dmzMode = modem.dmz

\* When no language call is out the selection, the language in use and the
\* service's file agree, unless a save failed, may still be executed after its
\* connection broke, or was issued with a load under way, and none was loaded
\* since; a load that fails leaves what agreed (simpleadmin-core.js:944-982).
LanguageAgrees ==
  ~ langDoubt /\ ~ Has("get_language") /\ ~ Has("set_language")
    => language = currentLanguage /\ currentLanguage = serverLanguage

\* What the page asks the user to confirm is what the user typed, whatever
\* status arrives meanwhile; only a field emptied under the dialog is filled
\* again, and one that holds what the page takes for the modem's IMEI though it
\* is not: an answer older than a change, or a change that is still under way
\* (pages/settings.js:214-243, :342-349).
ImeiConfirmed == showImeiModal /\ typed # "" /\ ~ imeiDoubt => newImei = typed

\* The page shows the user what is stored, and asks for what the user typed,
\* in whatever order answers and acts come: the three above.
ShownIsTrue == DmzShown /\ LanguageAgrees /\ ImeiConfirmed

\* The page does not stay covered, or disabled by a call that is gone: it comes
\* back from every reboot and every failure (pages/settings.js:147-242).
PageRecovers == []<>(~ isRebooting /\ isRebooted /\ ~ isLoading /\ ~ isSavingLANIP)
=============================================================================
