---------------------------- MODULE NetworkPage ----------------------------
(***************************************************************************)
(* The network page (pages/network.js, populate-checkbox.js, band_map.js): *)
(* reading the model and the locked bands, locking bands, changing the     *)
(* network settings, scanning for cells and locking them.                  *)
(*                                                                         *)
(* Every flow of the page awaits a call, shows an overlay for three        *)
(* seconds and reads the bands and the settings again.  Only the overlay   *)
(* keeps the user from the page: while a call is out every button but      *)
(* those of the scan works, so several flows run at once and share the     *)
(* countdown, the flags of what is being read and the retry timers.  The   *)
(* service executes and answers the calls of the connection one after      *)
(* another; a break rejects all of them, and what the service had received *)
(* it may still execute later (module ApiChannel).  A forced read returns  *)
(* what the modem has when it is executed (module ATCache).                *)
(***************************************************************************)
EXTENDS Integers, FiniteSets, SequencesExt

CONSTANTS
  Modes,        \* the band modes: LTE, NSA, SA
  Bands,        \* the bands listed while the model is not known
  ModelBands,   \* the bands of this model
  CellKeys,     \* what identifies a cell on the page: its PCI and provider
  Seconds,      \* length of a countdown
  RetryLimit,   \* retries of a band query
  ModelTries,   \* tries of getModel
  LockLimit,    \* LTE cells one request may lock
  MaxCells,     \* pairs of the manual form
  MaxBandActs,  \* bound: acts of a user who works with the bands
  MaxScanActs,  \* bound: acts of a user who scans and locks cells
  MaxFormActs,  \* bound: acts of a user who fills the form of the manual lock
  MaxFails,     \* bound: band queries answered with pending or an error
  MaxBreaks     \* bound: breaks of the connection

ASSUME NetworkAssumption ==
  /\ {"ALL", "settings", "init"} \cap Modes = {}
  /\ ModelBands \subseteq Bands /\ ModelBands # {}
  /\ {Seconds, RetryLimit, MaxBandActs, MaxScanActs, MaxFormActs, MaxFails, MaxBreaks} \subseteq Nat
  /\ {ModelTries, MaxCells} \subseteq Nat \ {0}

VARIABLES
  calls,                \* calls issued and not answered, oldest first
  inFlight,             \* _bandsFetchInFlight and _currentSettingsFetchInFlight
  isGettingBands,
  model, modelFetch,    \* the model, and what getModel is doing
  listed,               \* the bands the check boxes are for; none at first
  loaded, locked,       \* locked_<mode>_bands: which are not null, and their values
  ticks,                \* the check boxes that are ticked
  retryCount, retryTimers,
  showModal, countdown,
  loops,                \* countdown loops that run, by what they are followed by
  scanMode, isLoading, resultDoneCell,
  parsed,               \* the cells of the last scan, by network
  rows,                 \* the cells of the table
  selectedCells,
  networkModeCell, cellNum, fields, nrFields,   \* the form of the manual lock
  modem,                \* the bands the modem is locked to
  late,                 \* locks of broken connections the service may still execute
  edited,               \* history: modes ticked by the user since they were drawn
  doubt,                \* history: modes whose lock or query went unanswered
  carried,              \* history: the selection was not made in this table
  panel,                \* bound: the part of the page the user works with
  acts, fails, breaks

queries == <<inFlight, isGettingBands, model, modelFetch>>
bandsShown == <<listed, ticks, edited>>
lockedBands == <<loaded, locked>>
retries == <<retryCount, retryTimers>>
overlay == <<showModal, countdown, loops>>
scan == <<scanMode, isLoading, resultDoneCell, parsed, rows, selectedCells, carried>>
form == <<networkModeCell, cellNum, fields, nrFields>>
bounds == <<panel, acts, fails, breaks>>
vars == <<calls, queries, bandsShown, lockedBands, retries, overlay, scan, form, modem,
          late, doubt, bounds>>

-----------------------------------------------------------------------------
(* Calls and the flags of what is being read. *)

All == "ALL"
Settings == "settings"
Keys == Modes \cup {All}

Call(action, key, arg, todo) == [action |-> action, key |-> key, arg |-> arg, todo |-> todo]
Request(action, key, arg) == Call(action, key, arg, <<>>)

Has(action) == \E i \in DOMAIN calls : calls[i].action = action

ModesOf(key) == IF key = All THEN Modes ELSE {key}

\* The modes a lock may still change that the page no longer waits for.
LateModes == UNION {ModesOf(c.key) : c \in late}

lockedBandsLoaded(key) == ModesOf(key) \subseteq loaded

Query(key) == Request(IF key = Settings THEN Settings ELSE "bands", key, {})

\* A query that is out already is used again.
Ask(pending, key) == IF key \in inFlight THEN pending ELSE Append(pending, Query(key))

\* getSupportedBands with force.
ReadBands(pending, key) ==
  /\ calls' = Ask(pending, key)
  /\ inFlight' = inFlight \cup {key}
  /\ isGettingBands' = (isGettingBands \/ key \notin inFlight)

\* The same, and getCurrentSettings.
ReadAgain(pending, key) ==
  /\ calls' = Ask(Ask(pending, key), Settings)
  /\ inFlight' = inFlight \cup {key, Settings}
  /\ isGettingBands' = (isGettingBands \/ key \notin inFlight)

-----------------------------------------------------------------------------
(* Check boxes. *)

getBandsForModel(m) == IF m = "-" THEN Bands ELSE ModelBands

\* populateCheckboxes: boxes for the model's bands, ticked where the lock has
\* them; a lock that is not known ticks none.
renderBandCheckboxes(m, lock) ==
  /\ listed' = getBandsForModel(m)
  /\ ticks' = [mode \in Modes |-> lock[mode] \cap getBandsForModel(m)]
  /\ edited' = {}

-----------------------------------------------------------------------------
(* The model and the start of the page. *)

Idle == [state |-> "idle", attempt |-> 0]

\* What init does once getModel has answered.
ModelReady(pending, m) ==
  /\ model' = m /\ modelFetch' = Idle
  /\ renderBandCheckboxes(m, locked)
  /\ ReadAgain(pending, All)

\* init; a getModel that runs is joined, one that failed fails again.
Start(pending) ==
  \/ /\ model # "-"
     /\ ModelReady(pending, model)
  \/ /\ model = "-" /\ modelFetch.state = "idle"
     /\ modelFetch' = [state |-> "asking", attempt |-> 0]
     /\ calls' = Append(pending, Request("model", All, {}))
     /\ UNCHANGED <<inFlight, isGettingBands, model, bandsShown>>
  \/ /\ model = "-" /\ modelFetch.state # "idle"
     /\ calls' = pending
     /\ UNCHANGED <<queries, bandsShown>>

\* Mutant: of a model that was not found the page is not told.
modelAnsweredSilent(outcome) ==
  /\ calls # <<>> /\ Head(calls).action = "model"
  /\ IF outcome = "known" THEN ModelReady(Tail(calls), "RM520N")
     ELSE /\ calls' = Tail(calls)
          /\ modelFetch' = IF outcome = "none" /\ modelFetch.attempt >= 1 THEN Idle
                           ELSE [modelFetch EXCEPT !.state = "asleep"]
          /\ UNCHANGED <<inFlight, isGettingBands, model, bandsShown>>
  /\ UNCHANGED <<lockedBands, retries, overlay, scan, form, modem, late, doubt, bounds>>

\* The service knows the model, or not, or not yet; without one the page goes
\* on after the second answer, or after the last try.
modelAnswered(outcome) ==
  /\ calls # <<>> /\ Head(calls).action = "model"
  /\ CASE outcome = "known" -> ModelReady(Tail(calls), "RM520N")
       [] outcome = "none" /\ modelFetch.attempt >= 1 -> ModelReady(Tail(calls), model)
       [] OTHER -> /\ calls' = Tail(calls)
                   /\ modelFetch' = [modelFetch EXCEPT !.state = "asleep"]
                   /\ UNCHANGED <<inFlight, isGettingBands, model, bandsShown>>
  /\ UNCHANGED <<lockedBands, retries, overlay, scan, form, modem, late, doubt, bounds>>

modelWakes ==
  /\ modelFetch.state = "asleep"
  /\ IF modelFetch.attempt + 1 = ModelTries THEN ModelReady(calls, model)
     ELSE /\ modelFetch' = [state |-> "asking", attempt |-> modelFetch.attempt + 1]
          /\ calls' = Append(calls, Request("model", All, {}))
          /\ UNCHANGED <<inFlight, isGettingBands, model, bandsShown>>
  /\ UNCHANGED <<lockedBands, retries, overlay, scan, form, modem, late, doubt, bounds>>

-----------------------------------------------------------------------------
(* The answers of what is read. *)

\* A query of the bands is answered with the lock, or with pending or an error:
\* then the boxes are drawn with what is known, and a retry is scheduled.
bandsAnswered(known) ==
  /\ calls # <<>> /\ Head(calls).action = "bands"
  /\ calls' = Tail(calls)
  /\ LET key == Head(calls).key
         retried == retryCount[key] < RetryLimit
         lock == [mode \in Modes |-> IF known /\ mode \in ModesOf(key) THEN modem[mode]
                                     ELSE locked[mode]]
     IN /\ inFlight' = inFlight \ {key}
        /\ isGettingBands' = (inFlight' \ {Settings} # {})
        /\ locked' = lock
        /\ loaded' = IF known THEN loaded \cup ModesOf(key) ELSE loaded
        /\ renderBandCheckboxes(model, lock)
        /\ IF known
           THEN /\ retryCount' = [retryCount EXCEPT ![key] = 0]
                /\ doubt' = doubt \ (ModesOf(key) \ LateModes)
                /\ UNCHANGED <<retryTimers, fails>>
           ELSE /\ fails < MaxFails /\ fails' = fails + 1
                /\ retryCount' = [retryCount EXCEPT ![key] = IF retried THEN @ + 1 ELSE @]
                /\ retryTimers' = IF retried THEN retryTimers \cup {key} ELSE retryTimers
                /\ doubt' = IF retried THEN doubt ELSE doubt \cup ModesOf(key)
  /\ UNCHANGED <<model, modelFetch, overlay, scan, form, modem, late, panel, acts, breaks>>

retryFires(key) ==
  /\ key \in retryTimers
  /\ retryTimers' = retryTimers \ {key}
  /\ IF lockedBandsLoaded(key) THEN UNCHANGED <<calls, inFlight, isGettingBands>>
     ELSE ReadBands(calls, key)
  /\ UNCHANGED <<model, modelFetch, bandsShown, lockedBands, retryCount, overlay, scan, form,
                 modem, late, doubt, bounds>>

settingsAnswered ==
  /\ calls # <<>> /\ Head(calls).action = Settings
  /\ calls' = Tail(calls)
  /\ inFlight' = inFlight \ {Settings}
  /\ UNCHANGED <<isGettingBands, model, modelFetch, bandsShown, lockedBands, retries, overlay,
                 scan, form, modem, late, doubt, bounds>>

-----------------------------------------------------------------------------
(* The countdown: one number for all the loops that count it down. *)

startModalCountdown(then, n) ==
  /\ showModal' = TRUE /\ countdown' = Seconds
  /\ loops' = [loops EXCEPT ![then] = @ + n]

\* A loop wakes after a second; the one that finds the countdown over lifts the
\* overlay and goes on with its flow.
LoopWakes(then) ==
  /\ loops[then] > 0
  /\ countdown' = countdown - 1
  /\ IF countdown' > 0
     THEN UNCHANGED <<calls, queries, bandsShown, showModal, loops>>
     ELSE /\ showModal' = FALSE
          /\ loops' = [loops EXCEPT ![then] = @ - 1]
          /\ IF then = "init" THEN Start(calls)
             ELSE /\ ReadAgain(calls, then)
                  /\ UNCHANGED <<model, modelFetch, bandsShown>>
  /\ UNCHANGED <<lockedBands, retries, scan, form, modem, late, doubt, bounds>>

-----------------------------------------------------------------------------
(* The user and the bands. *)

MaxActs(part) ==
  CASE part = "bands" -> MaxBandActs [] part = "scan" -> MaxScanActs [] OTHER -> MaxFormActs

\* The overlay is down.
Act(part) ==
  /\ panel = part /\ acts < MaxActs(part) /\ acts' = acts + 1
  /\ ~ showModal
  /\ UNCHANGED <<panel, fails, breaks>>

Click(part, request) ==
  /\ Act(part)
  /\ calls' = Append(calls, request)
  /\ UNCHANGED <<queries, bandsShown, lockedBands, retries, overlay, scan, form, modem, late,
                 doubt>>

\* A box, and toggleBandCheckboxes, which ticks all of a mode or, if they are,
\* none.
Tick(mode, boxes) ==
  /\ Act("bands") /\ listed # {}
  /\ ticks' = [ticks EXCEPT ![mode] = boxes]
  /\ edited' = edited \cup {mode}
  /\ UNCHANGED <<calls, queries, listed, lockedBands, retries, overlay, scan, form, modem, late,
                 doubt>>

clickBox(mode, band) ==
  /\ band \in listed
  /\ Tick(mode, (ticks[mode] \cup {band}) \ (ticks[mode] \cap {band}))

toggleBandCheckboxes(mode) == Tick(mode, IF ticks[mode] = listed THEN {} ELSE listed)

lockSelectedBandsForMode(mode) ==
  /\ ticks[mode] # {}
  /\ Click("bands", Request("lock_bands", mode, ticks[mode]))

resetBandLocking == Click("bands", Request("reset_bands", All, listed))

\* saveChanges with a change made.
saveChanges == Click("bands", Request("change", All, {}))

\* What a lock or a reset that is accepted does to the modem.
Executed(c) ==
  modem' = CASE c.action = "lock_bands" -> [modem EXCEPT ![c.key] = c.arg]
             [] c.action = "reset_bands" -> [mode \in Modes |-> c.arg]
             [] OTHER -> modem

\* Mutant: the answer of a lock leaves what was read before it.
lockAnsweredKeeps(accepted) ==
  /\ calls # <<>> /\ Head(calls).action \in {"lock_bands", "reset_bands"}
  /\ IF accepted THEN Head(calls).arg # {} /\ Executed(Head(calls)) ELSE UNCHANGED modem
  /\ calls' = Tail(calls)
  /\ startModalCountdown(Head(calls).key, 1)
  /\ UNCHANGED <<queries, bandsShown, lockedBands, retries, scan, form, late, doubt, bounds>>

\* The lock or the reset was answered, accepted or not: what the page knew of
\* it is void.
lockAnswered(accepted) ==
  /\ calls # <<>> /\ Head(calls).action \in {"lock_bands", "reset_bands"}
  /\ IF accepted THEN Head(calls).arg # {} /\ Executed(Head(calls)) ELSE UNCHANGED modem
  /\ calls' = Tail(calls)
  /\ loaded' = loaded \ ModesOf(Head(calls).key)
  /\ locked' = [mode \in Modes |-> IF mode \in ModesOf(Head(calls).key) THEN {} ELSE locked[mode]]
  /\ startModalCountdown(Head(calls).key, 1)
  /\ UNCHANGED <<queries, bandsShown, retries, scan, form, late, doubt, bounds>>

\* A change of the settings or of a manual lock: the page starts again.
changeAnswered ==
  /\ calls # <<>> /\ Head(calls).action = "change"
  /\ calls' = Tail(calls)
  /\ startModalCountdown("init", 1)
  /\ UNCHANGED <<queries, bandsShown, lockedBands, retries, scan, form, modem, late, doubt, bounds>>

-----------------------------------------------------------------------------
(* Scanning for cells and locking those selected.  A cell is what identifies
   it on the page and what it is locked by, its frequency. *)

NoCell == [key |-> "-", freq |-> 0]
Networks == {"LTE", "NR"}
ScanModes == Networks \cup {"Full", "Unspecified"}
NoCells == [network \in Networks |-> <<>>]

\* The lists a scan may bring; two cells may not be told apart by their key.
CellLists ==
  {<<>>} \cup {<<[key |-> k, freq |-> 1], [key |-> l, freq |-> 2]>> : k, l \in CellKeys}

Table(cells, mode) ==
  CASE mode = "Full" -> cells["NR"] \o cells["LTE"]
    [] mode = "NR" -> cells["NR"]
    [] OTHER -> cells["LTE"]

Shown == {rows[i] : i \in DOMAIN rows}
Selected == Range(selectedCells)

selectScanMode(mode) ==
  /\ Act("scan") /\ mode \notin {scanMode, "Unspecified"}
  /\ scanMode' = mode
  /\ carried' = (rows # <<>> \/ selectedCells # <<>> \/ isLoading)
  /\ UNCHANGED <<calls, queries, bandsShown, lockedBands, retries, overlay, isLoading,
                 resultDoneCell, parsed, rows, selectedCells, form, modem, late, doubt>>

startCellScan ==
  /\ Act("scan") /\ ~ isLoading /\ scanMode # "Unspecified"
  /\ parsed' = NoCells /\ isLoading' = TRUE
  /\ calls' = Append(calls, Request("scan", scanMode, {}))
  /\ carried' = (selectedCells # <<>>)
  /\ UNCHANGED <<queries, bandsShown, lockedBands, retries, overlay, scanMode, resultDoneCell,
                 rows, selectedCells, form, modem, late, doubt>>

\* The lists of the scan that was asked for, drawn as the mode says by now.
scanAnswered ==
  /\ calls # <<>> /\ Head(calls).action = "scan"
  /\ calls' = Tail(calls)
  /\ \E cells \in [Networks -> CellLists] :
       /\ \A network \in Networks :
            Head(calls).key \notin {"Full", network} => cells[network] = <<>>
       /\ parsed' = cells /\ rows' = Table(cells, scanMode)
  /\ isLoading' = FALSE /\ resultDoneCell' = TRUE
  /\ UNCHANGED <<queries, bandsShown, lockedBands, retries, overlay, scanMode, selectedCells,
                 carried, form, modem, late, doubt, bounds>>

\* Mutant: of the NR cells more than one may be selected.
toggleCellSelectionMany(key) ==
  /\ Act("scan") /\ key \in {cell.key : cell \in Shown}
  /\ selectedCells' = IF key \in Selected THEN SelectSeq(selectedCells, LAMBDA k : k # key)
                      ELSE Append(selectedCells, key)
  /\ carried' = (selectedCells' # <<>> /\ (carried \/ isLoading \/ rows # Table(parsed, scanMode)))
  /\ UNCHANGED <<calls, queries, bandsShown, lockedBands, retries, overlay, scanMode, isLoading,
                 resultDoneCell, parsed, rows, form, modem, late, doubt>>

\* A click on a row: one NR cell at most, any LTE cells, and none in a table of
\* both.
toggleCellSelection(key) ==
  /\ Act("scan") /\ key \in {cell.key : cell \in Shown}
  /\ \/ scanMode = "NR" /\ selectedCells' = IF key \in Selected THEN <<>> ELSE <<key>>
     \/ scanMode = "LTE" /\ key \notin Selected /\ selectedCells' = Append(selectedCells, key)
     \/ /\ scanMode = "LTE"
        /\ \E i \in DOMAIN selectedCells :
             selectedCells[i] = key /\ selectedCells' = RemoveAt(selectedCells, i)
  /\ carried' = (selectedCells' # <<>> /\ (carried \/ isLoading \/ rows # Table(parsed, scanMode)))
  /\ UNCHANGED <<calls, queries, bandsShown, lockedBands, retries, overlay, scanMode, isLoading,
                 resultDoneCell, parsed, rows, form, modem, late, doubt>>

clearTableRowsBodyCellScan ==
  /\ Act("scan") /\ ~ isLoading /\ resultDoneCell
  /\ parsed' = NoCells /\ rows' = <<>> /\ resultDoneCell' = FALSE
  /\ carried' = (selectedCells # <<>>)
  /\ UNCHANGED <<calls, queries, bandsShown, lockedBands, retries, overlay, scanMode, isLoading,
                 selectedCells, form, modem, late, doubt>>

\* The first cell of the network's list with the key.
getCellDetails(key, network) ==
  LET cells == parsed[network]
      found == {i \in DOMAIN cells : cells[i].key = key}
  IN IF found = {} THEN NoCell ELSE cells[Min(found)]

CellsAsked(network) == {getCellDetails(key, network) : key \in Selected}

\* The next NR cell; the mode is read again for each, and the cells are those
\* selected when the lock began.
LockNext(keys) == Call("lock_cells", scanMode, {getCellDetails(Head(keys), "NR")}, Tail(keys))

\* NR cells are locked by one request each, LTE cells by one together.
lockSelectedCells ==
  /\ selectedCells # <<>> /\ ~ isLoading
  /\ \/ scanMode = "NR" /\ Click("scan", LockNext(selectedCells))
     \/ /\ scanMode = "LTE" /\ Len(selectedCells) <= LockLimit
        /\ Click("scan", Request("lock_cells", scanMode, CellsAsked("LTE")))
     \/ /\ scanMode = "Full" /\ Act("scan")
        /\ startModalCountdown("init", 1)
        /\ UNCHANGED <<calls, queries, bandsShown, lockedBands, retries, scan, form, modem, late,
                       doubt>>

lockCellsAnswered ==
  /\ calls # <<>> /\ Head(calls).action = "lock_cells"
  /\ IF Head(calls).todo # <<>>
     THEN calls' = Append(Tail(calls), LockNext(Head(calls).todo)) /\ UNCHANGED overlay
     ELSE calls' = Tail(calls) /\ startModalCountdown("init", 1)
  /\ UNCHANGED <<queries, bandsShown, lockedBands, retries, scan, form, modem, late, doubt, bounds>>

-----------------------------------------------------------------------------
(* The manual lock.  The first pair is the NR form's as well. *)

Forms == {"-", "LTE", "NR5G-SA", "unlock LTE", "unlock NR5G-SA"}
PairFields == {"earfcn", "pci"}
FieldsUpTo(count) == (1..count) \X PairFields

Fill(newForm, count, filled) ==
  /\ Act("form")
  /\ networkModeCell' = newForm /\ cellNum' = count /\ fields' = filled
  /\ UNCHANGED <<calls, queries, bandsShown, lockedBands, retries, overlay, scan, nrFields,
                 modem, late, doubt>>

onNetworkModeCellChange(newForm) ==
  /\ newForm \notin {networkModeCell, "-"}
  /\ IF newForm = "LTE" THEN Fill(newForm, 0, {}) ELSE Fill(newForm, cellNum, fields)

\* Mutant: the number typed is not limited.
getLteCellCountFree(typed) == typed

getLteCellCount(typed) == IF typed > MaxCells THEN MaxCells ELSE typed

\* Mutant: fewer cells leave the values of the others.
normalizeLteCellCountKeeps(typed) ==
  /\ networkModeCell = "LTE"
  /\ Fill("LTE", getLteCellCount(typed), IF typed = 0 THEN {} ELSE fields)

\* The number of cells is typed: it is limited, and what lies beyond is emptied.
normalizeLteCellCount(typed) ==
  /\ networkModeCell = "LTE"
  /\ Fill("LTE", getLteCellCount(typed), fields \cap FieldsUpTo(getLteCellCount(typed)))

\* A visible field is filled, or emptied.
setManualValue(field) ==
  /\ field \in (CASE networkModeCell = "LTE" -> FieldsUpTo(cellNum)
                  [] networkModeCell = "NR5G-SA" -> FieldsUpTo(1)
                  [] OTHER -> {})
  /\ Fill(networkModeCell, cellNum, (fields \cup {field}) \ (fields \cap {field}))

\* scs and band of the NR form.
fillNR ==
  /\ Act("form") /\ networkModeCell = "NR5G-SA"
  /\ nrFields' = TRUE
  /\ UNCHANGED <<calls, queries, bandsShown, lockedBands, retries, overlay, scan,
                 networkModeCell, cellNum, fields, modem, late, doubt>>

cellLockEnableLTE ==
  /\ networkModeCell = "LTE" /\ cellNum > 0 /\ FieldsUpTo(cellNum) \subseteq fields
  /\ Click("form", Request("change", All, {}))

cellLockEnableNR ==
  /\ networkModeCell = "NR5G-SA" /\ FieldsUpTo(1) \subseteq fields /\ nrFields
  /\ Click("form", Request("change", All, {}))

\* cellLockDisableLTE and cellLockDisableNR.
cellLockDisable ==
  /\ networkModeCell \in {"unlock LTE", "unlock NR5G-SA"}
  /\ Click("form", Request("change", All, {}))

-----------------------------------------------------------------------------
\* The connection breaks: every call is rejected, and may be executed later.
\* The queries are forgotten and not tried again, a model that was asked for is
\* never asked for again, and only a lock of cells goes on.
Break ==
  /\ calls # <<>> /\ breaks < MaxBreaks /\ breaks' = breaks + 1
  /\ late' = late \cup {c \in Range(calls) : c.action \in {"lock_bands", "reset_bands"}}
  /\ LET locks == {i \in DOMAIN calls : calls[i].action = "lock_cells"}
         going == {i \in locks : calls[i].todo # <<>>}
     IN /\ \E order \in [1..Cardinality(going) -> going] :
             /\ \A i, j \in DOMAIN order : i < j => order[i] < order[j]
             /\ calls' = [i \in DOMAIN order |-> LockNext(calls[order[i]].todo)]
        /\ IF locks = going THEN UNCHANGED overlay
           ELSE startModalCountdown("init", Cardinality(locks \ going))
  /\ inFlight' = {} /\ isGettingBands' = FALSE
  /\ modelFetch' = IF Has("model") THEN [modelFetch EXCEPT !.state = "rejected"] ELSE modelFetch
  /\ isLoading' = FALSE
  /\ doubt' = doubt \cup {mode \in Modes : \E i \in DOMAIN calls :
                 calls[i].action \in {"bands", "lock_bands", "reset_bands"}
                 /\ mode \in ModesOf(calls[i].key)}
  /\ carried' = (carried \/ (isLoading /\ selectedCells # <<>>))
  /\ UNCHANGED <<model, bandsShown, lockedBands, retries, scanMode, resultDoneCell, parsed,
                 rows, selectedCells, form, modem, panel, acts, fails>>

\* The service executes a lock or a reset of a broken connection, or lost it or
\* had it refused; of equal ones others may be left.
LateExecute ==
  \E c \in late :
    /\ (c.arg # {} /\ Executed(c)) \/ UNCHANGED modem
    /\ late' \in {late, late \ {c}}
    /\ UNCHANGED <<calls, queries, bandsShown, lockedBands, retries, overlay, scan, form, doubt,
                   bounds>>

OneBand == {CHOOSE band \in ModelBands : TRUE}

\* The page is mounted; the modem is locked to all bands of a mode or to one.
Init ==
  /\ panel \in {"bands", "scan", "form"}
  /\ modem \in [Modes -> {ModelBands, OneBand}]
  /\ panel # "bands" => modem = [mode \in Modes |-> ModelBands]
  /\ calls = <<Request("model", All, {})>>
  /\ model = "-" /\ modelFetch = [state |-> "asking", attempt |-> 0]
  /\ inFlight = {} /\ isGettingBands = FALSE
  /\ listed = {} /\ ticks = [mode \in Modes |-> {}] /\ edited = {}
  /\ loaded = {} /\ locked = [mode \in Modes |-> {}]
  /\ retryCount = [key \in Keys |-> 0] /\ retryTimers = {}
  /\ showModal = FALSE /\ countdown = 0
  /\ loops = [then \in Keys \cup {"init"} |-> 0]
  /\ scanMode = "Unspecified" /\ isLoading = FALSE /\ resultDoneCell = FALSE
  /\ parsed = NoCells /\ rows = <<>> /\ selectedCells = <<>> /\ carried = FALSE
  /\ networkModeCell = "-" /\ cellNum = 0 /\ fields = {} /\ nrFields = FALSE
  /\ late = {} /\ doubt = {} /\ acts = 0 /\ fails = 0 /\ breaks = 0

ServiceStep ==
  \/ \E outcome \in {"known", "pending", "none"} : modelAnswered(outcome)
  \/ bandsAnswered(TRUE)
  \/ settingsAnswered
  \/ \E accepted \in BOOLEAN : lockAnswered(accepted)
  \/ changeAnswered
  \/ scanAnswered
  \/ lockCellsAnswered

UserStep ==
  \/ \E mode \in Modes, band \in Bands : clickBox(mode, band)
  \/ \E mode \in Modes : toggleBandCheckboxes(mode) \/ lockSelectedBandsForMode(mode)
  \/ resetBandLocking
  \/ saveChanges
  \/ \E mode \in ScanModes : selectScanMode(mode)
  \/ startCellScan
  \/ \E key \in CellKeys : toggleCellSelection(key)
  \/ clearTableRowsBodyCellScan
  \/ lockSelectedCells
  \/ \E newForm \in Forms : onNetworkModeCellChange(newForm)
  \/ \E typed \in 0..(MaxCells + 1) : normalizeLteCellCount(typed)
  \/ \E field \in FieldsUpTo(MaxCells) : setManualValue(field)
  \/ fillNR
  \/ cellLockEnableLTE \/ cellLockEnableNR \/ cellLockDisable

TimerStep ==
  \/ modelWakes
  \/ \E key \in Keys : retryFires(key)
  \/ \E then \in Keys \cup {"init"} : LoopWakes(then)

Next ==
  ServiceStep \/ bandsAnswered(FALSE) \/ UserStep \/ TimerStep \/ Break \/ LateExecute

Spec == Init /\ [][Next]_vars

\* The service answers what reached it, and timers fire.
FairSpec ==
  /\ Spec
  /\ WF_vars(ServiceStep) /\ WF_vars(modelWakes)
  /\ \A key \in Keys : WF_vars(retryFires(key))
  /\ \A then \in Keys \cup {"init"} : WF_vars(LoopWakes(then))

-----------------------------------------------------------------------------
(* Properties. *)

TypeOK ==
  /\ \A i \in DOMAIN calls :
       /\ calls[i].action \in {"model", Settings, "bands", "lock_bands", "reset_bands", "change",
                               "scan", "lock_cells"}
       /\ calls[i].key \in Keys \cup {Settings} \cup ScanModes
       /\ \A j \in DOMAIN calls[i].todo : calls[i].todo[j] \in CellKeys
  /\ inFlight \subseteq Keys \cup {Settings}
  /\ {isGettingBands, showModal, isLoading, resultDoneCell, carried, nrFields} \subseteq BOOLEAN
  /\ model \in {"-", "RM520N"}
  /\ modelFetch.state \in {"idle", "asking", "asleep", "rejected"}
  /\ modelFetch.attempt \in 0..(ModelTries - 1)
  /\ listed \in {{}, Bands, ModelBands}
  /\ loaded \subseteq Modes /\ edited \subseteq Modes /\ doubt \subseteq Modes
  /\ \A c \in late : /\ c.action \in {"lock_bands", "reset_bands"} /\ c.key \in Keys
                    /\ c.arg \subseteq Bands
  /\ locked \in [Modes -> SUBSET Bands] /\ modem \in [Modes -> SUBSET Bands]
  /\ ticks \in [Modes -> SUBSET listed]
  /\ retryCount \in [Keys -> 0..RetryLimit] /\ retryTimers \subseteq Keys
  /\ countdown \in Int /\ countdown <= Seconds
  /\ loops \in [Keys \cup {"init"} -> Nat]
  /\ scanMode \in ScanModes
  /\ parsed \in [Networks -> CellLists]
  /\ \A key \in Selected : key \in CellKeys
  /\ networkModeCell \in Forms
  /\ cellNum \in 0..MaxCells /\ fields \subseteq FieldsUpTo(MaxCells)

\* Of each query at most one is out, its flag is set exactly as long, and the
\* page says that it is reading bands exactly while it does (pages/network.js
\* :405-432, :487-505).
QueriesOnce ==
  /\ \A key \in Keys \cup {Settings} :
       LET out == {i \in DOMAIN calls : calls[i].action \in {"bands", Settings} /\ calls[i].key = key}
       IN Cardinality(out) = IF key \in inFlight THEN 1 ELSE 0
  /\ isGettingBands <=> inFlight \ {Settings} # {}
  /\ modelFetch.state = "asking" <=> Has("model")
  /\ showModal => \E then \in DOMAIN loops : loops[then] > 0

\* Nothing is out and nothing will be without the user.
Quiet ==
  /\ calls = <<>> /\ retryTimers = {} /\ modelFetch.state # "asleep"
  /\ \A then \in DOMAIN loops : loops[then] = 0

\* When nothing is under way the boxes are ticked as the modem is locked, after
\* any locks, refusals, resets and pending answers and in any order of theirs,
\* unless the user has ticked since, the last call for the mode was lost, a lost
\* lock may still be executed, or all retries were used up (pages/network.js
\* :378-432, :517-552; README.md:218).
TicksShowLock ==
  Quiet /\ listed # {} =>
    \A mode \in Modes \ (edited \cup doubt) : ticks[mode] = modem[mode] \cap listed

\* The two above.
BandsRight == QueriesOnce /\ TicksShowLock

\* A lock asks for cells the table shows ticked, and for one at most of NR
\* (pages/network.js:166), as long as the selection was made in this table.
SelectionShown ==
  selectedCells # <<>> /\ ~ carried /\ ~ isLoading =>
    /\ scanMode \in Networks
    /\ CellsAsked(scanMode) \subseteq {cell \in Shown : cell.key \in Selected}
    /\ scanMode = "NR" => Len(selectedCells) = 1

\* Nothing is kept in a field of the LTE form that the user does not see
\* (README.md:378-379).
NothingHidden == networkModeCell = "LTE" => fields \subseteq FieldsUpTo(cellNum)

\* A lock asks for what the page shows: the two above.
LocksAsShown == SelectionShown /\ NothingHidden

\* The page comes back from every flow: the overlay is lifted, the scan and the
\* queries end, and unless the connection broke the bands are listed (pages/
\* network.js:82-91, :317-325, :436-451, :580-604).
PageComesBack ==
  []<>(~ showModal /\ ~ isGettingBands /\ ~ isLoading /\ (breaks > 0 \/ listed # {}))
=============================================================================
