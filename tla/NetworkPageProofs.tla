--------------------------- MODULE NetworkPageProofs ---------------------------
(***************************************************************************)
(* Theorems about NetworkPage: its types, BandsRight and LocksAsShown.     *)
(*                                                                         *)
(* The inductive invariant PageInv says what the page waits for and what   *)
(* will come of it.  Of each query, of the call for the model and of a     *)
(* scan exactly one call is under way while the page's flag says so        *)
(* (AskedOnce).  Every mode whose lock the page has read shows it, and for *)
(* every other one a query, a retry or a countdown is under way that ends  *)
(* in reading it, unless a call was lost or the retries used up            *)
(* (TicksKept); before the bands are listed that is the query of all modes *)
(* alone.  What a lost lock may still change is in doubt (LateOK).  A      *)
(* selection is of the table the parsed cells give in the mode             *)
(* of the page, or was carried over from another (TableKept).              *)
(***************************************************************************)
EXTENDS NetworkPage, SequenceTheorems, FiniteSetTheorems, WellFoundedInduction, TLAPS

-----------------------------------------------------------------------------
(* How many of some calls are among those under way. *)

NoneOf(q, C) == \A i \in DOMAIN q : q[i] \notin C

OneOf(q, C) ==
  /\ \E i \in DOMAIN q : q[i] \in C
  /\ \A i, j \in DOMAIN q : q[i] \in C /\ q[j] \in C => i = j

Awaited(q, C, waiting) == IF waiting THEN OneOf(q, C) ELSE NoneOf(q, C)

LEMMA AppendPlaces ==
  ASSUME NEW S, NEW q \in Seq(S), NEW c \in S
  PROVE  /\ Append(q, c) \in Seq(S) /\ Len(q) \in Nat
         /\ DOMAIN q = 1..Len(q) /\ DOMAIN Append(q, c) = 1..(Len(q) + 1)
         /\ \A i \in DOMAIN q : Append(q, c)[i] = q[i]
         /\ Append(q, c)[Len(q) + 1] = c
<1>1. Append(q, c) \in Seq(S) /\ Len(Append(q, c)) = Len(q) + 1 BY AppendProperties
<1>2. DOMAIN q = 1..Len(q) /\ Len(q) \in Nat BY LenProperties
<1>3. DOMAIN Append(q, c) = 1..(Len(q) + 1) BY <1>1, LenProperties
<1>4. QED BY <1>1, <1>2, <1>3, AppendProperties

LEMMA TailPlaces ==
  ASSUME NEW S, NEW q \in Seq(S), q # <<>>
  PROVE  /\ Tail(q) \in Seq(S) /\ Len(q) \in Nat \ {0} /\ Head(q) = q[1]
         /\ DOMAIN q = 1..Len(q) /\ DOMAIN Tail(q) = 1..(Len(q) - 1)
         /\ \A i \in DOMAIN Tail(q) : Tail(q)[i] = q[i + 1]
<1>1. Tail(q) \in Seq(S) /\ Len(Tail(q)) = Len(q) - 1 BY HeadTailProperties
<1>2. DOMAIN q = 1..Len(q) /\ Len(q) \in Nat \ {0} BY LenProperties, EmptySeq
<1>3. DOMAIN Tail(q) = 1..(Len(q) - 1) BY <1>1, LenProperties
<1>4. Head(q) = q[1] OBVIOUS
<1>5. QED BY <1>1, <1>2, <1>3, <1>4, HeadTailProperties

LEMMA AppendOther ==
  ASSUME NEW S, NEW q \in Seq(S), NEW c \in S, NEW C, c \notin C, NEW waiting,
         Awaited(q, C, waiting)
  PROVE  Awaited(Append(q, c), C, waiting)
<1>1. PICK n, r : n \in Nat /\ n = Len(q) /\ r = Append(q, c) BY AppendPlaces
<1>2. /\ n \in Nat /\ DOMAIN q = 1..n /\ DOMAIN r = 1..(n + 1)
      /\ \A i \in 1..n : r[i] = q[i]
      /\ r[n + 1] = c
  BY <1>1, AppendPlaces
<1>3. \A i \in DOMAIN r : r[i] \in C => i \in DOMAIN q /\ q[i] \in C BY <1>2
<1>4. NoneOf(q, C) => NoneOf(r, C) BY <1>3 DEF NoneOf
<1>5. OneOf(q, C) => OneOf(r, C)
  <2>1. ASSUME OneOf(q, C) PROVE \E i \in DOMAIN r : r[i] \in C BY <1>2, <2>1 DEF OneOf
  <2>2. ASSUME OneOf(q, C) PROVE \A i, j \in DOMAIN r : r[i] \in C /\ r[j] \in C => i = j
    BY <1>3, <2>2 DEF OneOf
  <2>3. QED BY <2>1, <2>2 DEF OneOf
<1>6. QED BY <1>1, <1>4, <1>5 DEF Awaited

LEMMA AppendOne ==
  ASSUME NEW S, NEW q \in Seq(S), NEW C, NEW c \in S, c \in C, NoneOf(q, C)
  PROVE  OneOf(Append(q, c), C)
<1>1. PICK n, r : n \in Nat /\ n = Len(q) /\ r = Append(q, c) BY AppendPlaces
<1>2. /\ n \in Nat /\ DOMAIN q = 1..n /\ DOMAIN r = 1..(n + 1)
      /\ \A i \in 1..n : r[i] = q[i]
      /\ r[n + 1] = c
  BY <1>1, AppendPlaces
<1>3. \A i \in DOMAIN r : r[i] \in C => i = n + 1 BY <1>2 DEF NoneOf
<1>4. \E i \in DOMAIN r : r[i] \in C BY <1>2
<1>5. OneOf(r, C) BY <1>3, <1>4 DEF OneOf
<1>6. QED BY <1>1, <1>5

LEMMA TailOther ==
  ASSUME NEW S, NEW q \in Seq(S), q # <<>>, NEW C, Head(q) \notin C, NEW waiting,
         Awaited(q, C, waiting)
  PROVE  Awaited(Tail(q), C, waiting)
<1>1. PICK n, r : n \in Nat \ {0} /\ n = Len(q) /\ r = Tail(q) BY TailPlaces
<1>2. /\ n \in Nat \ {0} /\ DOMAIN q = 1..n /\ DOMAIN r = 1..(n - 1)
      /\ \A i \in 1..(n - 1) : r[i] = q[i + 1]
      /\ q[1] \notin C
  BY <1>1, TailPlaces
<1>3. \A i \in DOMAIN r : r[i] \in C => i + 1 \in DOMAIN q /\ q[i + 1] \in C BY <1>2
<1>4. NoneOf(q, C) => NoneOf(r, C) BY <1>3 DEF NoneOf
<1>5. ASSUME OneOf(q, C) PROVE OneOf(r, C)
  <2>1. PICK i \in DOMAIN q : q[i] \in C BY <1>5 DEF OneOf
  <2>2. i - 1 \in DOMAIN r /\ r[i - 1] = q[i] BY <1>2, <2>1
  <2>3. \A j, k \in DOMAIN r : r[j] \in C /\ r[k] \in C => j + 1 = k + 1
    BY <1>3, <1>5 DEF OneOf
  <2>4. \A j, k \in DOMAIN r : r[j] \in C /\ r[k] \in C => j = k BY <1>2, <2>3
  <2>5. QED BY <2>1, <2>2, <2>4 DEF OneOf
<1>6. QED BY <1>1, <1>4, <1>5 DEF Awaited

LEMMA TailOne ==
  ASSUME NEW S, NEW q \in Seq(S), q # <<>>, NEW C, Head(q) \in C, OneOf(q, C)
  PROVE  NoneOf(Tail(q), C)
<1>1. PICK n, r : n \in Nat \ {0} /\ n = Len(q) /\ r = Tail(q) BY TailPlaces
<1>2. /\ n \in Nat \ {0} /\ DOMAIN q = 1..n /\ DOMAIN r = 1..(n - 1)
      /\ \A i \in 1..(n - 1) : r[i] = q[i + 1]
      /\ q[1] \in C
  BY <1>1, TailPlaces
<1>3. \A i \in DOMAIN r : i + 1 \in DOMAIN q /\ i + 1 # 1 /\ 1 \in DOMAIN q BY <1>2
<1>4. \A i \in DOMAIN r : q[i + 1] \notin C BY <1>2, <1>3 DEF OneOf
<1>5. NoneOf(r, C) BY <1>2, <1>4 DEF NoneOf
<1>6. QED BY <1>1, <1>5

\* If the first of the calls is one of them it is the only one.
LEMMA HeadAwaited ==
  ASSUME NEW S, NEW q \in Seq(S), q # <<>>, NEW C, Head(q) \in C, NEW waiting,
         Awaited(q, C, waiting)
  PROVE  waiting /\ OneOf(q, C)
<1>1. 1 \in DOMAIN q /\ q[1] \in C BY TailPlaces
<1>2. QED BY <1>1 DEF Awaited, NoneOf

-----------------------------------------------------------------------------
(* Types. *)

Actions == {"model", Settings, "bands", "lock_bands", "reset_bands", "change", "scan", "lock_cells"}
QueryKeys == Keys \cup {Settings}
Cells == [key : CellKeys \cup {"-"}, freq : {0, 1, 2}]

\* What a call is for is known from its action.
Sound(c) ==
  /\ c.action \in {"bands", "lock_bands", "reset_bands"} => c.key \in Keys
  /\ c.action = Settings => c.key = Settings
  /\ c.action = "reset_bands" => c.key = All
  /\ c.action \in {"lock_bands", "reset_bands"} => c.arg \subseteq Bands

Requests ==
  {c \in [action : Actions, key : QueryKeys \cup ScanModes, arg : SUBSET (Bands \cup Cells),
          todo : Seq(CellKeys)] : Sound(c)}

CallsOK == calls \in Seq(Requests)

QueriesOK ==
  /\ inFlight \subseteq QueryKeys
  /\ isGettingBands \in BOOLEAN
  /\ model \in {"-", "RM520N"}
  /\ modelFetch \in [state : {"idle", "asking", "asleep", "rejected"}, attempt : 0..(ModelTries - 1)]

BandsShownOK ==
  /\ listed \in {{}, Bands, ModelBands}
  /\ ticks \in [Modes -> SUBSET listed]
  /\ edited \subseteq Modes

BandsOK ==
  /\ BandsShownOK
  /\ loaded \subseteq Modes
  /\ locked \in [Modes -> SUBSET Bands]
  /\ modem \in [Modes -> SUBSET Bands]
  /\ doubt \subseteq Modes

RetriesOK == retryCount \in [Keys -> 0..RetryLimit] /\ retryTimers \subseteq Keys

OverlayOK ==
  /\ showModal \in BOOLEAN
  /\ countdown \in Int /\ countdown <= Seconds
  /\ loops \in [Keys \cup {"init"} -> Nat]

ScanOK ==
  /\ scanMode \in ScanModes
  /\ isLoading \in BOOLEAN /\ resultDoneCell \in BOOLEAN /\ carried \in BOOLEAN
  /\ parsed \in [Networks -> CellLists]
  /\ selectedCells \in Seq(CellKeys)

FormOK ==
  /\ networkModeCell \in Forms
  /\ cellNum \in 0..MaxCells
  /\ fields \subseteq FieldsUpTo(MaxCells)
  /\ nrFields \in BOOLEAN

PageOK == QueriesOK /\ BandsOK /\ RetriesOK /\ OverlayOK /\ ScanOK /\ FormOK

-----------------------------------------------------------------------------
(* The least of some positions, and the cell found there. *)

LEMMA MinIsIn ==
  ASSUME NEW T \in SUBSET Nat, T # {}
  PROVE  Min(T) \in T
<1>1. PICK m \in T : \A k \in T : ~ (<<k, m>> \in OpToRel(<, Nat))
  BY WFMin, NatLessThanWellFounded, Zenon
<1>2. \A k \in T : ~ k < m BY <1>1, Zenon DEF OpToRel
<1>3. \A k \in T : m =< k BY <1>2
<1>4. QED BY <1>3 DEF Min

LEMMA ListsTyped == CellLists \subseteq Seq(Cells)
<1>1. \A k \in CellKeys : [key |-> k, freq |-> 1] \in Cells /\ [key |-> k, freq |-> 2] \in Cells
  BY DEF Cells
<1>2. \A c, d \in Cells : <<c, d>> \in Seq(Cells) OBVIOUS
<1>3. <<>> \in Seq(Cells) OBVIOUS
<1>4. \A k, l \in CellKeys :
        <<[key |-> k, freq |-> 1], [key |-> l, freq |-> 2]>> \in Seq(Cells)
  BY <1>1, <1>2
<1>5. ASSUME NEW q \in CellLists PROVE q \in Seq(Cells)
  <2>1. CASE q = <<>> BY <1>3, <2>1
  <2>2. CASE q # <<>>
    <3>1. PICK k \in CellKeys, l \in CellKeys :
            q = <<[key |-> k, freq |-> 1], [key |-> l, freq |-> 2]>>
      BY <2>2 DEF CellLists
    <3>2. QED BY <1>4, <3>1
  <2>3. QED BY <2>1, <2>2
<1>6. QED BY <1>5

\* A cell found by its key is one of the list, and has the key.
LEMMA CellFound ==
  ASSUME ScanOK, NEW network \in Networks, NEW key,
         \E i \in DOMAIN parsed[network] : parsed[network][i].key = key
  PROVE  /\ \E i \in DOMAIN parsed[network] : getCellDetails(key, network) = parsed[network][i]
         /\ getCellDetails(key, network).key = key
<1> DEFINE cells == parsed[network]
           found == {i \in DOMAIN cells : cells[i].key = key}
<1>1. cells \in Seq(Cells) BY ListsTyped DEF ScanOK
<1>2. DOMAIN cells = 1..Len(cells) /\ Len(cells) \in Nat BY <1>1, LenProperties
<1>3. found \in SUBSET Nat /\ found # {} BY <1>2
<1>4. Min(found) \in found BY <1>3, MinIsIn
<1>5. getCellDetails(key, network) = cells[Min(found)] BY <1>3 DEF getCellDetails
<1>6. QED BY <1>4, <1>5

LEMMA CellTyped ==
  ASSUME ScanOK, NEW network \in Networks, NEW key
  PROVE  getCellDetails(key, network) \in Cells
<1>1. CASE \E i \in DOMAIN parsed[network] : parsed[network][i].key = key
  <2>1. parsed[network] \in Seq(Cells) BY ListsTyped DEF ScanOK
  <2>2. \A i \in DOMAIN parsed[network] : parsed[network][i] \in Cells
    BY <2>1, LenProperties, ElementOfSeq
  <2>3. QED BY <1>1, <2>2, CellFound
<1>2. CASE ~ \E i \in DOMAIN parsed[network] : parsed[network][i].key = key
  <2>1. getCellDetails(key, network) = NoCell BY <1>2 DEF getCellDetails
  <2>2. QED BY <2>1 DEF NoCell, Cells
<1>3. QED BY <1>1, <1>2

-----------------------------------------------------------------------------
(* The calls a step makes. *)

LEMMA KeysApart ==
  /\ All \in Keys /\ Settings \notin Keys /\ Modes \subseteq Keys /\ All \notin Modes
  /\ "init" \notin Keys
  BY NetworkAssumption DEF Keys, All, Settings

LEMMA CallTyped ==
  ASSUME NEW action \in Actions, NEW key \in QueryKeys \cup ScanModes,
         NEW arg \in SUBSET (Bands \cup Cells), NEW todo \in Seq(CellKeys),
         Sound(Call(action, key, arg, todo))
  PROVE  /\ Call(action, key, arg, todo) \in Requests
         /\ Call(action, key, arg, todo).action = action
         /\ Call(action, key, arg, todo).key = key
  BY DEF Call, Requests

LEMMA RequestTyped ==
  ASSUME NEW action \in Actions, NEW key \in QueryKeys \cup ScanModes,
         NEW arg \in SUBSET (Bands \cup Cells), Sound(Request(action, key, arg))
  PROVE  /\ Request(action, key, arg) \in Requests
         /\ Request(action, key, arg).action = action
         /\ Request(action, key, arg).key = key
<1>1. <<>> \in Seq(CellKeys) BY EmptySeq
<1>2. PICK todo \in Seq(CellKeys) : todo = <<>> BY <1>1, Zenon
<1>3. Request(action, key, arg) = Call(action, key, arg, todo) BY <1>2 DEF Request
<1>4. QED BY <1>3, CallTyped

LEMMA PlainTyped ==
  ASSUME NEW action \in {"model", "change"}
  PROVE  Request(action, All, {}) \in Requests /\ Request(action, All, {}).action = action
<1>1. /\ action \in Actions /\ All \in QueryKeys \cup ScanModes
      /\ {} \in SUBSET (Bands \cup Cells)
  BY KeysApart DEF Actions, QueryKeys
<1>2. Sound(Request(action, All, {})) BY DEF Sound, Request, Call, Settings
<1>3. QED BY <1>1, <1>2, RequestTyped

LEMMA ScanTyped ==
  ASSUME ScanOK
  PROVE  Request("scan", scanMode, {}) \in Requests /\ Request("scan", scanMode, {}).action = "scan"
<1>1. /\ "scan" \in Actions /\ scanMode \in QueryKeys \cup ScanModes
      /\ {} \in SUBSET (Bands \cup Cells)
  BY DEF Actions, ScanOK
<1>2. Sound(Request("scan", scanMode, {})) BY DEF Sound, Request, Call, Settings
<1>3. QED BY <1>1, <1>2, RequestTyped

LEMMA LockTyped ==
  ASSUME BandsOK
  PROVE  /\ \A mode \in Modes :
              /\ Request("lock_bands", mode, ticks[mode]) \in Requests
              /\ Request("lock_bands", mode, ticks[mode]).action = "lock_bands"
              /\ Request("lock_bands", mode, ticks[mode]).key = mode
         /\ Request("reset_bands", All, listed) \in Requests
         /\ Request("reset_bands", All, listed).action = "reset_bands"
         /\ Request("reset_bands", All, listed).key = All
<1>1. ASSUME NEW action \in {"lock_bands", "reset_bands"}, NEW key \in Keys, NEW arg \in SUBSET Bands,
             action = "reset_bands" => key = All
      PROVE  /\ Request(action, key, arg) \in Requests
             /\ Request(action, key, arg).action = action /\ Request(action, key, arg).key = key
  <2>1. Sound(Request(action, key, arg)) BY <1>1 DEF Sound, Request, Call, Settings
  <2>2. /\ action \in Actions /\ key \in QueryKeys \cup ScanModes
        /\ arg \in SUBSET (Bands \cup Cells)
    BY DEF Actions, QueryKeys
  <2>3. QED BY <2>1, <2>2, RequestTyped
<1>2. listed \subseteq Bands /\ \A mode \in Modes : ticks[mode] \subseteq Bands
  BY NetworkAssumption DEF BandsOK, BandsShownOK
<1>3. QED BY <1>1, <1>2, KeysApart

LEMMA CellsLockTyped ==
  ASSUME ScanOK
  PROVE  /\ Request("lock_cells", scanMode, CellsAsked("LTE")) \in Requests
         /\ Request("lock_cells", scanMode, CellsAsked("LTE")).action = "lock_cells"
         /\ \A keys \in Seq(CellKeys) :
              keys # <<>> => LockNext(keys) \in Requests /\ LockNext(keys).action = "lock_cells"
<1>1. "lock_cells" \in Actions /\ scanMode \in QueryKeys \cup ScanModes BY DEF Actions, ScanOK
<1>2. "LTE" \in Networks /\ "NR" \in Networks BY DEF Networks
<1>3. CellsAsked("LTE") \in SUBSET (Bands \cup Cells) BY <1>2, CellTyped DEF CellsAsked
<1>4. Sound(Request("lock_cells", scanMode, CellsAsked("LTE")))
  BY DEF Sound, Request, Call, Settings
<1>5. ASSUME NEW keys \in Seq(CellKeys), keys # <<>>
      PROVE  LockNext(keys) \in Requests /\ LockNext(keys).action = "lock_cells"
  <2>1. Tail(keys) \in Seq(CellKeys) BY <1>5, HeadTailProperties
  <2>2. {getCellDetails(Head(keys), "NR")} \in SUBSET (Bands \cup Cells) BY <1>2, CellTyped
  <2>3. Sound(LockNext(keys)) BY DEF Sound, LockNext, Call, Settings
  <2>4. PICK todo \in Seq(CellKeys), arg \in SUBSET (Bands \cup Cells) :
          todo = Tail(keys) /\ arg = {getCellDetails(Head(keys), "NR")}
    BY <2>1, <2>2, Zenon
  <2>5. LockNext(keys) = Call("lock_cells", scanMode, arg, todo) BY <2>4, Zenon DEF LockNext
  <2>6. QED BY <1>1, <2>3, <2>5, CallTyped
<1>6. QED BY <1>1, <1>3, <1>4, <1>5, RequestTyped

LEMMA QueryTyped ==
  ASSUME NEW key \in QueryKeys
  PROVE  /\ Query(key) \in Requests /\ Query(key).action \in {"bands", Settings}
         /\ Query(key).key = key
<1>1. PICK action : action = IF key = Settings THEN Settings ELSE "bands" OBVIOUS
<1>2. /\ action \in Actions /\ key \in QueryKeys \cup ScanModes
      /\ {} \in SUBSET (Bands \cup Cells)
  BY <1>1 DEF Actions
<1>3. /\ action \in {"bands", Settings} /\ (action = "bands" => key \in Keys)
      /\ (action = Settings => key = Settings)
  BY <1>1 DEF QueryKeys, Settings
<1>4. Query(key) = Request(action, key, {}) BY <1>1 DEF Query
<1>5. Sound(Request(action, key, {})) BY <1>3 DEF Sound, Request, Call, Settings
<1>6. QED BY <1>2, <1>3, <1>4, <1>5, RequestTyped

LEMMA AskTyped ==
  ASSUME NEW pending \in Seq(Requests), NEW key \in QueryKeys
  PROVE  Ask(pending, key) \in Seq(Requests)
  BY QueryTyped, AppendPlaces DEF Ask

-----------------------------------------------------------------------------
(* The steps, by what they have in common. *)

Clicked == {"lock_bands", "reset_bands", "change", "lock_cells"}

\* A button that only makes a call.
ClickStep ==
  \E part \in {"bands", "scan", "form"}, c \in Requests :
    /\ Click(part, c) /\ c.action \in Clicked
    /\ c.action \in {"lock_bands", "reset_bands"} /\ listed = {} => c.key = All

\* The button that locks the cells of a table of both networks.
LockNothing ==
  /\ Act("scan")
  /\ startModalCountdown("init", 1)
  /\ UNCHANGED <<calls, queries, bandsShown, lockedBands, retries, scan, form, modem, late,
                 doubt>>

TickStep == \E mode \in Modes, boxes \in SUBSET listed : Tick(mode, boxes)

FormStep ==
  /\ Act("form")
  /\ UNCHANGED <<calls, queries, bandsShown, lockedBands, retries, overlay, scan, modem, late,
                 doubt>>
  /\ FormOK' /\ NothingHidden'

TableStep ==
  \/ \E mode \in ScanModes : selectScanMode(mode)
  \/ startCellScan
  \/ \E key \in CellKeys : toggleCellSelection(key)
  \/ clearTableRowsBodyCellScan

AnswerStep ==
  \/ \E outcome \in {"known", "pending", "none"} : modelAnswered(outcome)
  \/ \E known \in BOOLEAN : bandsAnswered(known)
  \/ settingsAnswered
  \/ \E accepted \in BOOLEAN : lockAnswered(accepted)
  \/ changeAnswered
  \/ scanAnswered
  \/ lockCellsAnswered

PageStep == TickStep \/ ClickStep \/ LockNothing \/ FormStep \/ TableStep

LEMMA FillStep ==
  ASSUME FormOK, NothingHidden, NEW newForm \in Forms, NEW count \in 0..MaxCells,
         NEW filled \in SUBSET FieldsUpTo(MaxCells), Fill(newForm, count, filled),
         newForm = "LTE" => filled \subseteq FieldsUpTo(count)
  PROVE  FormStep
<1>1. FormOK' BY DEF Fill, FormOK
<1>2. NothingHidden' BY DEF Fill, NothingHidden
<1>3. QED BY <1>1, <1>2 DEF Fill, FormStep

\* Fewer pairs have fewer fields.
LEMMA FieldsGrow ==
  ASSUME NEW m \in Nat, NEW n \in Nat, m <= n
  PROVE  FieldsUpTo(m) \subseteq FieldsUpTo(n)
<1>1. 1..m \subseteq 1..n OBVIOUS
<1>2. QED BY <1>1, Zenon DEF FieldsUpTo

LEMMA FormSteps ==
  ASSUME FormOK, NothingHidden,
         \/ \E newForm \in Forms : onNetworkModeCellChange(newForm)
         \/ \E typed \in 0..(MaxCells + 1) : normalizeLteCellCount(typed)
         \/ \E field \in FieldsUpTo(MaxCells) : setManualValue(field)
         \/ fillNR
  PROVE  FormStep
<1>1. MaxCells \in Nat \ {0} BY NetworkAssumption
<1>2. ASSUME NEW newForm \in Forms, onNetworkModeCellChange(newForm) PROVE FormStep
  <2>1. CASE newForm = "LTE"
    <3>1. Fill(newForm, 0, {}) BY <1>2, <2>1 DEF onNetworkModeCellChange
    <3>2. 0 \in 0..MaxCells BY <1>1
    <3>3. QED BY <3>1, <3>2, FillStep
  <2>2. CASE newForm # "LTE"
    <3>1. Fill(newForm, cellNum, fields) BY <1>2, <2>2 DEF onNetworkModeCellChange
    <3>2. cellNum \in 0..MaxCells /\ fields \in SUBSET FieldsUpTo(MaxCells) BY DEF FormOK
    <3>3. QED BY <2>2, <3>1, <3>2, FillStep
  <2>3. QED BY <2>1, <2>2
<1>3. ASSUME NEW typed \in 0..(MaxCells + 1), normalizeLteCellCount(typed) PROVE FormStep
  <2>1. PICK count \in 0..MaxCells : count = getLteCellCount(typed)
    BY <1>1 DEF getLteCellCount
  <2>2. PICK filled : filled = fields \cap FieldsUpTo(count) OBVIOUS
  <2>3. Fill("LTE", count, filled) BY <1>3, <2>1, <2>2 DEF normalizeLteCellCount
  <2>4. filled \in SUBSET FieldsUpTo(MaxCells) /\ filled \subseteq FieldsUpTo(count)
    BY <2>2 DEF FormOK
  <2>5. "LTE" \in Forms BY DEF Forms
  <2>6. QED BY <2>3, <2>4, <2>5, FillStep
<1>4. ASSUME NEW field \in FieldsUpTo(MaxCells), setManualValue(field) PROVE FormStep
  <2>1. PICK filled : filled = (fields \cup {field}) \ (fields \cap {field}) OBVIOUS
  <2>2. Fill(networkModeCell, cellNum, filled) BY <1>4, <2>1 DEF setManualValue
  <2>3. networkModeCell \in Forms /\ cellNum \in 0..MaxCells BY DEF FormOK
  <2>4. filled \in SUBSET FieldsUpTo(MaxCells) BY <2>1 DEF FormOK
  <2>5. ASSUME networkModeCell = "LTE" PROVE filled \subseteq FieldsUpTo(cellNum)
    <3>1. field \in FieldsUpTo(cellNum) BY <1>4, <2>5 DEF setManualValue
    <3>2. fields \subseteq FieldsUpTo(cellNum) BY <2>5 DEF NothingHidden
    <3>3. QED BY <2>1, <3>1, <3>2
  <2>6. QED BY <2>2, <2>3, <2>4, <2>5, FillStep
<1>5. ASSUME fillNR PROVE FormStep
  <2>1. FormOK' BY <1>5 DEF fillNR, FormOK
  <2>2. NothingHidden' BY <1>5 DEF fillNR, NothingHidden
  <2>3. QED BY <1>5, <2>1, <2>2 DEF fillNR, FormStep
<1>6. QED BY <1>2, <1>3, <1>4, <1>5

LEMMA Clicks ==
  ASSUME PageOK,
         \/ \E mode \in Modes : lockSelectedBandsForMode(mode)
         \/ resetBandLocking \/ saveChanges \/ lockSelectedCells
         \/ cellLockEnableLTE \/ cellLockEnableNR \/ cellLockDisable
  PROVE  ClickStep \/ LockNothing
<1> USE DEF PageOK
<1>1. ASSUME NEW mode \in Modes, lockSelectedBandsForMode(mode) PROVE ClickStep
  <2>1. PICK c \in Requests : c = Request("lock_bands", mode, ticks[mode]) /\ c.action = "lock_bands"
    BY LockTyped
  <2>2. listed # {} BY <1>1 DEF lockSelectedBandsForMode, BandsOK, BandsShownOK
  <2>3. Click("bands", c) BY <1>1, <2>1 DEF lockSelectedBandsForMode
  <2>4. QED BY <2>1, <2>2, <2>3 DEF ClickStep, Clicked
<1>2. ASSUME resetBandLocking PROVE ClickStep
  <2>1. PICK c \in Requests :
          c = Request("reset_bands", All, listed) /\ c.action = "reset_bands" /\ c.key = All
    BY LockTyped
  <2>2. Click("bands", c) BY <1>2, <2>1 DEF resetBandLocking
  <2>3. QED BY <2>1, <2>2 DEF ClickStep, Clicked
<1>3. ASSUME \/ saveChanges \/ cellLockEnableLTE \/ cellLockEnableNR \/ cellLockDisable
      PROVE  ClickStep
  <2>1. PICK c \in Requests : c = Request("change", All, {}) /\ c.action = "change" BY PlainTyped
  <2>2. Click("bands", c) \/ Click("form", c)
    BY <1>3, <2>1 DEF saveChanges, cellLockEnableLTE, cellLockEnableNR, cellLockDisable
  <2>3. QED BY <2>1, <2>2 DEF ClickStep, Clicked
<1>4. ASSUME lockSelectedCells PROVE ClickStep \/ LockNothing
  <2>1. selectedCells \in Seq(CellKeys) /\ selectedCells # <<>>
    BY <1>4 DEF lockSelectedCells, ScanOK
  <2>2. CASE Click("scan", LockNext(selectedCells))
    <3>1. PICK c \in Requests : c = LockNext(selectedCells) /\ c.action = "lock_cells"
      BY <2>1, CellsLockTyped
    <3>2. QED BY <2>2, <3>1 DEF ClickStep, Clicked
  <2>3. CASE Click("scan", Request("lock_cells", scanMode, CellsAsked("LTE")))
    <3>1. PICK c \in Requests :
            c = Request("lock_cells", scanMode, CellsAsked("LTE")) /\ c.action = "lock_cells"
      BY CellsLockTyped
    <3>2. QED BY <2>3, <3>1 DEF ClickStep, Clicked
  <2>4. QED BY <1>4, <2>2, <2>3 DEF lockSelectedCells, LockNothing
<1>5. QED BY <1>1, <1>2, <1>3, <1>4

LEMMA Steps ==
  ASSUME PageOK, NothingHidden, Next
  PROVE  AnswerStep \/ PageStep \/ TimerStep \/ Break \/ LateExecute
<1>1. ASSUME ServiceStep \/ bandsAnswered(FALSE) PROVE AnswerStep
  BY <1>1 DEF ServiceStep, AnswerStep
<1>2. ASSUME UserStep PROVE PageStep
  <2>1. ASSUME NEW mode \in Modes, NEW band \in Bands, clickBox(mode, band) PROVE TickStep
    <3>1. PICK boxes : boxes = (ticks[mode] \cup {band}) \ (ticks[mode] \cap {band}) OBVIOUS
    <3>2. boxes \in SUBSET listed BY <2>1, <3>1 DEF clickBox, PageOK, BandsOK, BandsShownOK
    <3>3. QED BY <2>1, <3>1, <3>2 DEF clickBox, TickStep
  <2>2. ASSUME NEW mode \in Modes, toggleBandCheckboxes(mode) PROVE TickStep
    BY <2>2 DEF toggleBandCheckboxes, TickStep
  <2>3. QED BY <1>2, <2>1, <2>2, Clicks, FormSteps DEF UserStep, PageStep, TableStep, PageOK
<1>3. QED BY <1>1, <1>2 DEF Next

-----------------------------------------------------------------------------
(* Every step keeps the types of the page. *)

LEMMA ReadTyped ==
  ASSUME QueriesOK, NEW key \in QueryKeys, NEW pending
  PROVE  /\ ReadAgain(pending, key) => inFlight' \subseteq QueryKeys /\ isGettingBands' \in BOOLEAN
         /\ ReadBands(pending, key) => inFlight' \subseteq QueryKeys /\ isGettingBands' \in BOOLEAN
<1>1. Settings \in QueryKeys BY DEF QueryKeys
<1>2. QED BY <1>1 DEF QueriesOK, ReadAgain, ReadBands

LEMMA RenderTyped ==
  ASSUME NEW m, NEW lock \in [Modes -> SUBSET Bands], renderBandCheckboxes(m, lock)
  PROVE  BandsShownOK'
<1>1. PICK boxes : boxes = getBandsForModel(m) OBVIOUS
<1>2. boxes \in {Bands, ModelBands} BY <1>1 DEF getBandsForModel
<1>3. listed' = boxes /\ edited' = {} /\ ticks' = [mode \in Modes |-> lock[mode] \cap boxes]
  BY <1>1 DEF renderBandCheckboxes
<1>4. QED BY <1>2, <1>3 DEF BandsShownOK

LEMMA ReadyTyped ==
  ASSUME QueriesOK, BandsOK, NEW m \in {"-", "RM520N"}, NEW pending, ModelReady(pending, m)
  PROVE  QueriesOK' /\ BandsShownOK'
<1>1. All \in QueryKeys BY KeysApart DEF QueryKeys
<1>2. ReadAgain(pending, All) BY DEF ModelReady
<1>3. inFlight' \subseteq QueryKeys /\ isGettingBands' \in BOOLEAN BY <1>1, <1>2, ReadTyped
<1>4. model' \in {"-", "RM520N"} BY DEF ModelReady
<1>5. modelFetch' = [state |-> "idle", attempt |-> 0] BY DEF ModelReady, Idle
<1>6. modelFetch' \in
        [state : {"idle", "asking", "asleep", "rejected"}, attempt : 0..(ModelTries - 1)]
  BY <1>5, NetworkAssumption
<1>7. BandsShownOK' BY RenderTyped DEF ModelReady, BandsOK
<1>8. QED BY <1>3, <1>4, <1>6, <1>7 DEF QueriesOK

LEMMA StartTyped ==
  ASSUME QueriesOK, BandsOK, NEW pending, Start(pending)
  PROVE  QueriesOK' /\ BandsShownOK'
<1>1. CASE model # "-" /\ ModelReady(pending, model) BY <1>1, ReadyTyped DEF QueriesOK
<1>2. CASE /\ modelFetch' = [state |-> "asking", attempt |-> 0]
           /\ UNCHANGED <<inFlight, isGettingBands, model, bandsShown>>
  BY <1>2, NetworkAssumption DEF QueriesOK, BandsOK, BandsShownOK, bandsShown
<1>3. CASE UNCHANGED <<queries, bandsShown>>
  BY <1>3 DEF QueriesOK, BandsOK, BandsShownOK, queries, bandsShown
<1>4. QED BY <1>1, <1>2, <1>3 DEF Start

LEMMA QueriesStep ==
  ASSUME PageOK, CallsOK, AnswerStep \/ PageStep \/ TimerStep \/ Break
  PROVE  QueriesOK' /\ BandsShownOK'
<1> USE DEF PageOK
<1>1. CASE \E outcome \in {"known", "pending", "none"} : modelAnswered(outcome)
  <2>1. PICK outcome \in {"known", "pending", "none"} : modelAnswered(outcome) BY <1>1
  <2>2. CASE ModelReady(Tail(calls), "RM520N") BY <2>2, ReadyTyped
  <2>3. CASE ModelReady(Tail(calls), model) BY <2>3, ReadyTyped DEF QueriesOK
  <2>4. CASE /\ modelFetch' = [modelFetch EXCEPT !.state = "asleep"]
             /\ UNCHANGED <<inFlight, isGettingBands, model, bandsShown>>
    BY <2>4 DEF QueriesOK, BandsOK, BandsShownOK, bandsShown
  <2>5. QED BY <2>1, <2>2, <2>3, <2>4 DEF modelAnswered
<1>2. CASE modelWakes
  <2>1. CASE ModelReady(calls, model) BY <2>1, ReadyTyped DEF QueriesOK
  <2>2. CASE modelFetch.attempt + 1 # ModelTries
    <3>1. /\ modelFetch' = [state |-> "asking", attempt |-> modelFetch.attempt + 1]
          /\ UNCHANGED <<inFlight, isGettingBands, model, bandsShown>>
      BY <1>2, <2>2 DEF modelWakes
    <3>2. modelFetch.attempt + 1 \in 0..(ModelTries - 1)
      BY <2>2, NetworkAssumption DEF QueriesOK
    <3>3. QED BY <3>1, <3>2 DEF QueriesOK, BandsOK, BandsShownOK, bandsShown
  <2>3. QED BY <1>2, <2>1, <2>2 DEF modelWakes
<1>3. CASE \E known \in BOOLEAN : bandsAnswered(known)
  <2>1. PICK known \in BOOLEAN : bandsAnswered(known) BY <1>3
  <2>2. QueriesOK' BY <2>1 DEF bandsAnswered, QueriesOK
  <2>3. PICK lock : /\ lock = [mode \in Modes |->
                         IF known /\ mode \in ModesOf(Head(calls).key) THEN modem[mode]
                         ELSE locked[mode]]
                    /\ renderBandCheckboxes(model, lock)
    BY <2>1 DEF bandsAnswered
  <2>4. lock \in [Modes -> SUBSET Bands] BY <2>3 DEF BandsOK
  <2>5. QED BY <2>2, <2>3, <2>4, RenderTyped
<1>4. CASE settingsAnswered
  BY <1>4 DEF settingsAnswered, QueriesOK, BandsOK, BandsShownOK, bandsShown
<1>5. CASE \/ \E accepted \in BOOLEAN : lockAnswered(accepted)
           \/ changeAnswered \/ scanAnswered \/ lockCellsAnswered
           \/ ClickStep \/ LockNothing \/ FormStep \/ TableStep
  <2>1. UNCHANGED <<queries, bandsShown>>
    BY <1>5 DEF lockAnswered, changeAnswered, scanAnswered, lockCellsAnswered, ClickStep, Click,
                LockNothing, FormStep, TableStep, selectScanMode, startCellScan,
                toggleCellSelection, clearTableRowsBodyCellScan
  <2>2. QED BY <2>1 DEF QueriesOK, BandsOK, BandsShownOK, queries, bandsShown
<1>6. CASE TickStep
  <2>1. PICK mode \in Modes, boxes \in SUBSET listed : Tick(mode, boxes) BY <1>6 DEF TickStep
  <2>2. QueriesOK' BY <2>1 DEF Tick, QueriesOK, queries
  <2>3. BandsShownOK' BY <2>1 DEF Tick, BandsOK, BandsShownOK
  <2>4. QED BY <2>2, <2>3
<1>7. CASE \E key \in Keys : retryFires(key)
  <2>1. PICK key \in Keys : retryFires(key) BY <1>7
  <2>2. QueriesOK' BY <2>1, ReadTyped DEF retryFires, QueriesOK, QueryKeys
  <2>3. BandsShownOK' BY <2>1 DEF retryFires, BandsOK, BandsShownOK, bandsShown
  <2>4. QED BY <2>2, <2>3
<1>8. CASE \E then \in Keys \cup {"init"} : LoopWakes(then)
  <2>1. PICK then \in Keys \cup {"init"} : LoopWakes(then) BY <1>8
  <2>2. CASE Start(calls) BY <2>2, StartTyped
  <2>3. CASE UNCHANGED <<queries, bandsShown>>
    BY <2>3 DEF QueriesOK, BandsOK, BandsShownOK, queries, bandsShown
  <2>4. CASE then # "init" /\ ReadAgain(calls, then) /\ UNCHANGED <<model, modelFetch, bandsShown>>
    <3>1. then \in QueryKeys BY <2>4 DEF QueryKeys
    <3>2. inFlight' \subseteq QueryKeys /\ isGettingBands' \in BOOLEAN BY <2>4, <3>1, ReadTyped
    <3>3. QED BY <2>4, <3>2 DEF QueriesOK, BandsOK, BandsShownOK, bandsShown
  <2>5. QED BY <2>1, <2>2, <2>3, <2>4 DEF LoopWakes
<1>9. CASE Break
  <2>1. UNCHANGED <<model, bandsShown>> /\ inFlight' = {} /\ isGettingBands' = FALSE
    BY <1>9 DEF Break
  <2>2. modelFetch' = [modelFetch EXCEPT !.state = "rejected"] \/ modelFetch' = modelFetch
    BY <1>9 DEF Break
  <2>3. QED BY <2>1, <2>2 DEF QueriesOK, BandsOK, BandsShownOK, bandsShown
<1>10. QED
  BY <1>1, <1>2, <1>3, <1>4, <1>5, <1>6, <1>7, <1>8, <1>9 DEF AnswerStep, PageStep, TimerStep

LEMMA LocksStep ==
  ASSUME PageOK, CallsOK, AnswerStep \/ PageStep \/ TimerStep \/ Break
  PROVE  BandsOK' /\ RetriesOK'
<1>1. BandsShownOK' BY QueriesStep
<1>2. calls # <<>> => Head(calls) \in Requests BY HeadTailProperties DEF CallsOK
<1> USE DEF PageOK
<1>3. CASE \E known \in BOOLEAN : bandsAnswered(known)
  <2>1. PICK known \in BOOLEAN : bandsAnswered(known) BY <1>3
  <2>2. PICK key \in Keys : key = Head(calls).key
    BY <1>2, <2>1 DEF bandsAnswered, Requests, Sound
  <2>3. ModesOf(key) \subseteq Modes BY <2>2 DEF ModesOf, Keys
  <2>4. modem' = modem BY <2>1 DEF bandsAnswered
  <2>5. loaded' \subseteq Modes /\ locked' \in [Modes -> SUBSET Bands]
    BY <2>1, <2>2, <2>3 DEF bandsAnswered, BandsOK
  <2>6. doubt' \subseteq Modes BY <2>1, <2>2, <2>3 DEF bandsAnswered, BandsOK
  <2>7. RetriesOK'
    <3>1. RetryLimit \in Nat BY NetworkAssumption
    <3>2. CASE known
      <4>1. retryCount' = [retryCount EXCEPT ![key] = 0] /\ retryTimers' = retryTimers
        BY <2>1, <2>2, <3>2 DEF bandsAnswered
      <4>2. QED BY <3>1, <4>1 DEF RetriesOK
    <3>3. CASE ~ known
      <4>1. /\ retryCount' = [retryCount EXCEPT ![key] =
                                IF retryCount[key] < RetryLimit THEN @ + 1 ELSE @]
            /\ retryTimers' = retryTimers \/ retryTimers' = retryTimers \cup {key}
        BY <2>1, <2>2, <3>3 DEF bandsAnswered
      <4>2. QED BY <3>1, <4>1 DEF RetriesOK
    <3>4. QED BY <3>2, <3>3
  <2>8. QED BY <1>1, <2>4, <2>5, <2>6, <2>7 DEF BandsOK
<1>4. CASE \E accepted \in BOOLEAN : lockAnswered(accepted)
  <2>1. PICK accepted \in BOOLEAN : lockAnswered(accepted) BY <1>4
  <2>2. PICK c \in Requests : c = Head(calls) /\ c.action \in {"lock_bands", "reset_bands"}
    BY <1>2, <2>1 DEF lockAnswered
  <2>3. c.arg \in SUBSET Bands BY <2>2 DEF Requests, Sound
  <2>4. Executed(c) \/ modem' = modem BY <2>1, <2>2 DEF lockAnswered
  <2>5. modem' \in [Modes -> SUBSET Bands] BY <2>3, <2>4 DEF Executed, BandsOK
  <2>6. loaded' \subseteq Modes /\ locked' \in [Modes -> SUBSET Bands]
    BY <2>1 DEF lockAnswered, BandsOK
  <2>7. UNCHANGED <<doubt, retries>> BY <2>1 DEF lockAnswered
  <2>8. QED BY <1>1, <2>5, <2>6, <2>7 DEF BandsOK, RetriesOK, retries
<1>5. CASE Break
  <2>1. calls # <<>> /\ UNCHANGED <<lockedBands, retries>> /\ doubt' \subseteq doubt \cup Modes
    BY <1>5 DEF Break
  <2>2. modem' = modem BY <1>5 DEF Break
  <2>3. QED BY <1>1, <2>1, <2>2 DEF BandsOK, RetriesOK, lockedBands, retries
<1>6. CASE \E key \in Keys : retryFires(key)
  <2>1. retryTimers' \subseteq retryTimers /\ UNCHANGED <<lockedBands, retryCount, modem, doubt>>
    BY <1>6 DEF retryFires
  <2>2. QED BY <1>1, <2>1 DEF BandsOK, RetriesOK, lockedBands
<1>7. CASE \/ \E outcome \in {"known", "pending", "none"} : modelAnswered(outcome)
           \/ settingsAnswered \/ changeAnswered \/ scanAnswered \/ lockCellsAnswered
           \/ PageStep \/ modelWakes
           \/ \E then \in Keys \cup {"init"} : LoopWakes(then)
  <2>1. UNCHANGED <<lockedBands, retries, modem, doubt>>
    <3>1. CASE \/ \E outcome \in {"known", "pending", "none"} : modelAnswered(outcome)
               \/ settingsAnswered \/ changeAnswered \/ scanAnswered \/ lockCellsAnswered
               \/ modelWakes
      BY <3>1 DEF modelAnswered, settingsAnswered, changeAnswered, scanAnswered,
                  lockCellsAnswered, modelWakes
    <3>2. CASE \E then \in Keys \cup {"init"} : LoopWakes(then) BY <3>2 DEF LoopWakes
    <3>3. CASE PageStep
      BY <3>3 DEF PageStep, ClickStep, Click, TickStep, Tick, LockNothing, FormStep, TableStep,
                  selectScanMode, startCellScan, toggleCellSelection, clearTableRowsBodyCellScan
    <3>4. QED BY <1>7, <3>1, <3>2, <3>3
  <2>2. QED BY <1>1, <2>1 DEF BandsOK, RetriesOK, lockedBands, retries
<1>8. QED BY <1>3, <1>4, <1>5, <1>6, <1>7 DEF AnswerStep, TimerStep

\* A countdown that begins sets the overlay and has a loop.
LEMMA CountdownStarts ==
  ASSUME OverlayOK, NEW then \in Keys \cup {"init"}, NEW n \in Nat, startModalCountdown(then, n)
  PROVE  /\ OverlayOK'
         /\ \A other \in Keys \cup {"init"} : loops'[other] >= loops[other]
         /\ loops'[then] = loops[then] + n
<1>1. Seconds \in Nat BY NetworkAssumption
<1>2. QED BY <1>1 DEF startModalCountdown, OverlayOK

OverlayHeld == showModal => \E then \in Keys \cup {"init"} : loops[then] > 0

LEMMA CountdownHeld ==
  ASSUME OverlayOK, NEW then \in Keys \cup {"init"}, NEW n \in Nat \ {0},
         startModalCountdown(then, n)
  PROVE  OverlayOK' /\ OverlayHeld'
<1>1. OverlayOK' /\ loops'[then] = loops[then] + n BY CountdownStarts
<1>2. loops'[then] > 0 BY <1>1 DEF OverlayOK
<1>3. QED BY <1>1, <1>2 DEF OverlayHeld

LEMMA OverlayStep ==
  ASSUME PageOK, CallsOK, OverlayHeld, AnswerStep \/ PageStep \/ TimerStep \/ Break
  PROVE  OverlayOK' /\ OverlayHeld'
<1>1. calls # <<>> => Head(calls) \in Requests BY HeadTailProperties DEF CallsOK
<1>2. "init" \in Keys \cup {"init"} OBVIOUS
<1> USE DEF PageOK
<1>3. CASE \E accepted \in BOOLEAN : lockAnswered(accepted)
  <2>1. PICK key \in Keys : key = Head(calls).key
    BY <1>1, <1>3 DEF lockAnswered, Requests, Sound
  <2>2. startModalCountdown(key, 1) BY <1>3, <2>1 DEF lockAnswered
  <2>3. QED BY <2>2, CountdownHeld
<1>4. CASE startModalCountdown("init", 1) BY <1>2, <1>4, CountdownHeld
<1>5. CASE UNCHANGED overlay BY <1>5 DEF OverlayOK, OverlayHeld, overlay
<1>6. CASE \E then \in Keys \cup {"init"} : LoopWakes(then)
  <2>1. PICK then \in Keys \cup {"init"} : LoopWakes(then) BY <1>6
  <2>2. countdown' \in Int /\ countdown' <= Seconds
    BY <2>1, NetworkAssumption DEF LoopWakes, OverlayOK
  <2>3. CASE UNCHANGED <<showModal, loops>> BY <2>2, <2>3 DEF OverlayOK, OverlayHeld
  <2>4. CASE showModal' = FALSE /\ loops' = [loops EXCEPT ![then] = @ - 1]
    <3>1. loops[then] - 1 \in Nat BY <2>1 DEF LoopWakes, OverlayOK
    <3>2. loops' \in [Keys \cup {"init"} -> Nat] BY <2>4, <3>1 DEF OverlayOK
    <3>3. QED BY <2>2, <2>4, <3>2 DEF OverlayOK, OverlayHeld
  <2>5. QED BY <2>1, <2>3, <2>4 DEF LoopWakes
<1>7. CASE Break
  <2>1. PICK locks, going :
          /\ locks = {i \in DOMAIN calls : calls[i].action = "lock_cells"}
          /\ going = {i \in locks : calls[i].todo # <<>>}
    OBVIOUS
  <2>2. IF locks = going THEN UNCHANGED overlay
        ELSE startModalCountdown("init", Cardinality(locks \ going))
    BY <1>7, <2>1 DEF Break
  <2>3. CASE locks = going BY <1>5, <2>2, <2>3
  <2>4. CASE locks # going
    <3>1. IsFiniteSet(DOMAIN calls) BY LenProperties, FS_Interval DEF CallsOK
    <3>2. IsFiniteSet(locks \ going) BY <2>1, <3>1, FS_Subset
    <3>3. locks \ going # {} BY <2>1, <2>4
    <3>4. Cardinality(locks \ going) \in Nat \ {0}
      BY <3>2, <3>3, FS_CardinalityType, FS_EmptySet
    <3>5. QED BY <1>2, <2>2, <2>4, <3>4, CountdownHeld
  <2>5. QED BY <2>3, <2>4
<1>8. CASE changeAnswered \/ lockCellsAnswered \/ LockNothing
  BY <1>4, <1>5, <1>8 DEF changeAnswered, lockCellsAnswered, LockNothing
<1>9. CASE \/ \E outcome \in {"known", "pending", "none"} : modelAnswered(outcome)
           \/ \E known \in BOOLEAN : bandsAnswered(known)
           \/ settingsAnswered \/ scanAnswered \/ modelWakes
           \/ \E key \in Keys : retryFires(key)
  BY <1>5, <1>9 DEF modelAnswered, bandsAnswered, settingsAnswered, scanAnswered, modelWakes,
                    retryFires
<1>10. CASE TickStep \/ ClickStep \/ FormStep \/ TableStep
  BY <1>5, <1>10 DEF ClickStep, Click, TickStep, Tick, FormStep, TableStep,
              selectScanMode, startCellScan, toggleCellSelection, clearTableRowsBodyCellScan
<1>11. QED
  BY <1>3, <1>6, <1>7, <1>8, <1>9, <1>10 DEF AnswerStep, PageStep, TimerStep

LEMMA FormHeld ==
  ASSUME PageOK, NothingHidden, AnswerStep \/ PageStep \/ TimerStep \/ Break
  PROVE  FormOK' /\ NothingHidden'
<1>1. CASE FormStep BY <1>1 DEF FormStep
<1>2. CASE UNCHANGED form BY <1>2 DEF PageOK, FormOK, NothingHidden, form
<1>3. CASE AnswerStep
  BY <1>2, <1>3 DEF AnswerStep, modelAnswered, bandsAnswered, settingsAnswered, lockAnswered,
                    changeAnswered, scanAnswered, lockCellsAnswered
<1>4. CASE TimerStep \/ Break
  BY <1>2, <1>4 DEF TimerStep, modelWakes, retryFires, LoopWakes, Break
<1>5. CASE TickStep \/ ClickStep \/ LockNothing \/ TableStep
  BY <1>2, <1>5 DEF ClickStep, Click, TickStep, Tick, LockNothing, TableStep,
              selectScanMode, startCellScan, toggleCellSelection, clearTableRowsBodyCellScan
<1>6. QED BY <1>1, <1>3, <1>4, <1>5 DEF PageStep

-----------------------------------------------------------------------------
(* The calls stay those of the page. *)

LEMMA TailTyped ==
  ASSUME CallsOK, calls # <<>>
  PROVE  /\ Head(calls) \in Requests /\ Tail(calls) \in Seq(Requests)
  BY HeadTailProperties DEF CallsOK

LEMMA AgainTyped ==
  ASSUME NEW pending \in Seq(Requests), NEW key \in QueryKeys
  PROVE  /\ ReadAgain(pending, key) => CallsOK'
         /\ ReadBands(pending, key) => CallsOK'
<1>1. PICK asked \in Seq(Requests) : asked = Ask(pending, key) BY AskTyped
<1>2. Settings \in QueryKeys BY DEF QueryKeys
<1>3. Ask(asked, Settings) \in Seq(Requests) BY <1>2, AskTyped
<1>4. QED BY <1>1, <1>3 DEF ReadAgain, ReadBands, CallsOK

LEMMA AppendTyped ==
  ASSUME NEW pending \in Seq(Requests), NEW c \in Requests, calls' = Append(pending, c)
  PROVE  CallsOK'
  BY AppendPlaces DEF CallsOK

LEMMA ReadyCalls ==
  ASSUME NEW pending \in Seq(Requests), NEW m, ModelReady(pending, m)
  PROVE  CallsOK'
<1>1. All \in QueryKeys BY KeysApart DEF QueryKeys
<1>2. QED BY <1>1, AgainTyped DEF ModelReady

\* What a break leaves of the calls: the locks of cells that go on.
LEMMA BreakTyped ==
  ASSUME PageOK, CallsOK, Break
  PROVE  /\ CallsOK'
         /\ \A i \in DOMAIN calls' : calls'[i].action = "lock_cells"
<1>1. PICK locks, going :
        /\ locks = {i \in DOMAIN calls : calls[i].action = "lock_cells"}
        /\ going = {i \in locks : calls[i].todo # <<>>}
  OBVIOUS
<1>2. PICK n : n = Cardinality(going) OBVIOUS
<1>3. n \in Nat
  <2>1. IsFiniteSet(DOMAIN calls) BY LenProperties, FS_Interval DEF CallsOK
  <2>2. IsFiniteSet(going) BY <1>1, <2>1, FS_Subset
  <2>3. QED BY <1>2, <2>2, FS_CardinalityType
<1>4. PICK order \in [1..n -> going] :
        calls' = [i \in DOMAIN order |-> LockNext(calls[order[i]].todo)]
  BY <1>1, <1>2 DEF Break
<1>5. \A i \in 1..n :
        LockNext(calls[order[i]].todo) \in Requests
        /\ LockNext(calls[order[i]].todo).action = "lock_cells"
  <2>1. TAKE i \in 1..n
  <2>2. PICK j \in DOMAIN calls : j = order[i] /\ calls[j].todo # <<>> BY <1>1, <1>4
  <2>3. calls[j] \in Requests BY LenProperties, ElementOfSeq DEF CallsOK
  <2>4. PICK todo \in Seq(CellKeys) : todo = calls[j].todo BY <2>3 DEF Requests
  <2>5. todo # <<>> /\ calls[order[i]].todo = todo BY <2>2, <2>4
  <2>6. QED BY <2>5, CellsLockTyped DEF PageOK
<1>6. PICK next \in [1..n -> Requests] :
        /\ next = [i \in 1..n |-> LockNext(calls[order[i]].todo)]
        /\ \A i \in 1..n : next[i].action = "lock_cells"
  <2>1. PICK next : next = [i \in 1..n |-> LockNext(calls[order[i]].todo)] OBVIOUS
  <2>2. next \in [1..n -> Requests] BY <1>5, <2>1
  <2>3. \A i \in 1..n : next[i] = LockNext(calls[order[i]].todo) BY <2>1
  <2>4. \A i \in 1..n : next[i].action = "lock_cells" BY <1>5, <2>3, Zenon
  <2>5. QED BY <2>1, <2>2, <2>4
<1>7. calls' = next BY <1>4, <1>6
<1>8. next \in Seq(Requests) BY <1>3, SeqDef
<1>9. DOMAIN next = 1..n OBVIOUS
<1>10. QED BY <1>6, <1>7, <1>8, <1>9 DEF CallsOK

LEMMA CallsStep ==
  ASSUME PageOK, CallsOK, AnswerStep \/ PageStep \/ TimerStep \/ Break
  PROVE  CallsOK'
<1>1. CASE calls # <<>> /\ calls' = Tail(calls) BY <1>1, TailTyped DEF CallsOK
<1>2. CASE UNCHANGED calls BY <1>2 DEF CallsOK
<1>3. calls \in Seq(Requests) BY DEF CallsOK
<1>4. Request("model", All, {}) \in Requests BY PlainTyped
<1>5. CASE \E outcome \in {"known", "pending", "none"} : modelAnswered(outcome)
  <2>1. PICK outcome \in {"known", "pending", "none"} : modelAnswered(outcome) BY <1>5
  <2>2. PICK pending \in Seq(Requests) : pending = Tail(calls)
    BY <2>1, TailTyped DEF modelAnswered
  <2>3. (\E m : ModelReady(pending, m)) \/ calls' = pending BY <2>1, <2>2 DEF modelAnswered
  <2>4. QED BY <2>3, ReadyCalls DEF CallsOK
<1>6. CASE modelWakes
  <2>1. (\E m : ModelReady(calls, m)) \/ calls' = Append(calls, Request("model", All, {}))
    BY <1>6 DEF modelWakes
  <2>2. QED BY <1>3, <1>4, <2>1, ReadyCalls, AppendTyped
<1>7. CASE lockCellsAnswered
  <2>1. PICK c \in Requests, pending \in Seq(Requests) : c = Head(calls) /\ pending = Tail(calls)
    BY <1>7, TailTyped DEF lockCellsAnswered
  <2>2. CASE c.todo # <<>>
    <3>1. c.todo \in Seq(CellKeys) BY DEF Requests
    <3>2. PICK d \in Requests : d = LockNext(c.todo) BY <2>2, <3>1, CellsLockTyped DEF PageOK
    <3>3. calls' = Append(pending, d) BY <1>7, <2>1, <2>2, <3>2 DEF lockCellsAnswered
    <3>4. QED BY <3>3, AppendTyped
  <2>3. CASE c.todo = <<>> BY <1>1, <1>7, <2>1, <2>3 DEF lockCellsAnswered
  <2>4. QED BY <2>2, <2>3
<1>8. CASE \/ \E known \in BOOLEAN : bandsAnswered(known)
           \/ settingsAnswered
           \/ \E accepted \in BOOLEAN : lockAnswered(accepted)
           \/ changeAnswered \/ scanAnswered
  BY <1>1, <1>8 DEF bandsAnswered, settingsAnswered, lockAnswered, changeAnswered, scanAnswered
<1>9. CASE ClickStep
  BY <1>3, <1>9, AppendTyped DEF ClickStep, Click
<1>10. CASE startCellScan
  <2>1. PICK c \in Requests : c = Request("scan", scanMode, {}) BY ScanTyped DEF PageOK
  <2>2. QED BY <1>3, <1>10, <2>1, AppendTyped DEF startCellScan
<1>11. CASE TickStep \/ LockNothing \/ FormStep
  BY <1>2, <1>11 DEF TickStep, Tick, LockNothing, FormStep
<1>12. CASE \/ \E mode \in ScanModes : selectScanMode(mode)
            \/ \E key \in CellKeys : toggleCellSelection(key)
            \/ clearTableRowsBodyCellScan
  BY <1>2, <1>12 DEF selectScanMode, toggleCellSelection, clearTableRowsBodyCellScan
<1>13. CASE \E key \in Keys : retryFires(key)
  <2>1. PICK key \in QueryKeys : retryFires(key) BY <1>13 DEF QueryKeys
  <2>2. QED BY <1>2, <1>3, <2>1, AgainTyped DEF retryFires
<1>14. CASE \E then \in Keys \cup {"init"} : LoopWakes(then)
  <2>1. PICK then \in Keys \cup {"init"} : LoopWakes(then) BY <1>14
  <2>2. CASE then = "init" /\ Start(calls)
    BY <1>2, <1>3, <1>4, <2>2, ReadyCalls, AppendTyped DEF Start
  <2>3. CASE then # "init" /\ ReadAgain(calls, then)
    <3>1. then \in QueryKeys BY <2>3 DEF QueryKeys
    <3>2. QED BY <1>3, <2>3, <3>1, AgainTyped
  <2>4. QED BY <1>2, <2>1, <2>2, <2>3 DEF LoopWakes
<1>15. CASE Break BY <1>15, BreakTyped
<1>16. QED
  BY <1>5, <1>6, <1>7, <1>8, <1>9, <1>10, <1>11, <1>12, <1>13, <1>14, <1>15
  DEF AnswerStep, PageStep, TableStep, TimerStep

-----------------------------------------------------------------------------
(* Of each query, of the call for the model and of the scan exactly one is out
   while the page waits for it, and none otherwise. *)

ActionCalls(action) == {c \in Requests : c.action = action}
ReadCalls(key) == {c \in Requests : c.action \in {"bands", Settings} /\ c.key = key}

Counts(q, read, asking, loading) ==
  /\ \A key \in QueryKeys : Awaited(q, ReadCalls(key), key \in read)
  /\ Awaited(q, ActionCalls("model"), asking)
  /\ Awaited(q, ActionCalls("scan"), loading)

AskedOnce ==
  /\ Counts(calls, inFlight, modelFetch.state = "asking", isLoading)
  /\ isGettingBands <=> inFlight \ {Settings} # {}
  /\ model # "-" => modelFetch.state = "idle"

LEMMA ActionsApart == Settings = "settings" BY DEF Settings

LEMMA CountsAppend ==
  ASSUME NEW q \in Seq(Requests), NEW c \in Requests, c.action \in Clicked,
         NEW read, NEW asking, NEW loading, Counts(q, read, asking, loading)
  PROVE  Counts(Append(q, c), read, asking, loading)
<1>1. /\ \A key \in QueryKeys : c \notin ReadCalls(key)
      /\ c \notin ActionCalls("model") /\ c \notin ActionCalls("scan")
  BY ActionsApart DEF Clicked, ReadCalls, ActionCalls
<1>2. QED BY <1>1, AppendOther DEF Counts

LEMMA CountsModel ==
  ASSUME NEW q \in Seq(Requests), NEW c \in Requests, c.action = "model",
         NEW read, NEW loading, Counts(q, read, FALSE, loading)
  PROVE  Counts(Append(q, c), read, TRUE, loading)
<1>1. /\ \A key \in QueryKeys : c \notin ReadCalls(key)
      /\ c \in ActionCalls("model") /\ c \notin ActionCalls("scan")
  BY ActionsApart DEF ReadCalls, ActionCalls
<1>2. OneOf(Append(q, c), ActionCalls("model")) BY <1>1, AppendOne DEF Counts, Awaited
<1>3. Awaited(Append(q, c), ActionCalls("model"), TRUE) BY <1>2 DEF Awaited
<1>4. QED BY <1>1, <1>3, AppendOther DEF Counts

LEMMA CountsScan ==
  ASSUME NEW q \in Seq(Requests), NEW c \in Requests, c.action = "scan",
         NEW read, NEW asking, Counts(q, read, asking, FALSE)
  PROVE  Counts(Append(q, c), read, asking, TRUE)
<1>1. /\ \A key \in QueryKeys : c \notin ReadCalls(key)
      /\ c \notin ActionCalls("model") /\ c \in ActionCalls("scan")
  BY ActionsApart DEF ReadCalls, ActionCalls
<1>2. OneOf(Append(q, c), ActionCalls("scan")) BY <1>1, AppendOne DEF Counts, Awaited
<1>3. Awaited(Append(q, c), ActionCalls("scan"), TRUE) BY <1>2 DEF Awaited
<1>4. QED BY <1>1, <1>3, AppendOther DEF Counts

LEMMA CountsAsk ==
  ASSUME NEW q \in Seq(Requests), NEW key \in QueryKeys,
         NEW read, key \in read <=> key \in inFlight,
         NEW asking, NEW loading, Counts(q, read, asking, loading)
  PROVE  Counts(Ask(q, key), read \cup {key}, asking, loading)
<1>1. CASE key \in inFlight BY <1>1 DEF Ask, Counts, Awaited
<1>2. CASE key \notin inFlight
  <2>1. PICK c \in Requests : c = Query(key) /\ c.action \in {"bands", Settings} /\ c.key = key
    BY QueryTyped
  <2>2. /\ \A k \in QueryKeys \ {key} : c \notin ReadCalls(k)
        /\ c \in ReadCalls(key)
        /\ c \notin ActionCalls("model") /\ c \notin ActionCalls("scan")
    BY <2>1, ActionsApart DEF ReadCalls, ActionCalls
  <2>3. NoneOf(q, ReadCalls(key)) BY <1>2 DEF Counts, Awaited
  <2>4. OneOf(Append(q, c), ReadCalls(key)) BY <2>2, <2>3, AppendOne
  <2>5. \A k \in QueryKeys \ {key} : Awaited(Append(q, c), ReadCalls(k), k \in read)
    BY <2>2, AppendOther DEF Counts
  <2>6. \A k \in QueryKeys : Awaited(Append(q, c), ReadCalls(k), k \in read \cup {key})
    BY <2>4, <2>5 DEF Awaited
  <2>7. /\ Awaited(Append(q, c), ActionCalls("model"), asking)
        /\ Awaited(Append(q, c), ActionCalls("scan"), loading)
    BY <2>2, AppendOther DEF Counts
  <2>8. Ask(q, key) = Append(q, c) BY <1>2, <2>1 DEF Ask
  <2>9. QED BY <2>6, <2>7, <2>8 DEF Counts
<1>3. QED BY <1>1, <1>2

LEMMA CountsTail ==
  ASSUME NEW q \in Seq(Requests), q # <<>>, Head(q).action \in Clicked,
         NEW read, NEW asking, NEW loading, Counts(q, read, asking, loading)
  PROVE  Counts(Tail(q), read, asking, loading)
<1>1. /\ \A key \in QueryKeys : Head(q) \notin ReadCalls(key)
      /\ Head(q) \notin ActionCalls("model") /\ Head(q) \notin ActionCalls("scan")
  BY ActionsApart DEF Clicked, ReadCalls, ActionCalls
<1>2. QED BY <1>1, TailOther DEF Counts

LEMMA CountsTailModel ==
  ASSUME NEW q \in Seq(Requests), q # <<>>, Head(q).action = "model",
         NEW read, NEW asking, NEW loading, Counts(q, read, asking, loading)
  PROVE  asking /\ Counts(Tail(q), read, FALSE, loading)
<1>1. PICK c \in Requests : c = Head(q) BY HeadTailProperties
<1>2. /\ \A key \in QueryKeys : c \notin ReadCalls(key)
      /\ c \in ActionCalls("model") /\ c \notin ActionCalls("scan")
  BY <1>1, ActionsApart DEF ReadCalls, ActionCalls
<1>3. asking /\ OneOf(q, ActionCalls("model")) BY <1>1, <1>2, HeadAwaited DEF Counts
<1>4. Awaited(Tail(q), ActionCalls("model"), FALSE) BY <1>1, <1>2, <1>3, TailOne DEF Awaited
<1>5. QED BY <1>1, <1>2, <1>3, <1>4, TailOther DEF Counts

LEMMA CountsTailScan ==
  ASSUME NEW q \in Seq(Requests), q # <<>>, Head(q).action = "scan",
         NEW read, NEW asking, NEW loading, Counts(q, read, asking, loading)
  PROVE  loading /\ Counts(Tail(q), read, asking, FALSE)
<1>1. PICK c \in Requests : c = Head(q) BY HeadTailProperties
<1>2. /\ \A key \in QueryKeys : c \notin ReadCalls(key)
      /\ c \notin ActionCalls("model") /\ c \in ActionCalls("scan")
  BY <1>1, ActionsApart DEF ReadCalls, ActionCalls
<1>3. loading /\ OneOf(q, ActionCalls("scan")) BY <1>1, <1>2, HeadAwaited DEF Counts
<1>4. Awaited(Tail(q), ActionCalls("scan"), FALSE) BY <1>1, <1>2, <1>3, TailOne DEF Awaited
<1>5. QED BY <1>1, <1>2, <1>3, <1>4, TailOther DEF Counts

LEMMA CountsTailRead ==
  ASSUME NEW q \in Seq(Requests), q # <<>>, NEW key \in QueryKeys,
         Head(q).action \in {"bands", Settings}, Head(q).key = key,
         NEW read, NEW asking, NEW loading, Counts(q, read, asking, loading)
  PROVE  Counts(Tail(q), read \ {key}, asking, loading)
<1>1. PICK c \in Requests : c = Head(q) BY HeadTailProperties
<1>2. /\ \A k \in QueryKeys \ {key} : c \notin ReadCalls(k)
      /\ c \in ReadCalls(key)
      /\ c \notin ActionCalls("model") /\ c \notin ActionCalls("scan")
  BY <1>1, ActionsApart DEF ReadCalls, ActionCalls
<1>3. OneOf(q, ReadCalls(key)) BY <1>1, <1>2, HeadAwaited DEF Counts
<1>4. NoneOf(Tail(q), ReadCalls(key)) BY <1>1, <1>2, <1>3, TailOne
<1>5. \A k \in QueryKeys \ {key} : Awaited(Tail(q), ReadCalls(k), k \in read)
  BY <1>1, <1>2, TailOther DEF Counts
<1>6. \A k \in QueryKeys : Awaited(Tail(q), ReadCalls(k), k \in read \ {key})
  BY <1>4, <1>5 DEF Awaited
<1>7. QED BY <1>1, <1>2, <1>6, TailOther DEF Counts

\* A read again of a key: its query and that of the settings are out.
LEMMA CountsReadAgain ==
  ASSUME NEW q \in Seq(Requests), NEW key \in Keys, NEW asking, NEW loading,
         Counts(q, inFlight, asking, loading), isGettingBands <=> inFlight \ {Settings} # {},
         ReadAgain(q, key)
  PROVE  Counts(calls', inFlight', asking, loading) /\ (isGettingBands <=> inFlight \ {Settings} # {})'
<1>1. key \in QueryKeys /\ Settings \in QueryKeys /\ key # Settings
  BY KeysApart DEF QueryKeys
<1>2. PICK asked, read :
        asked \in Seq(Requests) /\ asked = Ask(q, key) /\ read = inFlight \cup {key}
  BY <1>1, AskTyped
<1>3. Counts(asked, read, asking, loading) BY <1>1, <1>2, CountsAsk
<1>4. Counts(Ask(asked, Settings), read \cup {Settings}, asking, loading)
  BY <1>1, <1>2, <1>3, CountsAsk
<1>5. calls' = Ask(asked, Settings) /\ inFlight' = read \cup {Settings}
  BY <1>2 DEF ReadAgain
<1>6. isGettingBands' /\ inFlight' \ {Settings} # {}
  <2>1. key \notin inFlight \/ isGettingBands BY <1>1
  <2>2. isGettingBands' = (isGettingBands \/ key \notin inFlight) BY DEF ReadAgain
  <2>3. isGettingBands' BY <2>1, <2>2, Zenon
  <2>4. inFlight' \ {Settings} # {} BY <1>1 DEF ReadAgain
  <2>5. QED BY <2>3, <2>4
<1>7. QED BY <1>4, <1>5, <1>6

LEMMA CountsReadBands ==
  ASSUME NEW q \in Seq(Requests), NEW key \in Keys, NEW asking, NEW loading,
         Counts(q, inFlight, asking, loading), isGettingBands <=> inFlight \ {Settings} # {},
         ReadBands(q, key)
  PROVE  Counts(calls', inFlight', asking, loading) /\ (isGettingBands <=> inFlight \ {Settings} # {})'
<1>1. key \in QueryKeys /\ key # Settings BY KeysApart DEF QueryKeys
<1>2. Counts(Ask(q, key), inFlight \cup {key}, asking, loading) BY <1>1, CountsAsk
<1>3. isGettingBands' /\ inFlight' \ {Settings} # {}
  <2>1. key \notin inFlight \/ isGettingBands BY <1>1
  <2>2. isGettingBands' = (isGettingBands \/ key \notin inFlight) BY DEF ReadBands
  <2>3. isGettingBands' BY <2>1, <2>2, Zenon
  <2>4. inFlight' \ {Settings} # {} BY <1>1 DEF ReadBands
  <2>5. QED BY <2>3, <2>4
<1>4. QED BY <1>2, <1>3 DEF ReadBands

LEMMA ReadyAsked ==
  ASSUME NEW q \in Seq(Requests), NEW m,
         Counts(q, inFlight, FALSE, isLoading), isGettingBands <=> inFlight \ {Settings} # {},
         ModelReady(q, m), isLoading' = isLoading
  PROVE  AskedOnce'
<1>1. All \in Keys BY KeysApart
<1>2. ReadAgain(q, All) BY DEF ModelReady
<1>3. PICK loading : loading = isLoading OBVIOUS
<1>4. Counts(q, inFlight, FALSE, loading) BY <1>3
<1>5. Counts(calls', inFlight', FALSE, loading) /\ (isGettingBands <=> inFlight \ {Settings} # {})'
  BY <1>1, <1>2, <1>4, CountsReadAgain
<1>6. modelFetch'.state = "idle" BY DEF ModelReady, Idle
<1>7. Counts(calls', inFlight', modelFetch'.state = "asking", isLoading')
  BY <1>3, <1>5, <1>6 DEF Counts, Awaited
<1>8. QED BY <1>5, <1>6, <1>7 DEF AskedOnce

LEMMA AskedFrom ==
  ASSUME NEW asking, NEW loading, Counts(calls', inFlight', asking, loading),
         asking <=> modelFetch'.state = "asking", loading <=> isLoading',
         (isGettingBands <=> inFlight \ {Settings} # {})',
         model' # "-" => modelFetch'.state = "idle"
  PROVE  AskedOnce'
<1>1. Counts(calls', inFlight', modelFetch'.state = "asking", isLoading')
  BY DEF Counts, Awaited
<1>2. QED BY <1>1 DEF AskedOnce

LEMMA AskedScanning ==
  ASSUME NEW asking, Counts(calls', inFlight', asking, isLoading),
         asking <=> modelFetch'.state = "asking", isLoading' = isLoading,
         (isGettingBands <=> inFlight \ {Settings} # {})',
         model' # "-" => modelFetch'.state = "idle"
  PROVE  AskedOnce'
<1>1. Counts(calls', inFlight', modelFetch'.state = "asking", isLoading')
  BY DEF Counts, Awaited
<1>2. QED BY <1>1 DEF AskedOnce

\* Nothing else than calls that are not counted came or went.
LEMMA AskedKept ==
  ASSUME AskedOnce, Counts(calls', inFlight, modelFetch.state = "asking", isLoading),
         UNCHANGED <<inFlight, isGettingBands, model, modelFetch, isLoading>>
  PROVE  AskedOnce'
  BY DEF AskedOnce

LEMMA AskedModel ==
  ASSUME PageOK, CallsOK, AskedOnce,
         (\E outcome \in {"known", "pending", "none"} : modelAnswered(outcome)) \/ modelWakes
  PROVE  AskedOnce'
<1>1. ASSUME NEW outcome \in {"known", "pending", "none"}, modelAnswered(outcome)
      PROVE  AskedOnce'
  <2>1. PICK pending \in Seq(Requests) : pending = Tail(calls)
    BY <1>1, TailTyped DEF modelAnswered
  <2>2. modelFetch.state = "asking" /\ Counts(pending, inFlight, FALSE, isLoading)
    BY <1>1, <2>1, CountsTailModel DEF modelAnswered, AskedOnce, CallsOK
  <2>3. model = "-" /\ (isGettingBands <=> inFlight \ {Settings} # {}) BY <2>2 DEF AskedOnce
  <2>4. isLoading' = isLoading BY <1>1 DEF modelAnswered, scan
  <2>5. CASE \E m : ModelReady(pending, m) BY <2>2, <2>3, <2>4, <2>5, ReadyAsked
  <2>6. CASE /\ calls' = pending /\ modelFetch' = [modelFetch EXCEPT !.state = "asleep"]
             /\ UNCHANGED <<inFlight, isGettingBands, model>>
    <3>1. modelFetch'.state = "asleep" BY <2>6 DEF PageOK, QueriesOK
    <3>2. Counts(calls', inFlight', FALSE, isLoading) BY <2>2, <2>6
    <3>3. (isGettingBands <=> inFlight \ {Settings} # {})' BY <2>3, <2>6
    <3>4. QED BY <2>3, <2>4, <2>6, <3>1, <3>2, <3>3, AskedScanning
  <2>7. QED BY <1>1, <2>1, <2>5, <2>6 DEF modelAnswered
<1>2. ASSUME modelWakes PROVE AskedOnce'
  <2>1. modelFetch.state = "asleep" /\ model = "-" /\ isLoading' = isLoading
    BY <1>2 DEF modelWakes, AskedOnce, scan
  <2>2. Counts(calls, inFlight, FALSE, isLoading) BY <2>1 DEF AskedOnce, Counts, Awaited
  <2>3. (isGettingBands <=> inFlight \ {Settings} # {}) /\ calls \in Seq(Requests)
    BY DEF AskedOnce, CallsOK
  <2>4. CASE ModelReady(calls, model) BY <2>1, <2>2, <2>3, <2>4, ReadyAsked
  <2>5. CASE modelFetch.attempt + 1 # ModelTries
    <3>1. PICK c \in Requests : c = Request("model", All, {}) /\ c.action = "model" BY PlainTyped
    <3>2. /\ modelFetch'.state = "asking" /\ calls' = Append(calls, c)
          /\ UNCHANGED <<inFlight, isGettingBands, model>>
      BY <1>2, <2>5, <3>1 DEF modelWakes
    <3>3. Counts(calls', inFlight', TRUE, isLoading) BY <2>2, <2>3, <3>1, <3>2, CountsModel
    <3>4. (isGettingBands <=> inFlight \ {Settings} # {})' BY <2>3, <3>2
    <3>5. QED BY <2>1, <3>2, <3>3, <3>4, AskedScanning
  <2>6. QED BY <1>2, <2>4, <2>5 DEF modelWakes
<1>3. QED BY <1>1, <1>2

LEMMA AskedStart ==
  ASSUME PageOK, CallsOK, AskedOnce, Start(calls), isLoading' = isLoading
  PROVE  AskedOnce'
<1>1. (isGettingBands <=> inFlight \ {Settings} # {}) /\ calls \in Seq(Requests)
  BY DEF AskedOnce, CallsOK
<1>2. CASE model # "-" /\ ModelReady(calls, model)
  <2>1. modelFetch.state # "asking" BY <1>2 DEF AskedOnce
  <2>2. Counts(calls, inFlight, FALSE, isLoading) BY <2>1 DEF AskedOnce, Counts, Awaited
  <2>3. QED BY <1>1, <1>2, <2>2, ReadyAsked
<1>3. CASE model = "-" /\ modelFetch.state = "idle"
  <2>1. PICK c \in Requests : c = Request("model", All, {}) /\ c.action = "model" BY PlainTyped
  <2>2. /\ modelFetch'.state = "asking" /\ calls' = Append(calls, c)
        /\ UNCHANGED <<inFlight, isGettingBands, model>>
    BY <1>3, <2>1 DEF Start
  <2>3. Counts(calls, inFlight, FALSE, isLoading) BY <1>3 DEF AskedOnce, Counts, Awaited
  <2>4. Counts(calls', inFlight', TRUE, isLoading) BY <1>1, <2>1, <2>2, <2>3, CountsModel
  <2>5. (isGettingBands <=> inFlight \ {Settings} # {})' BY <1>1, <2>2
  <2>6. QED BY <1>3, <2>2, <2>4, <2>5, AskedScanning
<1>4. CASE UNCHANGED <<calls, queries>> BY <1>4, AskedKept DEF AskedOnce, queries
<1>5. QED BY <1>2, <1>3, <1>4 DEF Start

LEMMA AskedStep ==
  ASSUME PageOK, CallsOK, AskedOnce, AnswerStep \/ PageStep \/ TimerStep \/ Break
  PROVE  AskedOnce'
<1> DEFINE asking == modelFetch.state = "asking"
<1>1. /\ calls \in Seq(Requests)
      /\ Counts(calls, inFlight, asking, isLoading)
      /\ isGettingBands <=> inFlight \ {Settings} # {}
      /\ model # "-" => modelFetch.state = "idle"
  BY DEF CallsOK, AskedOnce
<1>2. calls # <<>> => Head(calls) \in Requests BY TailTyped
<1> HIDE DEF asking
<1>3. CASE \E known \in BOOLEAN : bandsAnswered(known)
  <2>1. PICK known \in BOOLEAN : bandsAnswered(known) BY <1>3
  <2>2. /\ calls # <<>> /\ Head(calls).action = "bands" /\ calls' = Tail(calls)
        /\ inFlight' = inFlight \ {Head(calls).key}
        /\ isGettingBands' = (inFlight' \ {Settings} # {})
        /\ UNCHANGED <<model, modelFetch, isLoading>>
    BY <2>1 DEF bandsAnswered, scan
  <2>3. PICK key \in QueryKeys : key = Head(calls).key
    BY <1>2, <2>2 DEF Requests, Sound, QueryKeys
  <2>4. Counts(Tail(calls), inFlight \ {key}, asking, isLoading)
    BY <1>1, <2>2, <2>3, CountsTailRead
  <2>5. (isGettingBands <=> inFlight \ {Settings} # {})' BY <2>2, Zenon
  <2>6. Counts(calls', inFlight', asking, isLoading) BY <2>2, <2>3, <2>4
  <2>7. QED BY <1>1, <2>2, <2>5, <2>6, AskedScanning DEF asking
<1>4. CASE settingsAnswered
  <2>1. /\ calls # <<>> /\ Head(calls).action = Settings /\ calls' = Tail(calls)
        /\ inFlight' = inFlight \ {Settings}
        /\ UNCHANGED <<isGettingBands, model, modelFetch, isLoading>>
    BY <1>4 DEF settingsAnswered, scan
  <2>2. Head(calls).key = Settings /\ Settings \in QueryKeys
    BY <1>2, <2>1 DEF Requests, Sound, QueryKeys
  <2>3. Counts(Tail(calls), inFlight \ {Settings}, asking, isLoading)
    BY <1>1, <2>1, <2>2, CountsTailRead
  <2>4. inFlight' \ {Settings} = inFlight \ {Settings} BY <2>1
  <2>5. (isGettingBands <=> inFlight \ {Settings} # {})' BY <1>1, <2>1, <2>4
  <2>6. Counts(calls', inFlight', asking, isLoading) BY <2>1, <2>3
  <2>7. QED BY <1>1, <2>1, <2>5, <2>6, AskedScanning DEF asking
<1>5. CASE scanAnswered
  <2>1. /\ calls # <<>> /\ Head(calls).action = "scan" /\ calls' = Tail(calls)
        /\ UNCHANGED <<inFlight, isGettingBands, model, modelFetch>> /\ isLoading' = FALSE
    BY <1>5 DEF scanAnswered, queries
  <2>2. Counts(calls', inFlight', asking, FALSE) BY <1>1, <2>1, CountsTailScan
  <2>3. (isGettingBands <=> inFlight \ {Settings} # {})' BY <1>1, <2>1
  <2>4. QED BY <1>1, <2>1, <2>2, <2>3, AskedFrom DEF asking
<1>6. ASSUME calls # <<>>, Head(calls).action \in Clicked,
             UNCHANGED <<queries, scan>>,
             calls' = Tail(calls) \/ \E c \in Requests : c.action \in Clicked
                                        /\ calls' = Append(Tail(calls), c)
      PROVE  AskedOnce'
  <2>1. PICK pending \in Seq(Requests) : pending = Tail(calls) BY <1>6, TailTyped
  <2>2. Counts(pending, inFlight, asking, isLoading) BY <1>1, <1>6, <2>1, CountsTail
  <2>3. Counts(calls', inFlight, asking, isLoading) BY <1>6, <2>1, <2>2, CountsAppend
  <2>4. QED BY <1>6, <2>3, AskedKept DEF asking, queries, scan
<1>7. CASE (\E accepted \in BOOLEAN : lockAnswered(accepted)) \/ changeAnswered
  BY <1>6, <1>7 DEF lockAnswered, changeAnswered, Clicked
<1>8. CASE lockCellsAnswered
  <2>1. /\ calls # <<>> /\ Head(calls).action = "lock_cells" /\ UNCHANGED <<queries, scan>>
    BY <1>8 DEF lockCellsAnswered
  <2>2. CASE Head(calls).todo # <<>>
    <3>1. PICK todo \in Seq(CellKeys) : todo = Head(calls).todo BY <1>2, <2>1 DEF Requests
    <3>2. PICK c \in Requests : c = LockNext(todo) /\ c.action = "lock_cells"
      BY <2>2, <3>1, CellsLockTyped DEF PageOK
    <3>3. calls' = Append(Tail(calls), c) BY <1>8, <2>2, <3>1, <3>2 DEF lockCellsAnswered
    <3>4. QED BY <1>6, <2>1, <3>2, <3>3 DEF Clicked
  <2>3. CASE Head(calls).todo = <<>> BY <1>6, <1>8, <2>1, <2>3 DEF lockCellsAnswered, Clicked
  <2>4. QED BY <2>2, <2>3
<1>9. CASE ClickStep
  <2>1. PICK c \in Requests :
          /\ c.action \in Clicked /\ calls' = Append(calls, c) /\ UNCHANGED <<queries, scan>>
    BY <1>9 DEF ClickStep, Click
  <2>2. Counts(calls', inFlight, asking, isLoading) BY <1>1, <2>1, CountsAppend
  <2>3. QED BY <2>1, <2>2, AskedKept DEF asking, queries, scan
<1>10. CASE startCellScan
  <2>1. PICK c \in Requests : c = Request("scan", scanMode, {}) /\ c.action = "scan"
    BY ScanTyped DEF PageOK
  <2>2. /\ calls' = Append(calls, c) /\ ~ isLoading /\ isLoading' = TRUE
        /\ UNCHANGED <<inFlight, isGettingBands, model, modelFetch>>
    BY <1>10, <2>1 DEF startCellScan, queries
  <2>3. Counts(calls, inFlight, asking, FALSE) BY <1>1, <2>2 DEF Counts, Awaited
  <2>4. Counts(calls', inFlight', asking, TRUE) BY <1>1, <2>1, <2>2, <2>3, CountsScan
  <2>5. (isGettingBands <=> inFlight \ {Settings} # {})' BY <1>1, <2>2
  <2>6. QED BY <1>1, <2>2, <2>4, <2>5, AskedFrom DEF asking
<1>11. ASSUME UNCHANGED <<calls, inFlight, isGettingBands, model, modelFetch, isLoading>>
       PROVE  AskedOnce'
  BY <1>11 DEF AskedOnce
<1>12. CASE \/ TickStep \/ LockNothing \/ FormStep
            \/ \E mode \in ScanModes : selectScanMode(mode)
            \/ \E key \in CellKeys : toggleCellSelection(key)
            \/ clearTableRowsBodyCellScan
  BY <1>11, <1>12 DEF TickStep, Tick, LockNothing, FormStep, selectScanMode,
                      toggleCellSelection, clearTableRowsBodyCellScan, queries, scan
<1>13. CASE \E key \in Keys : retryFires(key)
  <2>1. PICK key \in Keys : retryFires(key) BY <1>13
  <2>2. UNCHANGED <<model, modelFetch, isLoading>> BY <2>1 DEF retryFires, scan
  <2>3. CASE ReadBands(calls, key)
    <3>1. /\ Counts(calls', inFlight', asking, isLoading)
          /\ (isGettingBands <=> inFlight \ {Settings} # {})'
      BY <1>1, <2>3, CountsReadBands
    <3>2. QED BY <1>1, <2>2, <3>1, AskedScanning DEF asking
  <2>4. QED BY <1>11, <2>1, <2>2, <2>3 DEF retryFires
<1>14. CASE \E then \in Keys \cup {"init"} : LoopWakes(then)
  <2>1. PICK then \in Keys \cup {"init"} : LoopWakes(then) BY <1>14
  <2>2. isLoading' = isLoading BY <2>1 DEF LoopWakes, scan
  <2>3. CASE Start(calls) BY <2>2, <2>3, AskedStart
  <2>4. CASE /\ then # "init" /\ ReadAgain(calls, then)
             /\ UNCHANGED <<model, modelFetch, bandsShown>>
    <3>1. /\ Counts(calls', inFlight', asking, isLoading)
          /\ (isGettingBands <=> inFlight \ {Settings} # {})'
      BY <1>1, <2>4, CountsReadAgain
    <3>2. QED BY <1>1, <2>2, <2>4, <3>1, AskedScanning DEF asking
  <2>5. CASE UNCHANGED <<calls, queries>> BY <1>11, <2>2, <2>5 DEF queries
  <2>6. QED BY <2>1, <2>3, <2>4, <2>5 DEF LoopWakes
<1>15. CASE Break
  <2>1. /\ inFlight' = {} /\ isGettingBands' = FALSE /\ isLoading' = FALSE /\ model' = model
        /\ modelFetch' = IF Has("model") THEN [modelFetch EXCEPT !.state = "rejected"]
                         ELSE modelFetch
    BY <1>15 DEF Break
  <2>2. asking <=> Has("model")
    <3>1. ASSUME Has("model") PROVE asking
      <4>1. PICK i \in DOMAIN calls : calls[i].action = "model" BY <3>1 DEF Has
      <4>2. calls[i] \in ActionCalls("model")
        BY <1>1, <4>1, LenProperties, ElementOfSeq DEF ActionCalls
      <4>3. QED BY <1>1, <4>2 DEF Counts, Awaited, NoneOf
    <3>2. ASSUME asking PROVE Has("model")
      BY <1>1, <3>2 DEF Counts, Awaited, OneOf, ActionCalls, Has
    <3>3. QED BY <3>1, <3>2
  <2>3. modelFetch'.state # "asking" /\ (model' # "-" => modelFetch'.state = "idle")
    BY <1>1, <2>1, <2>2 DEF asking, PageOK, QueriesOK
  <2>4. \A i \in DOMAIN calls' : calls'[i].action = "lock_cells" BY <1>15, BreakTyped
  <2>5. Counts(calls', inFlight', FALSE, FALSE)
    BY <2>1, <2>4, ActionsApart DEF Counts, Awaited, NoneOf, ActionCalls, ReadCalls
  <2>6. (isGettingBands <=> inFlight \ {Settings} # {})' BY <2>1
  <2>7. QED BY <2>1, <2>3, <2>5, <2>6, AskedFrom
<1>16. QED
  BY <1>3, <1>4, <1>5, <1>7, <1>8, <1>9, <1>10, <1>12, <1>13, <1>14, <1>15, AskedModel
  DEF AnswerStep, PageStep, TableStep, TimerStep

-----------------------------------------------------------------------------
(* The table of a selection that was made in it. *)

KeysShown(keys) == \A key \in Range(keys) : \E cell \in Shown : cell.key = key

TableKept ==
  /\ scanMode = "Unspecified" => rows = <<>> /\ ~ isLoading
  /\ selectedCells # <<>> /\ ~ carried =>
       /\ ~ isLoading /\ rows = Table(parsed, scanMode) /\ scanMode \in Networks
       /\ KeysShown(selectedCells)
       /\ scanMode = "NR" => Len(selectedCells) = 1

LEMMA RemoveTyped ==
  ASSUME NEW S, NEW q \in Seq(S), NEW i \in DOMAIN q
  PROVE  RemoveAt(q, i) \in Seq(S) /\ Range(RemoveAt(q, i)) \subseteq Range(q)
<1>1. PICK n \in Nat : n = Len(q) BY LenProperties
<1>2. DOMAIN q = 1..n /\ i \in 1..n BY <1>1, LenProperties
<1>3. PICK T : T = Range(q) OBVIOUS
<1>4. \A j \in 1..n : q[j] \in T BY <1>2, <1>3 DEF Range
<1>5. PICK front : front = SubSeq(q, 1, i - 1) OBVIOUS
<1>6. PICK back : back = SubSeq(q, i + 1, n) OBVIOUS
<1>7. front \in Seq(T)
  <2>1. 1 \in Int /\ i - 1 \in Int /\ \A j \in 1..(i - 1) : q[j] \in T BY <1>2, <1>4
  <2>2. QED BY <1>5, <2>1, SubSeqProperties
<1>8. back \in Seq(T)
  <2>1. i + 1 \in Int /\ n \in Int /\ \A j \in (i + 1)..n : q[j] \in T BY <1>2, <1>4
  <2>2. QED BY <1>6, <2>1, SubSeqProperties
<1>9. PICK r : r = front \o back OBVIOUS
<1>10. r \in Seq(T) BY <1>7, <1>8, <1>9, ConcatProperties
<1>11. \A j \in DOMAIN r : r[j] \in T BY <1>10, LenProperties, ElementOfSeq
<1>12. Range(r) \subseteq T BY <1>11 DEF Range
<1>13. T \subseteq S BY <1>2, <1>3, LenProperties, ElementOfSeq DEF Range
<1>14. r \in Seq(S) BY <1>10, <1>13
<1>15. RemoveAt(q, i) = r BY <1>1, <1>5, <1>6, <1>9 DEF RemoveAt
<1>16. QED BY <1>3, <1>12, <1>14, <1>15

LEMMA AppendRange ==
  ASSUME NEW S, NEW q \in Seq(S), NEW e \in S
  PROVE  Range(Append(q, e)) = Range(q) \cup {e}
<1>1. PICK n, r : n \in Nat /\ n = Len(q) /\ r = Append(q, e) BY AppendPlaces
<1>2. /\ n \in Nat /\ DOMAIN q = 1..n /\ DOMAIN r = 1..(n + 1)
      /\ \A i \in 1..n : r[i] = q[i]
      /\ r[n + 1] = e
  BY <1>1, AppendPlaces
<1>3. \A i \in DOMAIN r : r[i] \in Range(q) \cup {e} BY <1>2 DEF Range
<1>4. \A i \in DOMAIN q : q[i] \in Range(r) BY <1>2 DEF Range
<1>5. e \in Range(r) BY <1>2 DEF Range
<1>6. Range(r) = Range(q) \cup {e} BY <1>3, <1>4, <1>5 DEF Range
<1>7. QED BY <1>1, <1>6

\* What a click on a row makes of the selection.
LEMMA ToggleKept ==
  ASSUME ScanOK, TableKept, NEW key \in CellKeys, toggleCellSelection(key)
  PROVE  ScanOK' /\ TableKept'
<1>1. selectedCells \in Seq(CellKeys) BY DEF ScanOK
<1>2. UNCHANGED <<scanMode, isLoading, resultDoneCell, parsed, rows>>
  BY DEF toggleCellSelection
<1>3. carried' = (selectedCells' # <<>> /\ (carried \/ isLoading \/ rows # Table(parsed, scanMode)))
  BY DEF toggleCellSelection
<1>4. \E cell \in Shown : cell.key = key BY DEF toggleCellSelection
<1>5. carried' \in BOOLEAN BY <1>3
<1>6. /\ selectedCells' \in Seq(CellKeys)
      /\ scanMode \in Networks
      /\ Range(selectedCells') \subseteq Range(selectedCells) \cup {key}
      /\ scanMode = "NR" => (selectedCells' # <<>> => Len(selectedCells') = 1)
  <2>1. CASE scanMode = "NR" /\ selectedCells' = IF key \in Selected THEN <<>> ELSE <<key>>
    <3>1. CASE selectedCells' = <<>> BY <2>1, <3>1 DEF Range, Networks
    <3>2. CASE selectedCells' = <<key>>
      <4>1. Range(<<key>>) = {key} BY DEF Range
      <4>2. <<key>> \in Seq(CellKeys) /\ Len(<<key>>) = 1 OBVIOUS
      <4>3. QED BY <2>1, <3>2, <4>1, <4>2 DEF Networks
    <3>3. QED BY <2>1, <3>1, <3>2
  <2>2. CASE scanMode = "LTE" /\ selectedCells' = Append(selectedCells, key)
    BY <1>1, <2>2, AppendRange, AppendPlaces DEF Networks
  <2>3. CASE scanMode = "LTE" /\ \E i \in DOMAIN selectedCells :
                                   selectedCells' = RemoveAt(selectedCells, i)
    BY <1>1, <2>3, RemoveTyped DEF Networks
  <2>4. QED BY <2>1, <2>2, <2>3 DEF toggleCellSelection
<1>7. ScanOK' BY <1>2, <1>5, <1>6 DEF ScanOK
<1>8. ASSUME selectedCells' # <<>>, ~ carried'
      PROVE  /\ ~ isLoading /\ rows = Table(parsed, scanMode)
             /\ KeysShown(selectedCells')
  <2>1. ~ carried /\ ~ isLoading /\ rows = Table(parsed, scanMode) BY <1>3, <1>8
  <2>2. selectedCells # <<>> => KeysShown(selectedCells) BY <2>1 DEF TableKept
  <2>3. selectedCells = <<>> => KeysShown(selectedCells) BY DEF KeysShown, Range
  <2>4. KeysShown(selectedCells') BY <1>4, <1>6, <2>2, <2>3 DEF KeysShown
  <2>5. QED BY <2>1, <2>4
<1>9. Shown' = Shown BY <1>2 DEF Shown
<1>10. TableKept' BY <1>2, <1>6, <1>8, <1>9 DEF TableKept, KeysShown, Networks
<1>11. QED BY <1>7, <1>10

LEMMA ScanStep ==
  ASSUME PageOK, CallsOK, AskedOnce, TableKept, AnswerStep \/ PageStep \/ TimerStep \/ Break
  PROVE  ScanOK' /\ TableKept'
<1>1. ScanOK BY DEF PageOK
<1>2. <<>> \in CellLists BY DEF CellLists
<1>3. NoCells \in [Networks -> CellLists] BY <1>2 DEF NoCells
<1>4. CASE UNCHANGED scan BY <1>1, <1>4 DEF ScanOK, TableKept, KeysShown, Shown, scan
<1>5. CASE \E mode \in ScanModes : selectScanMode(mode)
  <2>1. PICK mode \in ScanModes : selectScanMode(mode) BY <1>5
  <2>2. carried' = (rows # <<>> \/ selectedCells # <<>> \/ isLoading) BY <2>1 DEF selectScanMode
  <2>3. carried' \in BOOLEAN /\ (selectedCells # <<>> => carried') BY <2>2
  <2>4. /\ scanMode' = mode /\ mode # "Unspecified"
        /\ UNCHANGED <<isLoading, resultDoneCell, parsed, rows, selectedCells>>
    BY <2>1 DEF selectScanMode
  <2>5. QED BY <1>1, <2>3, <2>4 DEF ScanOK, TableKept
<1>6. CASE startCellScan
  <2>1. /\ scanMode # "Unspecified" /\ isLoading' = TRUE /\ parsed' = NoCells
        /\ carried' = (selectedCells # <<>>)
        /\ UNCHANGED <<scanMode, resultDoneCell, rows, selectedCells>>
    BY <1>6 DEF startCellScan
  <2>2. carried' \in BOOLEAN /\ (selectedCells' # <<>> => carried') BY <2>1
  <2>3. QED BY <1>1, <1>3, <2>1, <2>2 DEF ScanOK, TableKept
<1>7. CASE scanAnswered
  <2>1. isLoading
    <3>1. calls # <<>> /\ Head(calls).action = "scan" /\ calls \in Seq(Requests)
      BY <1>7 DEF scanAnswered, CallsOK
    <3>2. PICK loading : loading = isLoading OBVIOUS
    <3>3. PICK asking : Counts(calls, inFlight, asking, loading) BY <3>2 DEF AskedOnce
    <3>4. loading BY <3>1, <3>3, CountsTailScan
    <3>5. QED BY <3>2, <3>4
  <2>2. /\ isLoading' = FALSE /\ resultDoneCell' = TRUE
        /\ UNCHANGED <<scanMode, selectedCells, carried>>
        /\ parsed' \in [Networks -> CellLists]
    BY <1>7 DEF scanAnswered
  <2>3. scanMode # "Unspecified" /\ (selectedCells # <<>> => carried) BY <2>1 DEF TableKept
  <2>4. QED BY <1>1, <2>2, <2>3 DEF ScanOK, TableKept
<1>8. CASE \E key \in CellKeys : toggleCellSelection(key) BY <1>1, <1>8, ToggleKept
<1>9. CASE clearTableRowsBodyCellScan
  <2>1. /\ ~ isLoading /\ parsed' = NoCells /\ rows' = <<>> /\ resultDoneCell' = FALSE
        /\ carried' = (selectedCells # <<>>)
        /\ UNCHANGED <<scanMode, isLoading, selectedCells>>
    BY <1>9 DEF clearTableRowsBodyCellScan
  <2>2. carried' \in BOOLEAN /\ (selectedCells' # <<>> => carried') BY <2>1
  <2>3. QED BY <1>1, <1>3, <2>1, <2>2 DEF ScanOK, TableKept
<1>10. CASE Break
  <2>1. /\ isLoading' = FALSE
        /\ carried' = (carried \/ (isLoading /\ selectedCells # <<>>))
        /\ UNCHANGED <<scanMode, resultDoneCell, parsed, rows, selectedCells>>
    BY <1>10 DEF Break
  <2>2. carried' \in BOOLEAN /\ (carried => carried') BY <2>1
  <2>3. Shown' = Shown BY <2>1 DEF Shown
  <2>4. QED BY <1>1, <2>1, <2>2, <2>3 DEF ScanOK, TableKept, KeysShown
<1>11. CASE \/ \E outcome \in {"known", "pending", "none"} : modelAnswered(outcome)
            \/ \E known \in BOOLEAN : bandsAnswered(known)
            \/ settingsAnswered
            \/ \E accepted \in BOOLEAN : lockAnswered(accepted)
            \/ changeAnswered \/ lockCellsAnswered
            \/ TickStep \/ ClickStep \/ LockNothing \/ FormStep
  BY <1>4, <1>11 DEF modelAnswered, bandsAnswered, settingsAnswered, lockAnswered, changeAnswered,
                     lockCellsAnswered, TickStep, Tick, ClickStep, Click, LockNothing, FormStep
<1>12. CASE TimerStep
  BY <1>4, <1>12 DEF TimerStep, modelWakes, retryFires, LoopWakes
<1>13. QED
  BY <1>5, <1>6, <1>7, <1>8, <1>9, <1>10, <1>11, <1>12 DEF AnswerStep, PageStep, TableStep

-----------------------------------------------------------------------------
(* What the page shows of the bands, and what will come of it. *)

\* Locks of one mode, which no one asks for before the bands are listed.
ModeLocks == {c \in Requests : c.action \in {"lock_bands", "reset_bands"} /\ c.key # All}

\* The lock of the mode is being read, or will be.
Covered(mode) ==
  \E key \in Keys :
    mode \in ModesOf(key) /\ (key \in inFlight \/ key \in retryTimers \/ loops[key] > 0)

Known == \A mode \in loaded \ doubt : locked[mode] = modem[mode]

Drawn == \A mode \in loaded \ edited : ticks[mode] = locked[mode] \cap listed

Coming == listed # {} => \A mode \in Modes \ (loaded \cup doubt) : Covered(mode)

Early ==
  listed = {} =>
    /\ loaded = {} /\ retryTimers \subseteq {All} /\ inFlight \cap Modes = {}
    /\ \A mode \in Modes : loops[mode] = 0
    /\ NoneOf(calls, ModeLocks)

TicksKept == Known /\ Drawn /\ Coming /\ Early

LEMMA ModesCovered ==
  /\ \A mode \in Modes : mode \in ModesOf(All) /\ ModesOf(mode) = {mode}
  /\ \A key \in Keys : ModesOf(key) \subseteq Modes
  BY KeysApart DEF ModesOf, Keys

\* The boxes are drawn.
LEMMA DrawnAgain ==
  ASSUME NEW m, NEW lock \in [Modes -> SUBSET Bands], renderBandCheckboxes(m, lock)
  PROVE  listed' # {} /\ \A mode \in Modes : ticks'[mode] = lock[mode] \cap listed'
<1>1. PICK boxes : boxes = getBandsForModel(m) OBVIOUS
<1>2. boxes # {} BY <1>1, NetworkAssumption DEF getBandsForModel
<1>3. listed' = boxes /\ ticks' = [mode \in Modes |-> lock[mode] \cap boxes]
  BY <1>1 DEF renderBandCheckboxes
<1>4. QED BY <1>2, <1>3

LEMMA ReadyTicks ==
  ASSUME BandsOK, TicksKept, NEW pending, NEW m, ModelReady(pending, m),
         UNCHANGED <<lockedBands, modem, doubt>>
  PROVE  TicksKept'
<1>1. locked \in [Modes -> SUBSET Bands] /\ loaded \subseteq Modes BY DEF BandsOK
<1>2. listed' # {} /\ \A mode \in Modes : ticks'[mode] = locked[mode] \cap listed'
  BY <1>1, DrawnAgain DEF ModelReady
<1>3. All \in inFlight' /\ All \in Keys BY KeysApart DEF ModelReady, ReadAgain
<1>4. \A mode \in Modes : Covered(mode)' BY <1>3, ModesCovered DEF Covered, ModesOf
<1>5. QED BY <1>1, <1>2, <1>4 DEF TicksKept, Known, Drawn, Coming, Early, lockedBands

\* A step that neither reads nor shows bands.
LEMMA QuietTicks ==
  ASSUME TicksKept, UNCHANGED <<bandsShown, lockedBands, modem, doubt, inFlight, retryTimers>>,
         \A key \in Keys : loops'[key] = loops[key],
         listed = {} => NoneOf(calls', ModeLocks)
  PROVE  TicksKept'
<1>1. Known' /\ Drawn' BY DEF TicksKept, Known, Drawn, lockedBands, bandsShown
<1>2. Coming' BY DEF TicksKept, Coming, Covered, ModesOf, lockedBands, bandsShown
<1>3. Early'
  <2>1. listed' = listed /\ loaded' = loaded BY DEF bandsShown, lockedBands
  <2>2. QED BY <2>1, KeysApart DEF TicksKept, Early
<1>4. QED BY <1>1, <1>2, <1>3 DEF TicksKept

LEMMA LocksTail ==
  ASSUME CallsOK, calls # <<>>, NoneOf(calls, ModeLocks)
  PROVE  NoneOf(Tail(calls), ModeLocks)
<1>1. calls \in Seq(Requests) /\ Head(calls) \notin ModeLocks BY TailPlaces DEF CallsOK, NoneOf
<1>2. Awaited(Tail(calls), ModeLocks, FALSE) BY <1>1, TailOther DEF Awaited
<1>3. QED BY <1>2 DEF Awaited

LEMMA LocksAppend ==
  ASSUME NEW q \in Seq(Requests), NoneOf(q, ModeLocks), NEW c \in Requests, c \notin ModeLocks
  PROVE  NoneOf(Append(q, c), ModeLocks)
<1>1. Awaited(Append(q, c), ModeLocks, FALSE) BY AppendOther DEF Awaited
<1>2. QED BY <1>1 DEF Awaited

LEMMA LocksAsk ==
  ASSUME NEW q \in Seq(Requests), NoneOf(q, ModeLocks), NEW key \in QueryKeys
  PROVE  NoneOf(Ask(q, key), ModeLocks)
<1>1. PICK c \in Requests : c = Query(key) /\ c.action \in {"bands", Settings} BY QueryTyped
<1>2. c \notin ModeLocks BY <1>1, ActionsApart DEF ModeLocks
<1>3. QED BY <1>1, <1>2, LocksAppend DEF Ask

LEMMA LocksRead ==
  ASSUME CallsOK, NoneOf(calls, ModeLocks), NEW key \in QueryKeys
  PROVE  /\ ReadAgain(calls, key) => NoneOf(calls', ModeLocks)
         /\ ReadBands(calls, key) => NoneOf(calls', ModeLocks)
<1>1. PICK asked \in Seq(Requests) : asked = Ask(calls, key) BY AskTyped DEF CallsOK
<1>2. NoneOf(asked, ModeLocks) BY <1>1, LocksAsk DEF CallsOK
<1>3. Settings \in QueryKeys BY DEF QueryKeys
<1>4. NoneOf(Ask(asked, Settings), ModeLocks) BY <1>2, <1>3, LocksAsk
<1>5. QED BY <1>1, <1>2, <1>4 DEF ReadAgain, ReadBands

LEMMA BandsTicks ==
  ASSUME PageOK, CallsOK, AskedOnce, TicksKept, NEW known \in BOOLEAN, bandsAnswered(known)
  PROVE  TicksKept'
<1> USE DEF PageOK
<1>1. calls # <<>> /\ Head(calls).action = "bands" /\ calls \in Seq(Requests)
  BY DEF bandsAnswered, CallsOK
<1>2. PICK key \in Keys : key = Head(calls).key
  BY <1>1, TailTyped DEF Requests, Sound
<1>3. ModesOf(key) \subseteq Modes BY ModesCovered
<1>4. PICK lock : lock = [mode \in Modes |-> IF known /\ mode \in ModesOf(key) THEN modem[mode]
                                             ELSE locked[mode]]
  OBVIOUS
<1>5. lock \in [Modes -> SUBSET Bands] BY <1>4 DEF BandsOK
<1>6. renderBandCheckboxes(model, lock) /\ locked' = lock BY <1>2, <1>4 DEF bandsAnswered
<1>7. listed' # {} /\ \A mode \in Modes : ticks'[mode] = locked'[mode] \cap listed'
  BY <1>5, <1>6, DrawnAgain
<1>8. /\ inFlight' = inFlight \ {key} /\ loops' = loops /\ modem' = modem
      /\ loaded' = IF known THEN loaded \cup ModesOf(key) ELSE loaded
      /\ known => /\ doubt \ ModesOf(key) \subseteq doubt' /\ doubt' \subseteq doubt
                  /\ retryTimers' = retryTimers
      /\ ~ known => \/ retryTimers' = retryTimers \cup {key} /\ doubt' = doubt
                    \/ retryTimers' = retryTimers /\ doubt' = doubt \cup ModesOf(key)
  <2>1. loops' = loops BY DEF bandsAnswered, overlay
  <2>2. QED BY <1>2, <2>1 DEF bandsAnswered
<1>9. loaded' \subseteq Modes BY <1>3, <1>8 DEF BandsOK
<1>10. Known'
  <2>1. ASSUME NEW mode \in loaded', mode \notin doubt' PROVE locked'[mode] = modem'[mode]
    <3>1. CASE known /\ mode \in ModesOf(key) BY <1>4, <1>6, <1>8, <1>9, <2>1, <3>1
    <3>2. CASE ~ (known /\ mode \in ModesOf(key))
      <4>1. mode \in loaded \ doubt BY <1>8, <2>1, <3>2
      <4>2. locked'[mode] = locked[mode] BY <1>4, <1>6, <1>9, <3>2
      <4>3. QED BY <1>8, <4>1, <4>2 DEF TicksKept, Known
    <3>3. QED BY <3>1, <3>2
  <2>2. QED BY <2>1 DEF Known
<1>11. Drawn' BY <1>7, <1>9 DEF Drawn
<1>12. Coming'
  <2>1. ASSUME NEW mode \in Modes, mode \notin loaded', mode \notin doubt' PROVE Covered(mode)'
    <3>1. CASE mode \in ModesOf(key)
      <4>1. key \in retryTimers' BY <1>8, <2>1, <3>1
      <4>2. QED BY <3>1, <4>1 DEF Covered, ModesOf
    <3>2. CASE mode \notin ModesOf(key)
      <4>1. mode \notin loaded /\ mode \notin doubt BY <1>8, <2>1, <3>2
      <4>2. listed # {}
        <5>1. ASSUME listed = {} PROVE key = All
          <6>1. key \in inFlight
            <7>1. PICK C, waiting : C = ReadCalls(key) /\ waiting = (key \in inFlight)
              OBVIOUS
            <7>2. Awaited(calls, C, waiting) BY <7>1 DEF AskedOnce, Counts, QueryKeys
            <7>3. Head(calls) \in C BY <1>1, <1>2, <7>1, TailTyped DEF ReadCalls
            <7>4. waiting BY <1>1, <7>2, <7>3, HeadAwaited
            <7>5. QED BY <7>1, <7>4
          <6>2. inFlight \cap Modes = {} BY <5>1 DEF TicksKept, Early
          <6>3. QED BY <6>1, <6>2 DEF Keys
        <5>2. key # All BY <3>2, ModesCovered
        <5>3. QED BY <5>1, <5>2
      <4>3. PICK k \in Keys :
              mode \in ModesOf(k) /\ (k \in inFlight \/ k \in retryTimers \/ loops[k] > 0)
        BY <2>1, <4>1, <4>2 DEF TicksKept, Coming, Covered
      <4>4. k # key BY <3>2, <4>3
      <4>5. k \in inFlight' \/ k \in retryTimers' \/ loops'[k] > 0 BY <1>8, <4>3, <4>4
      <4>6. QED BY <4>3, <4>5 DEF Covered, ModesOf
    <3>3. QED BY <3>1, <3>2
  <2>2. QED BY <2>1 DEF Coming
<1>13. QED BY <1>7, <1>10, <1>11, <1>12 DEF TicksKept, Early

LEMMA LockTicks ==
  ASSUME PageOK, CallsOK, TicksKept, NEW accepted \in BOOLEAN, lockAnswered(accepted)
  PROVE  TicksKept'
<1> USE DEF PageOK
<1>1. calls # <<>> BY DEF lockAnswered
<1>2. PICK c \in Requests : c = Head(calls) /\ c.action \in {"lock_bands", "reset_bands"}
  BY <1>1, TailTyped DEF lockAnswered
<1>3. PICK key \in Keys : key = c.key BY <1>2 DEF Requests, Sound
<1>4. /\ loaded' = loaded \ ModesOf(key)
      /\ locked' = [mode \in Modes |-> IF mode \in ModesOf(key) THEN {} ELSE locked[mode]]
      /\ startModalCountdown(key, 1) /\ calls' = Tail(calls)
      /\ UNCHANGED <<queries, bandsShown, retries, doubt>>
  BY <1>2, <1>3 DEF lockAnswered
<1>5. /\ \A k \in Keys \cup {"init"} : loops'[k] >= loops[k]
      /\ loops'[key] = loops[key] + 1
  BY <1>3, <1>4, CountdownStarts
<1>6. loops'[key] > 0 BY <1>3, <1>5 DEF OverlayOK
<1>7. \A mode \in Modes \ ModesOf(key) : locked'[mode] = locked[mode] /\ modem'[mode] = modem[mode]
  <2>1. TAKE mode \in Modes \ ModesOf(key)
  <2>2. locked'[mode] = locked[mode] BY <1>4
  <2>3. CASE modem' = modem BY <2>2, <2>3
  <2>4. CASE Executed(c)
    <3>1. CASE c.action = "lock_bands"
      <4>1. modem' = [modem EXCEPT ![key] = c.arg] BY <1>3, <2>4, <3>1 DEF Executed
      <4>2. mode # key BY ModesCovered
      <4>3. QED BY <2>2, <4>1, <4>2 DEF BandsOK
    <3>2. CASE c.action = "reset_bands"
      <4>1. key = All BY <1>3, <3>2 DEF Requests, Sound
      <4>2. QED BY <4>1, ModesCovered
    <3>3. QED BY <1>2, <3>1, <3>2
  <2>5. QED BY <1>2, <2>3, <2>4 DEF lockAnswered
<1>8. loaded \subseteq Modes /\ loaded' \subseteq Modes \ ModesOf(key) BY <1>4 DEF BandsOK
<1>9. Known' BY <1>4, <1>7, <1>8 DEF TicksKept, Known
<1>10. Drawn' BY <1>4, <1>7, <1>8 DEF TicksKept, Drawn, bandsShown
<1>11. Coming'
  <2>1. ASSUME listed' # {}, NEW mode \in Modes, mode \notin loaded', mode \notin doubt'
        PROVE  Covered(mode)'
    <3>1. CASE mode \in ModesOf(key) BY <1>6, <3>1 DEF Covered, ModesOf
    <3>2. CASE mode \notin ModesOf(key)
      <4>1. listed # {} /\ mode \notin loaded /\ mode \notin doubt
        BY <1>4, <2>1, <3>2 DEF bandsShown
      <4>2. PICK k \in Keys :
              mode \in ModesOf(k) /\ (k \in inFlight \/ k \in retryTimers \/ loops[k] > 0)
        BY <2>1, <4>1 DEF TicksKept, Coming, Covered
      <4>3. loops[k] > 0 => loops'[k] > 0
        <5>1. loops'[k] >= loops[k] /\ loops[k] \in Nat BY <1>5 DEF OverlayOK
        <5>2. loops'[k] \in Nat BY <1>3, <1>4, CountdownStarts DEF OverlayOK
        <5>3. QED BY <5>1, <5>2
      <4>4. k \in inFlight' \/ k \in retryTimers' \/ loops'[k] > 0
        BY <1>4, <4>2, <4>3 DEF queries, retries
      <4>5. QED BY <4>2, <4>4 DEF Covered, ModesOf
    <3>3. QED BY <3>1, <3>2
  <2>2. QED BY <2>1 DEF Coming
<1>12. Early'
  <2>1. SUFFICES ASSUME listed' = {}
                 PROVE  /\ loaded' = {} /\ retryTimers' \subseteq {All} /\ inFlight' \cap Modes = {}
                        /\ \A mode \in Modes : loops'[mode] = 0
                        /\ NoneOf(calls', ModeLocks)
    BY DEF Early
  <2>2. /\ loaded = {} /\ retryTimers \subseteq {All} /\ inFlight \cap Modes = {}
        /\ \A mode \in Modes : loops[mode] = 0
        /\ NoneOf(calls, ModeLocks)
    BY <1>4, <2>1 DEF TicksKept, Early, bandsShown
  <2>3. c \notin ModeLocks BY <1>1, <1>2, <2>2, TailPlaces DEF CallsOK, NoneOf
  <2>4. key = All BY <1>2, <1>3, <2>3 DEF ModeLocks
  <2>5. loops' = [loops EXCEPT ![key] = @ + 1] BY <1>4 DEF startModalCountdown
  <2>6. \A mode \in Modes : loops'[mode] = 0 BY <2>2, <2>4, <2>5, KeysApart DEF OverlayOK
  <2>7. NoneOf(calls', ModeLocks) BY <1>1, <1>4, <2>2, LocksTail
  <2>8. QED BY <1>4, <2>2, <2>6, <2>7 DEF queries, retries
<1>13. QED BY <1>9, <1>10, <1>11, <1>12 DEF TicksKept

LEMMA RetryTicks ==
  ASSUME PageOK, CallsOK, TicksKept, NEW key \in Keys, retryFires(key)
  PROVE  TicksKept'
<1>1. /\ UNCHANGED <<bandsShown, lockedBands, modem, doubt, loops>>
      /\ retryTimers' = retryTimers \ {key} /\ key \in retryTimers
  BY DEF retryFires, overlay
<1>2. key \in QueryKeys BY DEF QueryKeys
<1>3. Known' /\ Drawn' BY <1>1 DEF TicksKept, Known, Drawn, lockedBands, bandsShown
<1>4. /\ inFlight \subseteq inFlight'
      /\ lockedBandsLoaded(key) \/ key \in inFlight'
      /\ inFlight' \subseteq inFlight \cup {key}
  BY DEF retryFires, ReadBands
<1>5. Coming'
  <2>1. ASSUME listed' # {}, NEW mode \in Modes, mode \notin loaded', mode \notin doubt'
        PROVE  Covered(mode)'
    <3>1. listed # {} /\ mode \notin loaded /\ mode \notin doubt
      BY <1>1, <2>1 DEF bandsShown, lockedBands
    <3>2. PICK k \in Keys :
            mode \in ModesOf(k) /\ (k \in inFlight \/ k \in retryTimers \/ loops[k] > 0)
      BY <2>1, <3>1 DEF TicksKept, Coming, Covered
    <3>3. CASE k = key
      <4>1. key \in inFlight' BY <1>4, <3>1, <3>2, <3>3 DEF lockedBandsLoaded
      <4>2. QED BY <3>2, <3>3, <4>1 DEF Covered, ModesOf
    <3>4. CASE k # key BY <1>1, <1>4, <3>2, <3>4 DEF Covered, ModesOf
    <3>5. QED BY <3>3, <3>4
  <2>2. QED BY <2>1 DEF Coming
<1>6. Early'
  <2>1. SUFFICES ASSUME listed' = {}
                 PROVE  /\ loaded' = {} /\ retryTimers' \subseteq {All} /\ inFlight' \cap Modes = {}
                        /\ \A mode \in Modes : loops'[mode] = 0
                        /\ NoneOf(calls', ModeLocks)
    BY DEF Early
  <2>2. /\ loaded = {} /\ retryTimers \subseteq {All} /\ inFlight \cap Modes = {}
        /\ \A mode \in Modes : loops[mode] = 0
        /\ NoneOf(calls, ModeLocks)
    BY <1>1, <2>1 DEF TicksKept, Early, bandsShown
  <2>3. key = All BY <1>1, <2>2
  <2>4. inFlight' \cap Modes = {} BY <1>4, <2>2, <2>3, KeysApart
  <2>5. NoneOf(calls', ModeLocks) BY <1>2, <2>2, LocksRead DEF retryFires
  <2>6. QED BY <1>1, <2>2, <2>4, <2>5 DEF lockedBands
<1>7. QED BY <1>3, <1>5, <1>6 DEF TicksKept

\* A loop that goes on reads what it was for.
LEMMA WakeTicks ==
  ASSUME PageOK, CallsOK, TicksKept, NEW then \in Keys, LoopWakes(then), ReadAgain(calls, then),
         loops' = [loops EXCEPT ![then] = @ - 1], UNCHANGED bandsShown
  PROVE  TicksKept'
<1>1. UNCHANGED <<bandsShown, lockedBands, modem, doubt, retryTimers>> BY DEF LoopWakes, retries
<1>2. then \in QueryKeys BY DEF QueryKeys
<1>3. Known' /\ Drawn' BY <1>1 DEF TicksKept, Known, Drawn, lockedBands, bandsShown
<1>4. inFlight' = inFlight \cup {then, Settings} BY DEF ReadAgain
<1>5. \A k \in Keys : k # then => loops'[k] = loops[k] BY DEF PageOK, OverlayOK
<1>6. Coming'
  <2>1. ASSUME listed' # {}, NEW mode \in Modes, mode \notin loaded', mode \notin doubt'
        PROVE  Covered(mode)'
    <3>1. listed # {} /\ mode \notin loaded /\ mode \notin doubt
      BY <1>1, <2>1 DEF bandsShown, lockedBands
    <3>2. PICK k \in Keys :
            mode \in ModesOf(k) /\ (k \in inFlight \/ k \in retryTimers \/ loops[k] > 0)
      BY <2>1, <3>1 DEF TicksKept, Coming, Covered
    <3>3. k \in inFlight' \/ k \in retryTimers' \/ loops'[k] > 0 BY <1>1, <1>4, <1>5, <3>2
    <3>4. QED BY <3>2, <3>3 DEF Covered, ModesOf
  <2>2. QED BY <2>1 DEF Coming
<1>7. Early'
  <2>1. SUFFICES ASSUME listed' = {}
                 PROVE  /\ loaded' = {} /\ retryTimers' \subseteq {All} /\ inFlight' \cap Modes = {}
                        /\ \A mode \in Modes : loops'[mode] = 0
                        /\ NoneOf(calls', ModeLocks)
    BY DEF Early
  <2>2. /\ loaded = {} /\ retryTimers \subseteq {All} /\ inFlight \cap Modes = {}
        /\ \A mode \in Modes : loops[mode] = 0
        /\ NoneOf(calls, ModeLocks)
    BY <1>1, <2>1 DEF TicksKept, Early, bandsShown
  <2>3. loops[then] > 0 BY DEF LoopWakes
  <2>4. then \notin Modes BY <2>2, <2>3
  <2>5. Settings \notin Modes BY KeysApart
  <2>6. inFlight' \cap Modes = {} BY <1>4, <2>2, <2>4, <2>5
  <2>7. \A mode \in Modes : loops'[mode] = 0 BY <1>5, <2>2, <2>4, KeysApart
  <2>8. NoneOf(calls', ModeLocks) BY <1>2, <2>2, LocksRead
  <2>9. QED BY <1>1, <2>2, <2>6, <2>7, <2>8 DEF lockedBands
<1>8. QED BY <1>3, <1>6, <1>7 DEF TicksKept

\* A break: the bands that were being read are in doubt.
LEMMA BreakTicks ==
  ASSUME PageOK, CallsOK, AskedOnce, TicksKept, Break
  PROVE  TicksKept'
<1> USE DEF PageOK
<1>1. /\ calls # <<>> /\ inFlight' = {}
      /\ UNCHANGED <<bandsShown, lockedBands, retries>>
      /\ doubt' = doubt \cup {mode \in Modes : \E i \in DOMAIN calls :
                   calls[i].action \in {"bands", "lock_bands", "reset_bands"}
                   /\ mode \in ModesOf(calls[i].key)}
      /\ modem' = modem
  BY DEF Break
<1>2. \A key \in Keys : loops'[key] = loops[key]
  <2>1. (\E n : startModalCountdown("init", n)) \/ loops' = loops BY DEF Break, overlay
  <2>2. QED BY <2>1, KeysApart DEF startModalCountdown, OverlayOK
<1>3. \A i \in DOMAIN calls : calls[i] \in Requests BY LenProperties, ElementOfSeq DEF CallsOK
<1>4. Known' BY <1>1 DEF TicksKept, Known, lockedBands
<1>5. Drawn' BY <1>1 DEF TicksKept, Drawn, lockedBands, bandsShown
<1>6. Coming'
  <2>1. ASSUME listed' # {}, NEW mode \in Modes, mode \notin loaded', mode \notin doubt'
        PROVE  Covered(mode)'
    <3>1. listed # {} /\ mode \notin loaded /\ mode \notin doubt
      BY <1>1, <2>1 DEF bandsShown, lockedBands
    <3>2. PICK k \in Keys :
            mode \in ModesOf(k) /\ (k \in inFlight \/ k \in retryTimers \/ loops[k] > 0)
      BY <2>1, <3>1 DEF TicksKept, Coming, Covered
    <3>3. k \notin inFlight
      <4>1. ASSUME k \in inFlight PROVE FALSE
        <5>1. Awaited(calls, ReadCalls(k), TRUE)
          BY <4>1 DEF AskedOnce, Counts, QueryKeys, Awaited
        <5>2. PICK i \in DOMAIN calls : calls[i] \in ReadCalls(k)
          BY <5>1 DEF Awaited, OneOf
        <5>3. calls[i].key = k /\ calls[i].action = "bands"
          BY <5>2, KeysApart DEF ReadCalls, Requests, Sound
        <5>4. mode \in doubt' BY <1>1, <3>2, <5>3
        <5>5. QED BY <2>1, <5>4
      <4>2. QED BY <4>1
    <3>4. k \in retryTimers' \/ loops'[k] > 0 BY <1>1, <1>2, <3>2, <3>3 DEF retries
    <3>5. QED BY <3>2, <3>4 DEF Covered, ModesOf
  <2>2. QED BY <2>1 DEF Coming
<1>7. NoneOf(calls', ModeLocks)
  BY BreakTyped DEF NoneOf, ModeLocks
<1>8. Early' BY <1>1, <1>2, <1>7, KeysApart DEF TicksKept, Early, lockedBands, bandsShown, retries
<1>9. QED BY <1>4, <1>5, <1>6, <1>8 DEF TicksKept

\* A box ticked by the user.
LEMMA TickTicks ==
  ASSUME BandsOK, TicksKept, NEW mode \in Modes, NEW boxes, Tick(mode, boxes)
  PROVE  TicksKept'
<1>1. /\ UNCHANGED <<calls, queries, listed, lockedBands, retries, overlay, modem, doubt>>
      /\ ticks' = [ticks EXCEPT ![mode] = boxes] /\ edited' = edited \cup {mode}
      /\ listed # {}
  BY DEF Tick
<1>2. Known' BY <1>1 DEF TicksKept, Known, lockedBands
<1>3. Drawn'
  <2>1. ASSUME NEW m \in loaded', m \notin edited' PROVE ticks'[m] = locked'[m] \cap listed'
    <3>1. m \in loaded /\ m \notin edited /\ m # mode /\ m \in Modes
      BY <1>1, <2>1 DEF lockedBands, BandsOK
    <3>2. ticks'[m] = ticks[m] BY <1>1, <3>1 DEF BandsOK, BandsShownOK
    <3>3. QED BY <1>1, <3>1, <3>2 DEF TicksKept, Drawn, lockedBands
  <2>2. QED BY <2>1 DEF Drawn
<1>4. Coming'
  BY <1>1 DEF TicksKept, Coming, Covered, ModesOf, lockedBands, queries, retries, overlay
<1>5. Early' BY <1>1 DEF Early
<1>6. QED BY <1>2, <1>3, <1>4, <1>5 DEF TicksKept

LEMMA StartTicks ==
  ASSUME PageOK, CallsOK, TicksKept, Start(calls),
         UNCHANGED <<lockedBands, retries, modem, doubt>>,
         \A key \in Keys : loops'[key] = loops[key]
  PROVE  TicksKept'
<1>1. CASE ModelReady(calls, model) BY <1>1, ReadyTicks DEF PageOK
<1>2. CASE UNCHANGED <<inFlight, bandsShown>> /\ calls' = Append(calls, Request("model", All, {}))
  <2>1. PICK c \in Requests : c = Request("model", All, {}) /\ c.action = "model" BY PlainTyped
  <2>2. c \notin ModeLocks BY <2>1 DEF ModeLocks
  <2>3. NoneOf(calls, ModeLocks) => NoneOf(calls', ModeLocks)
    BY <1>2, <2>1, <2>2, LocksAppend DEF CallsOK
  <2>4. QED BY <1>2, <2>3, QuietTicks DEF TicksKept, Early, retries
<1>3. CASE UNCHANGED <<calls, queries, bandsShown>>
  BY <1>3, QuietTicks DEF TicksKept, Early, queries, retries
<1>4. QED BY <1>1, <1>2, <1>3 DEF Start

LEMMA TicksStep ==
  ASSUME PageOK, CallsOK, AskedOnce, TicksKept, AnswerStep \/ PageStep \/ TimerStep \/ Break
  PROVE  TicksKept'
<1> USE DEF PageOK
<1>1. calls \in Seq(Requests) BY DEF CallsOK
<1>2. listed = {} => NoneOf(calls, ModeLocks) BY DEF TicksKept, Early
<1>3. CASE \E outcome \in {"known", "pending", "none"} : modelAnswered(outcome)
  <2>1. PICK outcome \in {"known", "pending", "none"} : modelAnswered(outcome) BY <1>3
  <2>2. UNCHANGED <<lockedBands, retries, overlay, modem, doubt>> BY <2>1 DEF modelAnswered
  <2>3. CASE \E m : ModelReady(Tail(calls), m) BY <2>2, <2>3, ReadyTicks
  <2>4. CASE calls' = Tail(calls) /\ UNCHANGED <<inFlight, bandsShown>>
    <3>1. listed = {} => NoneOf(calls', ModeLocks)
      BY <1>2, <2>1, <2>4, LocksTail DEF modelAnswered
    <3>2. QED BY <2>2, <2>4, <3>1, QuietTicks DEF retries, overlay
  <2>5. QED BY <2>1, <2>3, <2>4 DEF modelAnswered
<1>4. CASE modelWakes
  <2>1. UNCHANGED <<lockedBands, retries, overlay, modem, doubt>> BY <1>4 DEF modelWakes
  <2>2. CASE ModelReady(calls, model) BY <2>1, <2>2, ReadyTicks
  <2>3. CASE /\ calls' = Append(calls, Request("model", All, {}))
             /\ UNCHANGED <<inFlight, bandsShown>>
    <3>1. PICK c \in Requests : c = Request("model", All, {}) /\ c.action = "model" BY PlainTyped
    <3>2. c \notin ModeLocks BY <3>1 DEF ModeLocks
    <3>3. listed = {} => NoneOf(calls', ModeLocks)
      BY <1>1, <1>2, <2>3, <3>1, <3>2, LocksAppend
    <3>4. QED BY <2>1, <2>3, <3>3, QuietTicks DEF retries, overlay
  <2>4. QED BY <1>4, <2>2, <2>3 DEF modelWakes
<1>5. CASE \E known \in BOOLEAN : bandsAnswered(known) BY <1>5, BandsTicks
<1>6. CASE settingsAnswered
  <2>1. /\ calls # <<>> /\ calls' = Tail(calls) /\ inFlight' = inFlight \ {Settings}
        /\ UNCHANGED <<bandsShown, lockedBands, modem, doubt, retryTimers, loops>>
    BY <1>6 DEF settingsAnswered, retries, overlay
  <2>2. listed = {} => NoneOf(calls', ModeLocks) BY <1>2, <2>1, LocksTail
  <2>3. \A key \in Keys : key \in inFlight' <=> key \in inFlight BY <2>1, KeysApart
  <2>4. Known' /\ Drawn' BY <2>1 DEF TicksKept, Known, Drawn, lockedBands, bandsShown
  <2>5. Coming'
    BY <2>1, <2>3 DEF TicksKept, Coming, Covered, ModesOf, lockedBands, bandsShown
  <2>6. Early' BY <2>1, <2>2 DEF TicksKept, Early, lockedBands, bandsShown
  <2>7. QED BY <2>4, <2>5, <2>6 DEF TicksKept
<1>7. CASE \E accepted \in BOOLEAN : lockAnswered(accepted) BY <1>7, LockTicks
<1>8. ASSUME UNCHANGED <<queries, bandsShown, lockedBands, retries, modem, doubt>>,
             \/ UNCHANGED overlay \/ \E n : startModalCountdown("init", n),
             listed = {} => NoneOf(calls', ModeLocks)
      PROVE  TicksKept'
  <2>1. \A key \in Keys : loops'[key] = loops[key]
    BY <1>8, KeysApart DEF startModalCountdown, OverlayOK, overlay
  <2>2. QED BY <1>8, <2>1, QuietTicks DEF queries, retries
<1>9. CASE changeAnswered \/ scanAnswered
  <2>1. calls # <<>> /\ calls' = Tail(calls) BY <1>9 DEF changeAnswered, scanAnswered
  <2>2. listed = {} => NoneOf(calls', ModeLocks) BY <1>2, <2>1, LocksTail
  <2>3. QED BY <1>8, <1>9, <2>2 DEF changeAnswered, scanAnswered
<1>10. CASE lockCellsAnswered
  <2>1. calls # <<>> BY <1>10 DEF lockCellsAnswered
  <2>2. PICK c \in Requests, pending \in Seq(Requests) : c = Head(calls) /\ pending = Tail(calls)
    BY <2>1, TailTyped
  <2>3. listed = {} => NoneOf(pending, ModeLocks) BY <1>2, <2>1, <2>2, LocksTail
  <2>4. listed = {} => NoneOf(calls', ModeLocks)
    <3>1. CASE c.todo # <<>>
      <4>1. PICK todo \in Seq(CellKeys) : todo = c.todo BY DEF Requests
      <4>2. PICK d \in Requests : d = LockNext(todo) /\ d.action = "lock_cells"
        BY <3>1, <4>1, CellsLockTyped
      <4>3. d \notin ModeLocks BY <4>2 DEF ModeLocks
      <4>4. calls' = Append(pending, d)
        BY <1>10, <2>2, <3>1, <4>1, <4>2 DEF lockCellsAnswered
      <4>5. QED BY <2>3, <4>3, <4>4, LocksAppend
    <3>2. CASE c.todo = <<>> BY <1>10, <2>2, <2>3, <3>2 DEF lockCellsAnswered
    <3>3. QED BY <3>1, <3>2
  <2>5. QED BY <1>8, <1>10, <2>4 DEF lockCellsAnswered
<1>11. CASE ClickStep
  <2>1. PICK c \in Requests :
          /\ calls' = Append(calls, c)
          /\ c.action \in {"lock_bands", "reset_bands"} /\ listed = {} => c.key = All
          /\ UNCHANGED <<queries, bandsShown, lockedBands, retries, overlay, modem, doubt>>
    BY <1>11 DEF ClickStep, Click
  <2>2. listed = {} => c \notin ModeLocks BY <2>1 DEF ModeLocks
  <2>3. listed = {} => NoneOf(calls', ModeLocks) BY <1>1, <1>2, <2>1, <2>2, LocksAppend
  <2>4. QED BY <1>8, <2>1, <2>3
<1>12. CASE startCellScan
  <2>1. PICK c \in Requests : c = Request("scan", scanMode, {}) /\ c.action = "scan" BY ScanTyped
  <2>2. c \notin ModeLocks BY <2>1 DEF ModeLocks
  <2>3. listed = {} => NoneOf(calls', ModeLocks)
    BY <1>1, <1>2, <1>12, <2>1, <2>2, LocksAppend DEF startCellScan
  <2>4. QED BY <1>8, <1>12, <2>3 DEF startCellScan
<1>13. CASE \/ LockNothing \/ FormStep
            \/ \E mode \in ScanModes : selectScanMode(mode)
            \/ \E key \in CellKeys : toggleCellSelection(key)
            \/ clearTableRowsBodyCellScan
  <2>1. /\ UNCHANGED <<calls, queries, bandsShown, lockedBands, retries, modem, doubt>>
        /\ UNCHANGED overlay \/ \E n : startModalCountdown("init", n)
    BY <1>13 DEF LockNothing, FormStep, selectScanMode, toggleCellSelection,
                 clearTableRowsBodyCellScan
  <2>2. QED BY <1>2, <1>8, <2>1
<1>14. CASE TickStep
  BY <1>14, TickTicks DEF TickStep
<1>15. CASE \E key \in Keys : retryFires(key) BY <1>15, RetryTicks
<1>16. CASE \E then \in Keys \cup {"init"} : LoopWakes(then)
  <2>1. PICK then \in Keys \cup {"init"} : LoopWakes(then) BY <1>16
  <2>2. UNCHANGED <<lockedBands, retries, modem, doubt>> BY <2>1 DEF LoopWakes
  <2>3. CASE UNCHANGED <<calls, queries, bandsShown, loops>>
    BY <1>2, <2>2, <2>3, QuietTicks DEF queries, retries
  <2>4. CASE then = "init" /\ Start(calls) /\ loops' = [loops EXCEPT ![then] = @ - 1]
    <3>1. \A key \in Keys : loops'[key] = loops[key] BY <2>4, KeysApart DEF OverlayOK
    <3>2. QED BY <2>2, <2>4, <3>1, StartTicks
  <2>5. CASE /\ then # "init" /\ ReadAgain(calls, then) /\ UNCHANGED bandsShown
             /\ loops' = [loops EXCEPT ![then] = @ - 1]
    BY <2>1, <2>5, WakeTicks
  <2>6. QED BY <2>1, <2>3, <2>4, <2>5 DEF LoopWakes
<1>17. CASE Break BY <1>17, BreakTicks
<1>18. QED
  BY <1>3, <1>4, <1>5, <1>6, <1>7, <1>9, <1>10, <1>11, <1>12, <1>13, <1>14, <1>15, <1>16, <1>17
  DEF AnswerStep, PageStep, TableStep, TimerStep

-----------------------------------------------------------------------------
(* Locks of broken connections: what they may still change is in doubt. *)

LateOK ==
  /\ late \subseteq Requests
  /\ \A c \in late : /\ c.action \in {"lock_bands", "reset_bands"}
                    /\ ModesOf(c.key) \subseteq doubt

LEMMA LateStep ==
  ASSUME PageOK, CallsOK, LateOK, AnswerStep \/ PageStep \/ TimerStep \/ Break
  PROVE  LateOK'
<1>1. ASSUME late' = late, LateModes \cap doubt \subseteq doubt' PROVE LateOK'
  <2>1. \A c \in late : ModesOf(c.key) \subseteq doubt' BY <1>1 DEF LateOK, LateModes
  <2>2. QED BY <1>1, <2>1 DEF LateOK, ModesOf
<1>2. CASE \E known \in BOOLEAN : bandsAnswered(known)
  <2>1. PICK known \in BOOLEAN : bandsAnswered(known) BY <1>2
  <2>2. late' = late /\ LateModes \cap doubt \subseteq doubt' BY <2>1 DEF bandsAnswered
  <2>3. QED BY <1>1, <2>2
<1>3. CASE Break
  <2>1. ASSUME NEW c \in late'
        PROVE  /\ c \in Requests /\ c.action \in {"lock_bands", "reset_bands"}
               /\ ModesOf(c.key) \subseteq doubt'
    <3>1. CASE c \in late
      <4>1. doubt \subseteq doubt' BY <1>3 DEF Break
      <4>2. QED BY <3>1, <4>1 DEF LateOK
    <3>2. CASE c \notin late
      <4>1. c \in Range(calls) /\ c.action \in {"lock_bands", "reset_bands"}
        BY <1>3, <2>1, <3>2 DEF Break
      <4>2. PICK i \in DOMAIN calls : c = calls[i] BY <4>1 DEF Range
      <4>3. c \in Requests BY <4>2, LenProperties, ElementOfSeq DEF CallsOK
      <4>4. c.key \in Keys BY <4>1, <4>3 DEF Requests, Sound
      <4>5. ModesOf(c.key) \subseteq Modes BY <4>4, ModesCovered
      <4>6. \A mode \in Modes : mode \in ModesOf(calls[i].key) => mode \in doubt'
        BY <1>3, <4>1, <4>2 DEF Break
      <4>7. QED BY <4>1, <4>2, <4>3, <4>5, <4>6
    <3>3. QED BY <3>1, <3>2
  <2>2. QED BY <2>1 DEF LateOK, ModesOf
<1>4. CASE \/ \E outcome \in {"known", "pending", "none"} : modelAnswered(outcome)
           \/ settingsAnswered \/ changeAnswered \/ scanAnswered \/ lockCellsAnswered
           \/ \E accepted \in BOOLEAN : lockAnswered(accepted)
           \/ TimerStep
  <2>1. late' = late /\ doubt' = doubt
    BY <1>4 DEF modelAnswered, settingsAnswered, changeAnswered, scanAnswered, lockCellsAnswered,
                lockAnswered, TimerStep, modelWakes, retryFires, LoopWakes
  <2>2. QED BY <1>1, <2>1
<1>5. CASE PageStep
  <2>1. late' = late /\ doubt' = doubt
    BY <1>5 DEF PageStep, ClickStep, Click, TickStep, Tick, LockNothing, FormStep, TableStep,
                selectScanMode, startCellScan, toggleCellSelection, clearTableRowsBodyCellScan
  <2>2. QED BY <1>1, <2>1
<1>6. QED BY <1>2, <1>3, <1>4, <1>5 DEF AnswerStep

\* A late lock changes modes in doubt only.
LEMMA LateModem ==
  ASSUME BandsOK, LateOK, LateExecute
  PROVE  /\ modem' \in [Modes -> SUBSET Bands]
         /\ \A mode \in Modes \ doubt : modem'[mode] = modem[mode]
         /\ late' \subseteq late
<1>1. PICK c \in late : /\ Executed(c) \/ modem' = modem
                       /\ late' \in {late, late \ {c}}
  BY DEF LateExecute
<1>2. /\ c \in Requests /\ c.action \in {"lock_bands", "reset_bands"}
      /\ ModesOf(c.key) \subseteq doubt
  BY DEF LateOK
<1>3. c.arg \in SUBSET Bands /\ c.key \in Keys BY <1>2 DEF Requests, Sound
<1>4. modem' \in [Modes -> SUBSET Bands] BY <1>1, <1>3 DEF Executed, BandsOK
<1>5. ASSUME NEW mode \in Modes, mode \notin doubt PROVE modem'[mode] = modem[mode]
  <2>1. mode \notin ModesOf(c.key) BY <1>2, <1>5
  <2>2. CASE c.action = "lock_bands"
    <3>1. mode # c.key BY <2>1, ModesCovered
    <3>2. modem' = [modem EXCEPT ![c.key] = c.arg] \/ modem' = modem
      BY <1>1, <2>2 DEF Executed
    <3>3. QED BY <3>1, <3>2 DEF BandsOK
  <2>3. CASE c.action = "reset_bands"
    <3>1. c.key = All BY <1>2, <2>3 DEF Requests, Sound
    <3>2. QED BY <2>1, <3>1, ModesCovered
  <2>4. QED BY <1>2, <2>2, <2>3
<1>6. QED BY <1>1, <1>4, <1>5

-----------------------------------------------------------------------------
(* The inductive invariant. *)

PageInv ==
  /\ CallsOK
  /\ PageOK
  /\ OverlayHeld
  /\ NothingHidden
  /\ AskedOnce
  /\ TableKept
  /\ TicksKept
  /\ LateOK

LEMMA InitOK ==
  ASSUME Init
  PROVE  CallsOK /\ PageOK /\ OverlayHeld /\ NothingHidden
<1>1. PICK c \in Requests : c = Request("model", All, {}) BY PlainTyped
<1>2. <<c>> \in Seq(Requests) OBVIOUS
<1>3. CallsOK BY <1>1, <1>2 DEF Init, CallsOK
<1>4. QueriesOK
  <2>1. 0 \in 0..(ModelTries - 1) BY NetworkAssumption
  <2>2. QED BY <2>1 DEF Init, QueriesOK
<1>5. BandsOK
  <2>1. OneBand \subseteq Bands /\ ModelBands \subseteq Bands BY NetworkAssumption DEF OneBand
  <2>2. modem \in [Modes -> {ModelBands, OneBand}] BY DEF Init
  <2>3. modem \in [Modes -> SUBSET Bands] BY <2>1, <2>2
  <2>4. QED BY <2>3 DEF Init, BandsOK, BandsShownOK
<1>6. RetriesOK BY NetworkAssumption DEF Init, RetriesOK
<1>7. OverlayOK /\ OverlayHeld
  <2>1. countdown \in Int /\ countdown <= Seconds BY NetworkAssumption DEF Init
  <2>2. loops \in [Keys \cup {"init"} -> Nat] BY DEF Init
  <2>3. showModal = FALSE BY DEF Init
  <2>4. OverlayOK BY <2>1, <2>2, <2>3 DEF OverlayOK
  <2>5. QED BY <2>3, <2>4 DEF OverlayHeld
<1>8. ScanOK
  <2>1. <<>> \in CellLists BY DEF CellLists
  <2>2. NoCells \in [Networks -> CellLists] BY <2>1 DEF NoCells
  <2>3. selectedCells \in Seq(CellKeys) BY EmptySeq DEF Init
  <2>4. QED BY <2>2, <2>3 DEF Init, ScanOK, ScanModes
<1>9. FormOK
  <2>1. 0 \in 0..MaxCells BY NetworkAssumption
  <2>2. QED BY <2>1 DEF Init, FormOK, Forms
<1>10. NothingHidden BY DEF Init, NothingHidden
<1>11. QED BY <1>3, <1>4, <1>5, <1>6, <1>7, <1>8, <1>9, <1>10 DEF PageOK

LEMMA InitHolds ==
  ASSUME Init
  PROVE  PageInv
<1>1. PICK c \in Requests : c = Request("model", All, {}) /\ c.action = "model" BY PlainTyped
<1>2. calls = <<c>> BY <1>1 DEF Init
<1>3. DOMAIN calls = {1} /\ calls[1] = c BY <1>2
<1>4. AskedOnce
  <2>1. /\ \A key \in QueryKeys : c \notin ReadCalls(key)
        /\ c \in ActionCalls("model") /\ c \notin ActionCalls("scan")
    BY <1>1, ActionsApart DEF ReadCalls, ActionCalls
  <2>2. inFlight = {} /\ ~ isGettingBands /\ model = "-" /\ modelFetch.state = "asking" /\ ~ isLoading
    BY DEF Init
  <2>3. OneOf(calls, ActionCalls("model")) BY <1>3, <2>1 DEF OneOf
  <2>4. NoneOf(calls, ActionCalls("scan")) BY <1>3, <2>1 DEF NoneOf
  <2>5. \A key \in QueryKeys : NoneOf(calls, ReadCalls(key)) BY <1>3, <2>1 DEF NoneOf
  <2>6. QED BY <2>2, <2>3, <2>4, <2>5 DEF AskedOnce, Counts, Awaited
<1>5. TableKept BY DEF Init, TableKept
<1>6. TicksKept
  <2>1. NoneOf(calls, ModeLocks) BY <1>1, <1>3 DEF NoneOf, ModeLocks
  <2>2. Known /\ Drawn /\ Coming BY DEF Init, Known, Drawn, Coming
  <2>3. Early BY <2>1, KeysApart DEF Init, Early
  <2>4. QED BY <2>2, <2>3 DEF TicksKept
<1>7. LateOK BY DEF Init, LateOK
<1>8. QED BY <1>4, <1>5, <1>6, <1>7, InitOK DEF PageInv

LEMMA StepHolds ==
  ASSUME PageInv, [Next]_vars
  PROVE  PageInv'
<1>1. CASE AnswerStep \/ PageStep \/ TimerStep \/ Break
  <2>1. /\ PageOK /\ CallsOK /\ OverlayHeld /\ NothingHidden /\ AskedOnce /\ TableKept /\ TicksKept
        /\ LateOK
    BY DEF PageInv
  <2>2. CallsOK' BY <1>1, <2>1, CallsStep
  <2>3. QueriesOK' BY <1>1, <2>1, QueriesStep
  <2>4. BandsOK' /\ RetriesOK' BY <1>1, <2>1, LocksStep
  <2>5. OverlayOK' /\ OverlayHeld' BY <1>1, <2>1, OverlayStep
  <2>6. ScanOK' /\ TableKept' BY <1>1, <2>1, ScanStep
  <2>7. FormOK' /\ NothingHidden' BY <1>1, <2>1, FormHeld
  <2>8. AskedOnce' BY <1>1, <2>1, AskedStep
  <2>9. TicksKept' BY <1>1, <2>1, TicksStep
  <2>10. LateOK' BY <1>1, <2>1, LateStep
  <2>11. PageOK' BY <2>3, <2>4, <2>5, <2>6, <2>7 DEF PageOK
  <2>12. QED BY <2>2, <2>5, <2>6, <2>7, <2>8, <2>9, <2>10, <2>11 DEF PageInv
<1>2. CASE LateExecute \/ UNCHANGED vars
  <2>1. /\ UNCHANGED <<calls, inFlight, isGettingBands, model, modelFetch, listed, ticks, edited>>
        /\ UNCHANGED <<loaded, locked, retryCount, retryTimers, showModal, countdown, loops>>
        /\ UNCHANGED <<scanMode, isLoading, resultDoneCell, parsed, rows, selectedCells, carried>>
        /\ UNCHANGED <<networkModeCell, cellNum, fields, nrFields, doubt>>
    BY <1>2 DEF LateExecute, vars, queries, bandsShown, lockedBands, retries, overlay, scan, form
  <2>2. /\ modem' \in [Modes -> SUBSET Bands]
        /\ \A mode \in Modes \ doubt : modem'[mode] = modem[mode]
        /\ late' \subseteq late
    <3>1. CASE LateExecute BY <3>1, LateModem DEF PageInv, PageOK
    <3>2. CASE UNCHANGED vars BY <3>2 DEF vars, PageInv, PageOK, BandsOK
    <3>3. QED BY <1>2, <3>1, <3>2
  <2>3. CallsOK' /\ OverlayHeld' /\ NothingHidden'
    BY <2>1 DEF PageInv, CallsOK, OverlayHeld, NothingHidden
  <2>4. PageOK'
    BY <2>1, <2>2 DEF PageInv, PageOK, QueriesOK, BandsOK, BandsShownOK, RetriesOK, OverlayOK,
                      ScanOK, FormOK
  <2>5. AskedOnce' BY <2>1 DEF PageInv, AskedOnce
  <2>6. TableKept' BY <2>1 DEF PageInv, TableKept, KeysShown, Shown
  <2>7. TicksKept'
    <3>1. loaded \subseteq Modes BY DEF PageInv, PageOK, BandsOK
    <3>2. Known' BY <2>1, <2>2, <3>1 DEF PageInv, TicksKept, Known
    <3>3. Drawn' /\ Coming' /\ Early'
      BY <2>1 DEF PageInv, TicksKept, Drawn, Coming, Covered, ModesOf, Early
    <3>4. QED BY <3>2, <3>3 DEF TicksKept
  <2>8. LateOK' BY <2>1, <2>2 DEF PageInv, LateOK, ModesOf
  <2>9. QED BY <2>3, <2>4, <2>5, <2>6, <2>7, <2>8 DEF PageInv
<1>3. QED BY <1>1, <1>2, Steps DEF PageInv

LEMMA PageInvHolds == Spec => []PageInv
<1>1. Init => PageInv BY InitHolds
<1>2. PageInv /\ [Next]_vars => PageInv' BY StepHolds
<1>3. QED BY <1>1, <1>2, PTL DEF Spec

-----------------------------------------------------------------------------
(* The theorems. *)

LEMMA TypesHold ==
  ASSUME PageInv
  PROVE  TypeOK
<1>1. PageOK /\ CallsOK BY DEF PageInv
<1> USE DEF PageOK
<1>2. \A i \in DOMAIN calls :
        /\ calls[i].action \in Actions
        /\ calls[i].key \in Keys \cup {Settings} \cup ScanModes
        /\ \A j \in DOMAIN calls[i].todo : calls[i].todo[j] \in CellKeys
  <2>1. TAKE i \in DOMAIN calls
  <2>2. PICK c \in Requests : c = calls[i]
    BY <1>1, LenProperties, ElementOfSeq DEF CallsOK
  <2>3. c.action \in Actions /\ c.key \in QueryKeys \cup ScanModes /\ c.todo \in Seq(CellKeys)
    BY DEF Requests
  <2>4. PICK todo \in Seq(CellKeys) : todo = c.todo BY <2>3
  <2>5. \A j \in DOMAIN todo : todo[j] \in CellKeys BY LenProperties, ElementOfSeq
  <2>6. QED BY <2>2, <2>3, <2>4, <2>5 DEF QueryKeys
<1>3. \A key \in Selected : key \in CellKeys
  <2>1. selectedCells \in Seq(CellKeys) BY <1>1 DEF ScanOK
  <2>2. \A i \in DOMAIN selectedCells : selectedCells[i] \in CellKeys
    BY <2>1, LenProperties, ElementOfSeq
  <2>3. QED BY <2>2 DEF Selected, Range
<1>4. /\ inFlight \subseteq Keys \cup {Settings} /\ isGettingBands \in BOOLEAN
      /\ model \in {"-", "RM520N"}
      /\ modelFetch.state \in {"idle", "asking", "asleep", "rejected"}
      /\ modelFetch.attempt \in 0..(ModelTries - 1)
  BY <1>1 DEF QueriesOK, QueryKeys
<1>5. /\ listed \in {{}, Bands, ModelBands}
      /\ loaded \subseteq Modes /\ edited \subseteq Modes /\ doubt \subseteq Modes
      /\ locked \in [Modes -> SUBSET Bands] /\ modem \in [Modes -> SUBSET Bands]
      /\ ticks \in [Modes -> SUBSET listed]
  BY <1>1 DEF BandsOK, BandsShownOK
<1>6. /\ {isGettingBands, showModal, isLoading, resultDoneCell, carried, nrFields} \subseteq BOOLEAN
      /\ countdown \in Int /\ countdown <= Seconds
      /\ loops \in [Keys \cup {"init"} -> Nat]
      /\ retryCount \in [Keys -> 0..RetryLimit] /\ retryTimers \subseteq Keys
      /\ scanMode \in ScanModes
      /\ parsed \in [Networks -> CellLists]
      /\ networkModeCell \in Forms
      /\ cellNum \in 0..MaxCells /\ fields \subseteq FieldsUpTo(MaxCells)
  BY <1>1 DEF QueriesOK, OverlayOK, RetriesOK, ScanOK, FormOK
<1>7. \A c \in late : /\ c.action \in {"lock_bands", "reset_bands"} /\ c.key \in Keys
                     /\ c.arg \subseteq Bands
  BY DEF PageInv, LateOK, Requests, Sound
<1>8. QED BY <1>2, <1>3, <1>4, <1>5, <1>6, <1>7 DEF TypeOK, Actions

\* The page stays in its types: the calls are those it makes, the retries
\* within their limit, the countdown within its length, the cells typed within
\* the pairs of the form (pages/network.js).
THEOREM TypeCorrect == Spec => []TypeOK
<1>1. PageInv => TypeOK BY TypesHold
<1>2. QED BY <1>1, PageInvHolds, PTL

LEMMA QueriesHold ==
  ASSUME PageInv
  PROVE  QueriesOnce
<1>1. /\ calls \in Seq(Requests) /\ inFlight \subseteq QueryKeys
      /\ \A key \in QueryKeys : Awaited(calls, ReadCalls(key), key \in inFlight)
      /\ Awaited(calls, ActionCalls("model"), modelFetch.state = "asking")
      /\ isGettingBands <=> inFlight \ {Settings} # {}
      /\ OverlayHeld /\ loops \in [Keys \cup {"init"} -> Nat]
  BY DEF PageInv, CallsOK, PageOK, QueriesOK, OverlayOK, AskedOnce, Counts
<1>2. \A i \in DOMAIN calls : calls[i] \in Requests BY <1>1, LenProperties, ElementOfSeq
<1>3. ASSUME NEW key \in Keys \cup {Settings}, NEW out,
             out = {i \in DOMAIN calls : calls[i].action \in {"bands", Settings} /\ calls[i].key = key}
      PROVE  Cardinality(out) = IF key \in inFlight THEN 1 ELSE 0
  <2>1. out = {i \in DOMAIN calls : calls[i] \in ReadCalls(key)} BY <1>2, <1>3 DEF ReadCalls
  <2>2. Awaited(calls, ReadCalls(key), key \in inFlight) BY <1>1 DEF QueryKeys
  <2>3. CASE key \in inFlight
    <3>1. OneOf(calls, ReadCalls(key)) BY <2>2, <2>3 DEF Awaited
    <3>2. PICK i \in DOMAIN calls : calls[i] \in ReadCalls(key) BY <3>1 DEF OneOf
    <3>3. out = {i} BY <2>1, <3>1, <3>2 DEF OneOf
    <3>4. Cardinality(out) = 1 BY <3>3, FS_Singleton
    <3>5. QED BY <2>3, <3>4
  <2>4. CASE key \notin inFlight
    <3>1. out = {} BY <2>1, <2>2, <2>4 DEF Awaited, NoneOf
    <3>2. Cardinality(out) = 0 BY <3>1, FS_EmptySet
    <3>3. QED BY <2>4, <3>2
  <2>5. QED BY <2>3, <2>4
<1>4. modelFetch.state = "asking" <=> Has("model")
  BY <1>1, <1>2 DEF Awaited, OneOf, NoneOf, ActionCalls, Has
<1>5. showModal => \E then \in DOMAIN loops : loops[then] > 0 BY <1>1 DEF OverlayHeld
<1>6. QED BY <1>1, <1>3, <1>4, <1>5 DEF QueriesOnce

LEMMA TicksHold ==
  ASSUME PageInv
  PROVE  TicksShowLock
<1>1. SUFFICES ASSUME Quiet, listed # {}, NEW mode \in Modes, mode \notin edited, mode \notin doubt
               PROVE  ticks[mode] = modem[mode] \cap listed
  BY DEF TicksShowLock
<1>2. inFlight = {}
  <2>1. ASSUME NEW key \in inFlight PROVE FALSE
    <3>1. key \in QueryKeys BY DEF PageInv, PageOK, QueriesOK
    <3>2. Awaited(calls, ReadCalls(key), TRUE)
      BY <3>1 DEF PageInv, AskedOnce, Counts, Awaited
    <3>3. \E i \in DOMAIN calls : TRUE BY <3>2 DEF Awaited, OneOf
    <3>4. calls = <<>> BY <1>1 DEF Quiet
    <3>5. QED BY <3>3, <3>4
  <2>2. QED BY <2>1
<1>3. ~ Covered(mode)
  <2>1. \A key \in Keys : loops[key] = 0 BY <1>1 DEF Quiet, PageInv, PageOK, OverlayOK
  <2>2. QED BY <1>1, <1>2, <2>1 DEF Covered, Quiet
<1>4. mode \in loaded BY <1>1, <1>3 DEF PageInv, TicksKept, Coming
<1>5. QED BY <1>1, <1>4 DEF PageInv, TicksKept, Known, Drawn

\* Of each query at most one is out and the page knows it; and once everything
\* has been answered the boxes are ticked as the modem is locked, for any number
\* of modes and bands and any locks, resets, retries and breaks (pages/network.js
\* :378-432, :487-552).
THEOREM BandsRightCorrect == Spec => []BandsRight
<1>1. PageInv => BandsRight BY QueriesHold, TicksHold DEF BandsRight
<1>2. QED BY <1>1, PageInvHolds, PTL

LEMMA SelectionHolds ==
  ASSUME PageInv
  PROVE  SelectionShown
<1>1. ScanOK /\ TableKept BY DEF PageInv, PageOK
<1>2. SUFFICES ASSUME selectedCells # <<>>, ~ carried, ~ isLoading
               PROVE  /\ scanMode \in Networks
                      /\ CellsAsked(scanMode) \subseteq {cell \in Shown : cell.key \in Selected}
                      /\ scanMode = "NR" => Len(selectedCells) = 1
  BY DEF SelectionShown
<1>3. /\ rows = Table(parsed, scanMode) /\ scanMode \in Networks
      /\ KeysShown(selectedCells)
      /\ scanMode = "NR" => Len(selectedCells) = 1
  BY <1>1, <1>2 DEF TableKept
<1>4. rows = parsed[scanMode] BY <1>3 DEF Table, Networks
<1>5. ASSUME NEW key \in Selected
      PROVE  getCellDetails(key, scanMode) \in {cell \in Shown : cell.key \in Selected}
  <2>1. \E cell \in Shown : cell.key = key BY <1>3 DEF KeysShown, Selected
  <2>2. \E i \in DOMAIN parsed[scanMode] : parsed[scanMode][i].key = key
    BY <1>4, <2>1 DEF Shown
  <2>3. /\ \E i \in DOMAIN parsed[scanMode] :
             getCellDetails(key, scanMode) = parsed[scanMode][i]
        /\ getCellDetails(key, scanMode).key = key
    BY <1>1, <1>3, <2>2, CellFound
  <2>4. QED BY <1>4, <2>3 DEF Shown
<1>6. CellsAsked(scanMode) \subseteq {cell \in Shown : cell.key \in Selected}
  BY <1>5 DEF CellsAsked
<1>7. QED BY <1>3, <1>6

\* A lock of cells asks for cells the table shows ticked, one at most of NR, and
\* nothing is kept in a hidden field of the LTE form, for any cells, keys and
\* number of pairs (pages/network.js:166; README.md:378-379).
THEOREM LocksAsShownCorrect == Spec => []LocksAsShown
<1>1. PageInv => LocksAsShown BY SelectionHolds DEF LocksAsShown, PageInv
<1>2. QED BY <1>1, PageInvHolds, PTL

=============================================================================
