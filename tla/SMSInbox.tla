------------------------------ MODULE SMSInbox ------------------------------
(***************************************************************************)
(* The SMS page (pages/sms.js) and the part of the service behind it       *)
(* (handleSMSData, parseSMSListAT and mergeSMSFragments in                 *)
(* structured_api.go).                                                     *)
(*                                                                         *)
(* The modem keeps messages, and parts of long ones, in numbered slots and *)
(* fills free slots as they arrive.  The service reads the slots, merges   *)
(* the parts, and deletes slots.  The page shows what it was sent last; a  *)
(* timer polls for the indices and, when these have changed and seem       *)
(* settled, for the list.  The user refreshes, selects, deletes, opens a   *)
(* message, and leaves the page and comes back, with calls under way.      *)
(*                                                                         *)
(* Abstractions.  A part is a record, its text is itself.  A list is       *)
(* represented by the slots it was read from, its merged messages by       *)
(* Merge.  Different long messages have different references.  The calls   *)
(* of the page share a socket, so they are served and answered in order.   *)
(* A read of the modem may fail (the page then gets a list without         *)
(* messages) or take too long (it gets the cached list), a deletion may    *)
(* fail half-way, or take too long and be done later, a call may be lost   *)
(* with the socket.  Only this page deletes.                               *)
(***************************************************************************)
EXTENDS Naturals, Sequences, FiniteSets, Functions

CONSTANTS
  Plain,      \* messages of one part, each from a sender of its own
  Long,       \* messages of LongTotal parts
  LongTotal,
  MaxSlot,    \* slots of the modem: 0 .. MaxSlot
  MaxActs,    \* bound on what the user does
  MaxFaults   \* bound on reads, deletions and calls that go wrong

ASSUME InboxAssumption ==
  /\ LongTotal \in Nat \ {0, 1} /\ MaxSlot \in Nat
  /\ MaxActs \in Nat /\ MaxFaults \in Nat
  /\ Plain \intersect Long = {}

VARIABLES
  store,      \* the modem's slots
  arrived,    \* parts that have arrived
  cache,      \* the list the service read last
  late,       \* deletions the service gave up waiting for, not yet done
  active,     \* the SMS page is the visible one
  timer,      \* smsAutoRefreshTimer is set
  inFlight,   \* smsAutoRefreshInFlight
  loading,    \* isLoading
  view,       \* the list on display
  selected,   \* selectedMessages, positions in the list
  detail,     \* activeMessageIndex, or 0
  pending,    \* the smsPending variables
  calls,      \* calls of the page, the oldest first
  acts, faults,
  reused      \* history: a slot was filled a second time

modemVars == <<store, arrived, reused>>
pageVars  == <<active, timer, inFlight, loading, view, selected, detail, pending>>
vars == <<modemVars, cache, late, pageVars, calls, acts, faults>>
-----------------------------------------------------------------------------
Slots   == 0 .. MaxSlot
Nil     == "<nil>"        \* what fmt.Sprint makes of a missing concatRef

Parts ==
  {[msg |-> m, ref |-> Nil, seq |-> 0, total |-> 0] : m \in Plain}
    \union {[msg |-> m, ref |-> m, seq |-> i, total |-> LongTotal] :
              m \in Long, i \in 1 .. LongTotal}

\* A list maps the occupied slots to what is in them.
Lists       == UNION {Injection(S, Parts) : S \in SUBSET Slots}
Empty       == <<>>
Occupied(l) == DOMAIN l

(***************************************************************************)
(* parseSMSListAT: an entry per slot; entries of the same concatRef become *)
(* one message, at the place of the first.                                 *)
(***************************************************************************)
Group(l, s) == {t \in Occupied(l) : l[t].ref = l[s].ref}

\* The slots of a set in the order of a relation.
Sorted(slots, before) ==
  CHOOSE order \in [1 .. Cardinality(slots) -> slots] :
    \A i, j \in DOMAIN order : i < j => <<order[i], order[j]>> \in before

BySlot   == {pair \in Slots \X Slots : pair[1] < pair[2]}
BySeq(l) ==
  {pair \in Occupied(l) \X Occupied(l) :
     \/ l[pair[1]].seq < l[pair[2]].seq
     \/ l[pair[1]].seq = l[pair[2]].seq /\ pair[1] < pair[2]}

\* Mutant: fragments stay in the order of their slots.
OrderedBySlot(l, group) == [i \in 1 .. Cardinality(group) |-> l[Sorted(group, BySlot)[i]]]

Ordered(l, group) == [i \in 1 .. Cardinality(group) |-> l[Sorted(group, BySeq(l))[i]]]

Message(l, s) ==
  [indices |-> Group(l, s), text |-> Ordered(l, Group(l, s)),
   head |-> [l[s] EXCEPT !.seq = IF Group(l, s) = {s} THEN @ ELSE 0]]

Heads(l) == {s \in Occupied(l) : \A t \in Group(l, s) : s <= t}

MessagesIn(l) == [i \in 1 .. Cardinality(Heads(l)) |-> Message(l, Sorted(Heads(l), BySlot)[i])]

Merged   == [l \in Lists |-> MessagesIn(l)]
Merge(l) == Merged[l]

\* makeSMSMetaSignature: a message without its text.
Meta(l) == [i \in DOMAIN Merge(l) |-> [Merge(l)[i] EXCEPT !.text = <<>>]]

Incomplete(l) ==
  \E i \in DOMAIN Merge(l) :
    Cardinality(Merge(l)[i].indices) < Merge(l)[i].head.total

\* The parts in the messages at some positions.
PartsAt(l, positions) == {l[s] : s \in UNION {Merge(l)[i].indices : i \in positions}}
-----------------------------------------------------------------------------
(***************************************************************************)
(* The page.                                                               *)
(***************************************************************************)
NotPending == [list |-> Empty, stable |-> 0, overdue |-> FALSE]
Seen(l)    == [list |-> l, stable |-> 1, overdue |-> FALSE]

\* (overdue: history, a poll had waited long enough when the call was issued.)
Call(op, slots) ==
  [op |-> op, slots |-> slots, reply |-> "none", list |-> Empty, overdue |-> FALSE]

Issue(op, slots) == calls' = Append(calls, Call(op, slots))

\* The head of the calls is settled; its handler issues one more.
Settle           == calls' = Tail(calls)
SettleWith(next) == calls' = Append(Tail(calls), next)

\* Mutant: selection and open message are not reset.
ApplyBare(l) == view' = l /\ pending' = NotPending /\ UNCHANGED <<selected, detail>>

\* applySMSData without keepDetail and keepSelection.
Apply(l) == view' = l /\ selected' = {} /\ detail' = 0 /\ pending' = NotPending

\* Mutant: selection and open message stay at their positions.
ApplyKeepingPositions(l) ==
  /\ view' = l /\ pending' = NotPending
  /\ selected' = selected \intersect DOMAIN Merge(l)
  /\ detail' = IF detail \in DOMAIN Merge(l) THEN detail ELSE 0

\* applySMSData with both: messages are found again by their keys.
ApplyKeeping(l) ==
  LET old == Merge(view)
      new == Merge(l)
  IN /\ view' = l /\ pending' = NotPending
     /\ selected' = {i \in DOMAIN new : \E j \in selected : old[j] = new[i]}
     /\ detail' = IF detail # 0 /\ \E i \in DOMAIN new : new[i] = old[detail]
                    THEN CHOOSE i \in DOMAIN new : new[i] = old[detail]
                    ELSE 0

\* The page has just been mounted: init has issued its call, page-changed has
\* started the timer.
Init ==
  /\ store = Empty /\ arrived = {} /\ cache = Empty /\ late = {}
  /\ active = TRUE /\ timer = TRUE /\ inFlight = FALSE /\ loading = TRUE
  /\ view = Empty /\ selected = {} /\ detail = 0 /\ pending = NotPending
  /\ calls = <<Call("init", {})>>
  /\ acts = 0 /\ faults = 0 /\ reused = FALSE

Act == acts < MaxActs /\ acts' = acts + 1

Refresh ==
  /\ Act /\ active
  /\ Apply(Empty) /\ loading' = TRUE /\ Issue("init", {})
  /\ UNCHANGED <<modemVars, cache, late, active, timer, inFlight, faults>>

Leave ==
  /\ Act /\ active
  /\ active' = FALSE /\ timer' = FALSE /\ inFlight' = FALSE
  /\ pending' = NotPending /\ detail' = 0
  /\ UNCHANGED <<modemVars, cache, late, loading, view, selected, calls, faults>>

Enter ==
  /\ Act /\ ~active
  /\ active' = TRUE /\ timer' = TRUE
  /\ UNCHANGED <<modemVars, cache, late, inFlight, loading, view, selected, detail,
                 pending, calls, faults>>

\* Check boxes, toggleAll.  A list that is loading has no boxes.
Select ==
  /\ Act /\ active
  /\ selected' \in IF loading THEN {{}, DOMAIN Merge(view)} ELSE SUBSET DOMAIN Merge(view)
  /\ selected' # selected
  /\ UNCHANGED <<modemVars, cache, late, active, timer, inFlight, loading, view,
                 detail, pending, calls, faults>>

OpenMessage(i) ==
  /\ Act /\ active /\ ~loading /\ i \in DOMAIN Merge(view) /\ detail = 0
  /\ detail' = i
  /\ UNCHANGED <<modemVars, cache, late, active, timer, inFlight, loading, view,
                 selected, pending, calls, faults>>

\* The button of the message, or Escape.
CloseMessage ==
  /\ detail # 0 /\ detail' = 0
  /\ UNCHANGED <<modemVars, cache, late, active, timer, inFlight, loading, view,
                 selected, pending, calls, acts, faults>>

\* deleteSelectedSMS: deleteAllSMS when all that is shown is selected.
DeleteSelected ==
  /\ Act /\ active /\ selected # {}
  /\ IF selected = DOMAIN Merge(view)
       THEN Issue("all", Slots)
       ELSE Issue("delete", UNION {Merge(view)[i].indices : i \in selected})
  /\ UNCHANGED <<modemVars, cache, late, pageVars, faults>>

AutoRefresh ==
  /\ timer /\ active /\ ~inFlight /\ ~loading
  /\ inFlight' = TRUE /\ Issue("meta", {})
  /\ UNCHANGED <<modemVars, cache, late, active, timer, loading, view, selected,
                 detail, pending, acts, faults>>

\* smsPendingMaxWaitMs has passed since the pending list was first seen.
WaitOut ==
  /\ pending.stable > 0 /\ ~pending.overdue
  /\ pending' = [pending EXCEPT !.overdue = TRUE]
  /\ UNCHANGED <<modemVars, cache, late, active, timer, inFlight, loading, view,
                 selected, detail, calls, acts, faults>>

Answered(op) == calls # <<>> /\ Head(calls).op = op /\ Head(calls).reply # "none"
Arrives      == Head(calls).reply = "ok"

\* requestSMS of init, of a deletion: then and finally.
OnList(op) ==
  /\ Answered(op) /\ Settle
  /\ loading' = FALSE
  /\ timer' = (timer \/ (op = "init" /\ active))
  /\ IF Arrives THEN Apply(Head(calls).list)
                ELSE UNCHANGED <<view, selected, detail, pending>>
  /\ UNCHANGED <<modemVars, cache, late, active, inFlight, acts, faults>>

OnDeleted ==
  /\ Answered("delete") /\ SettleWith(Call("list", {}))
  /\ selected' = {} /\ loading' = TRUE
  /\ UNCHANGED <<modemVars, cache, late, active, timer, inFlight, view, detail,
                 pending, acts, faults>>

OnAllDeleted ==
  /\ Answered("all") /\ SettleWith(Call("init", {}))
  /\ Apply(Empty) /\ loading' = TRUE
  /\ UNCHANGED <<modemVars, cache, late, active, timer, inFlight, acts, faults>>

SamePending(l) ==
  /\ pending.stable > 0
  /\ Occupied(l) = Occupied(pending.list) /\ Meta(l) = Meta(pending.list)

\* Mutant: an incomplete message is not waited for.
ReadyIncomplete(p) == p.overdue \/ p.stable = 2

\* handlePolledSMSMeta, when the poll goes on to the list.
Ready(p) == p.overdue \/ (p.stable = 2 /\ ~Incomplete(p.list))

Polled(l) == IF SamePending(l) THEN [pending EXCEPT !.stable = 2] ELSE Seen(l)

Fetch(p) == [Call("stable", Occupied(p.list)) EXCEPT !.overdue = p.overdue]

\* Mutant: only new indices count as a change.
OnMetaGrowth ==
  /\ Answered("meta")
  /\ LET l == Head(calls).list IN
     IF ~Arrives \/ ~active \/ Occupied(l) \subseteq Occupied(view)
       THEN /\ Settle /\ inFlight' = FALSE
            /\ pending' = IF Arrives /\ active THEN NotPending ELSE pending
       ELSE /\ pending' = Polled(l)
            /\ IF Ready(Polled(l))
                 THEN SettleWith(Fetch(Polled(l))) /\ UNCHANGED inFlight
                 ELSE Settle /\ inFlight' = FALSE
  /\ UNCHANGED <<modemVars, cache, late, active, timer, loading, view, selected,
                 detail, acts, faults>>

OnMeta ==
  /\ Answered("meta")
  /\ LET l == Head(calls).list IN
     IF ~Arrives \/ ~active \/ Occupied(l) = Occupied(view)
       THEN /\ Settle /\ inFlight' = FALSE
            /\ pending' = IF Arrives /\ active THEN NotPending ELSE pending
       ELSE /\ pending' = Polled(l)
            /\ IF Ready(Polled(l))
                 THEN SettleWith(Fetch(Polled(l))) /\ UNCHANGED inFlight
                 ELSE Settle /\ inFlight' = FALSE
  /\ UNCHANGED <<modemVars, cache, late, active, timer, loading, view, selected,
                 detail, acts, faults>>

\* fetchStableSMSList.  No indices are the empty string, which is not compared.
OnStable ==
  LET l        == Head(calls).list
      expected == Head(calls).slots
  IN /\ Answered("stable") /\ Settle /\ inFlight' = FALSE
     /\ CASE ~Arrives \/ ~active ->
               UNCHANGED <<view, selected, detail, pending>>
          [] Arrives /\ active /\ Occupied(l) = Occupied(view) ->
               pending' = NotPending /\ UNCHANGED <<view, selected, detail>>
          [] Arrives /\ active /\ Occupied(l) # Occupied(view)
               /\ expected # {} /\ Occupied(l) # expected ->
               pending' = Seen(l) /\ UNCHANGED <<view, selected, detail>>
          [] OTHER -> ApplyKeeping(l)
     /\ UNCHANGED <<modemVars, cache, late, active, timer, loading, acts, faults>>
-----------------------------------------------------------------------------
(***************************************************************************)
(* The service and the modem.                                              *)
(***************************************************************************)
Waiting == {i \in DOMAIN calls : calls[i].reply = "none"}

Reads == {"init", "list", "meta", "stable"}

\* The oldest call without a reply is answered; the service takes them in order.
Reply(list) ==
  \E i \in Waiting :
    /\ \A j \in Waiting : i <= j
    /\ calls' = [calls EXCEPT ![i].reply = "ok", ![i].list = list]

Oldest == calls[CHOOSE i \in Waiting : \A j \in Waiting : i <= j]

Fault == faults < MaxFaults /\ faults' = faults + 1

\* handleSMSData list and list_meta: the list is read by force, through the cache.
ReadList ==
  /\ Waiting # {} /\ Oldest.op \in Reads
  /\ Reply(store) /\ cache' = store
  /\ UNCHANGED <<modemVars, late, pageVars, acts, faults>>

\* The modem does not answer in time: the page gets the cached list, which the
\* answer may replace later; or it answers with an error, which has no messages
\* and replaces the cached list.
ReadFails ==
  /\ Fault /\ Waiting # {} /\ Oldest.op \in Reads
  /\ \/ Reply(cache) /\ cache' \in {cache, store}
     \/ Reply(Empty) /\ cache' = Empty
  /\ UNCHANGED <<modemVars, late, pageVars, acts>>

Without(slots) == [s \in Occupied(store) \ slots |-> store[s]]

\* handleSMSData delete_indices and delete_all.
Delete ==
  /\ Waiting # {} /\ Oldest.op \notin Reads
  /\ Reply(Empty) /\ store' = Without(Oldest.slots)
  /\ UNCHANGED <<arrived, reused, cache, late, pageVars, acts, faults>>

\* The modem deletes some of the slots and then fails, or the service stops
\* waiting for the deletion, which stays queued.
DeleteFails ==
  /\ Fault /\ Waiting # {} /\ Oldest.op \notin Reads
  /\ Reply(Empty)
  /\ \/ \E done \in SUBSET Oldest.slots : store' = Without(done) /\ UNCHANGED late
     \/ late' = late \union {Oldest.slots} /\ UNCHANGED store
  /\ UNCHANGED <<arrived, reused, cache, pageVars, acts>>

LateDelete ==
  \E slots \in late :
    /\ late' = late \ {slots} /\ store' = Without(slots)
    /\ UNCHANGED <<arrived, reused, cache, pageVars, calls, acts, faults>>

\* The socket breaks (ApiChannel): the page's calls are rejected, those the
\* service has already read may still be executed.
Break ==
  /\ Fault /\ calls # <<>>
  /\ calls' = [i \in DOMAIN calls |-> [calls[i] EXCEPT !.reply = "lost"]]
  /\ \E done \in SUBSET {i \in Waiting : calls[i].op \notin Reads} :
       late' = late \union {calls[i].slots : i \in done}
  /\ UNCHANGED <<modemVars, cache, pageVars, acts>>

\* A part arrives; the modem puts it into its first free slot.
Arrive(p) ==
  \E s \in Slots :
    /\ p \notin arrived
    /\ s \notin Occupied(store) /\ 0 .. s - 1 \subseteq Occupied(store)
    /\ store' = [t \in Occupied(store) \union {s} |-> IF t = s THEN p ELSE store[t]]
    /\ arrived' = arrived \union {p}
    /\ reused' = (reused \/ Cardinality(arrived) # Cardinality(Occupied(store)))
    /\ UNCHANGED <<cache, late, pageVars, calls, acts, faults>>
-----------------------------------------------------------------------------
UserStep ==
  \/ Refresh \/ Leave \/ Enter \/ Select \/ DeleteSelected
  \/ (\E i \in DOMAIN Merge(view) : OpenMessage(i)) \/ CloseMessage

PageStep == OnList("init") \/ OnList("list") \/ OnDeleted \/ OnAllDeleted \/ OnMeta \/ OnStable

ServiceStep == ReadList \/ Delete

Next ==
  \/ UserStep \/ AutoRefresh \/ WaitOut \/ PageStep
  \/ ServiceStep \/ ReadFails \/ DeleteFails \/ LateDelete \/ Break
  \/ \E p \in Parts : Arrive(p)

Spec == Init /\ [][Next]_vars

\* The timers fire, the page handles its events, the service serves, a queued
\* deletion is done.
FairSpec ==
  /\ Spec
  /\ WF_vars(AutoRefresh) /\ WF_vars(WaitOut) /\ WF_vars(PageStep)
  /\ WF_vars(ServiceStep) /\ WF_vars(LateDelete)
-----------------------------------------------------------------------------
(***************************************************************************)
(* Properties.                                                             *)
(***************************************************************************)
\* Types; and selection and open message are positions of the list on display,
\* a poll is under way only while something answers it, the timer runs while the
\* page is visible.
TypeOK ==
  /\ store \in Lists /\ cache \in Lists /\ view \in Lists /\ arrived \subseteq Parts
  /\ late \subseteq SUBSET Slots
  /\ {active, timer, inFlight, loading, reused} \subseteq BOOLEAN
  /\ selected \subseteq DOMAIN Merge(view)
  /\ detail = 0 \/ detail \in DOMAIN Merge(view)
  /\ inFlight => \E i \in DOMAIN calls : calls[i].op \in {"meta", "stable"}
  /\ timer = active
  /\ pending.list \in Lists /\ pending.stable \in 0 .. 2 /\ pending.overdue \in BOOLEAN
  /\ \A i \in DOMAIN calls :
       calls[i].list \in Lists /\ calls[i].slots \subseteq Slots
  /\ acts \in 0 .. MaxActs /\ faults \in 0 .. MaxFaults

\* A long message is shown in the order in which it was written, whatever order
\* its parts arrived in, and has parts of no other message.
LongInOrder ==
  \A i \in DOMAIN Merge(view) :
    LET m == Merge(view)[i] IN
    m.head.ref # Nil =>
      \A j, k \in DOMAIN m.text :
        m.text[j].msg = m.text[k].msg /\ (j < k => m.text[j].seq < m.text[k].seq)

\* The page never ticks or opens what the user has not: when the list on
\* display is replaced, the selected parts are among those that were selected,
\* the open message is the one that was open.
SelectionKept ==
  [][view' # view =>
       /\ PartsAt(view', selected') \subseteq PartsAt(view, selected)
       /\ detail' # 0 => Merge(view')[detail'] = Merge(view)[detail]]_vars

\* A poll does not put a message on display that lacks parts, unless it has
\* waited for the missing ones long enough.  Not promised: after a poll that
\* saw an empty inbox, and when slots were filled a second time in between.
NoHalfShown ==
  [][view' # view /\ Incomplete(view') /\ ~reused
       /\ Head(calls).op = "stable" /\ Head(calls).slots # {}
       => Head(calls).overdue]_vars

\* A page that stays visible ends up with the slots the modem has, and with
\* what is in them unless a slot was filled a second time: whatever failed, was
\* late or lost before, and whoever left the page and came back.
ShownInTheEnd ==
  <>[]active =>
    <>[](Occupied(view) = Occupied(store) /\ (reused \/ view = store))

\* Plain messages of different senders are different messages (README.md:934:
\* without UDH only those of one sender, within 5 s, in adjacent slots belong
\* together).
PlainKeptApart ==
  \A i \in DOMAIN Merge(view) :
    Merge(view)[i].head.ref = Nil => Cardinality(Merge(view)[i].indices) = 1
=============================================================================
