---------------------------- MODULE SMSInboxProofs ----------------------------
(***************************************************************************)
(* Theorems about SMSInbox: the types, the order of a long message's       *)
(* parts, the selection across a replaced list, and that a poll shows no   *)
(* half of a message.                                                      *)
(*                                                                         *)
(* First that the slots of a set can be sorted, each to the place that is  *)
(* the number of those before it; so a merged text has the parts of its    *)
(* slots and no others, in the order of their numbers.  Every list comes   *)
(* from one that was there before or from the modem (Sources).  While no   *)
(* slot is filled twice there is one filling h of the slots of which every *)
(* list is a part (Filled).  Two lists of the same slots are then the same *)
(* list, and the list that a poll fetches is the one whose indices it saw  *)
(* twice, in which no message lacked parts (Whole).                        *)
(***************************************************************************)
EXTENDS SMSInbox, SequenceTheorems, FiniteSetTheorems, TLAPS

-----------------------------------------------------------------------------
(* Lists and parts. *)

LEMMA PartFields ==
  ASSUME NEW p \in Parts
  PROVE  /\ p = [msg |-> p.msg, ref |-> p.ref, seq |-> p.seq, total |-> p.total]
         /\ p.seq \in Nat
         /\ p.ref # Nil => p.ref = p.msg /\ p.total = LongTotal
<1>1. CASE p \in {[msg |-> m, ref |-> Nil, seq |-> 0, total |-> 0] : m \in Plain} BY <1>1
<1>2. CASE p \in {[msg |-> m, ref |-> m, seq |-> i, total |-> LongTotal] : m \in Long, i \in 1 .. LongTotal}
  BY <1>2, InboxAssumption
<1>3. QED BY <1>1, <1>2 DEF Parts

LEMMA ListFields ==
  ASSUME NEW l \in Lists
  PROVE  /\ Occupied(l) \subseteq Slots /\ l = [s \in Occupied(l) |-> l[s]]
         /\ \A s \in Occupied(l) : l[s] \in Parts
         /\ \A s, t \in Occupied(l) : l[s] = l[t] => s = t
<1>1. PICK S \in SUBSET Slots : l \in Injection(S, Parts) BY DEF Lists
<1>2. l \in [S -> Parts] /\ IsInjective(l) BY <1>1 DEF Injection
<1>3. QED BY <1>2 DEF Occupied, IsInjective

LEMMA IsAList ==
  ASSUME NEW S \in SUBSET Slots, NEW l \in [S -> Parts],
         \A s, t \in S : l[s] = l[t] => s = t
  PROVE  l \in Lists /\ Occupied(l) = S
<1>1. l \in Injection(S, Parts) BY DEF Injection, IsInjective
<1>2. QED BY <1>1 DEF Lists, Occupied

LEMMA EmptyIsList == Empty \in Lists /\ Occupied(Empty) = {}
<1>1. Empty = [s \in {} |-> s] BY DEF Empty
<1>2. Empty \in [{} -> Parts] BY <1>1
<1>3. QED BY <1>2, IsAList

LEMMA SlotsFinite ==
  ASSUME NEW S \in SUBSET Slots PROVE IsFiniteSet(S) /\ Cardinality(S) \in Nat
<1>1. IsFiniteSet(Slots) BY InboxAssumption, FS_Interval DEF Slots
<1>2. IsFiniteSet(S) BY <1>1, FS_Subset
<1>3. QED BY <1>2, FS_CardinalityType

-----------------------------------------------------------------------------
(* Sorting.  The place of an element is the number of those before it: it    *)
(* is one to one, so every place is taken.                                   *)

Orders(R, S) ==
  /\ \A s \in S : <<s, s>> \notin R
  /\ \A s, t \in S : s # t => <<s, t>> \in R \/ <<t, s>> \in R
  /\ \A s, t, u \in S : <<s, t>> \in R /\ <<t, u>> \in R => <<s, u>> \in R

Upto(R, S, s) == {t \in S : t = s \/ <<t, s>> \in R}

LEMMA PlacesGrow ==
  ASSUME NEW S, IsFiniteSet(S), NEW R, Orders(R, S), NEW s \in S, NEW t \in S, <<s, t>> \in R
  PROVE  Cardinality(Upto(R, S, s)) < Cardinality(Upto(R, S, t))
<1>1. Upto(R, S, s) \subseteq Upto(R, S, t) BY DEF Upto, Orders
<1>2. t \in Upto(R, S, t) /\ t \notin Upto(R, S, s) BY DEF Upto, Orders
<1>3. Upto(R, S, t) \subseteq S BY DEF Upto
<1>4. IsFiniteSet(Upto(R, S, t)) BY <1>3, FS_Subset
<1>5. IsFiniteSet(Upto(R, S, s)) BY <1>1, <1>4, FS_Subset
<1>6. Cardinality(Upto(R, S, s)) <= Cardinality(Upto(R, S, t)) BY <1>1, <1>4, FS_Subset
<1>7. Cardinality(Upto(R, S, s)) # Cardinality(Upto(R, S, t)) BY <1>1, <1>2, <1>4, FS_Subset
<1>8. Cardinality(Upto(R, S, s)) \in Nat /\ Cardinality(Upto(R, S, t)) \in Nat
  BY <1>4, <1>5, FS_CardinalityType
<1>9. QED BY <1>6, <1>7, <1>8

LEMMA SortExists ==
  ASSUME NEW S, IsFiniteSet(S), NEW R, Orders(R, S)
  PROVE  \E order \in [1 .. Cardinality(S) -> S] :
           /\ \A i, j \in 1 .. Cardinality(S) : i < j => <<order[i], order[j]>> \in R
           /\ \A s \in S : \E i \in 1 .. Cardinality(S) : order[i] = s
<1>1. PICK n \in Nat : n = Cardinality(S) BY FS_CardinalityType
<1>2. PICK place : place = [s \in S |-> Cardinality(Upto(R, S, s))] OBVIOUS
<1>3. ASSUME NEW s \in S PROVE place[s] \in 1 .. n
  <2>1. Upto(R, S, s) \in SUBSET S /\ s \in Upto(R, S, s) BY DEF Upto
  <2>2. IsFiniteSet(Upto(R, S, s)) /\ Cardinality(Upto(R, S, s)) <= n BY <1>1, <2>1, FS_Subset
  <2>3. Cardinality(Upto(R, S, s)) \in Nat BY <2>2, FS_CardinalityType
  <2>4. Cardinality(Upto(R, S, s)) # 0 BY <2>1, <2>2, FS_EmptySet
  <2>5. QED BY <1>2, <2>2, <2>3, <2>4
<1>4. \A s, t \in S : <<s, t>> \in R => place[s] < place[t] BY <1>2, PlacesGrow
<1>5. ASSUME NEW s \in S, NEW t \in S, place[s] = place[t] PROVE s = t
  <2>1. place[s] \in Nat /\ place[t] \in Nat BY <1>3
  <2>2. ~ place[s] < place[t] /\ ~ place[t] < place[s] BY <1>5, <2>1
  <2>3. <<s, t>> \notin R /\ <<t, s>> \notin R BY <1>4, <2>2
  <2>4. QED BY <2>3 DEF Orders
<1>6. place \in Injection(S, 1 .. n)
  <2>1. place \in [S -> 1 .. n] BY <1>2, <1>3
  <2>2. IsInjective(place) BY <1>5, <2>1 DEF IsInjective
  <2>3. QED BY <2>1, <2>2 DEF Injection
<1>7. IsFiniteSet(1 .. n) /\ Cardinality(1 .. n) = n BY FS_Interval
<1>8. place \in Surjection(S, 1 .. n) BY <1>1, <1>6, <1>7, FS_Injection
<1>9. \A i \in 1 .. n : \E s \in S : place[s] = i BY <1>8 DEF Surjection
<1>10. PICK order : order = [i \in 1 .. n |-> CHOOSE s : s \in S /\ place[s] = i] OBVIOUS
<1>11. \A i \in 1 .. n : order[i] \in S /\ place[order[i]] = i BY <1>9, <1>10
<1>12. order \in [1 .. n -> S] BY <1>10, <1>11
<1>13. ASSUME NEW i \in 1 .. n, NEW j \in 1 .. n, i < j PROVE <<order[i], order[j]>> \in R
  <2>1. order[i] \in S /\ order[j] \in S /\ place[order[i]] = i /\ place[order[j]] = j BY <1>11
  <2>2. ~ j < i /\ i # j BY <1>13
  <2>3. <<order[j], order[i]>> \notin R BY <1>4, <2>1, <2>2
  <2>4. QED BY <2>1, <2>2, <2>3 DEF Orders
<1>14. \A s \in S : \E i \in 1 .. n : order[i] = s
  <2>1. ASSUME NEW s \in S PROVE order[place[s]] = s BY <1>3, <1>5, <1>11
  <2>2. QED BY <1>3, <2>1
<1>15. QED BY <1>1, <1>12, <1>13, <1>14

\* What Sorted returns, when there is an order: every slot, each once, in order.
LEMMA SortedAt ==
  ASSUME NEW S, IsFiniteSet(S), NEW R, Orders(R, S)
  PROVE  /\ Sorted(S, R) \in [1 .. Cardinality(S) -> S]
         /\ \A i, j \in 1 .. Cardinality(S) : i < j => <<Sorted(S, R)[i], Sorted(S, R)[j]>> \in R
         /\ \A s \in S : \E i \in 1 .. Cardinality(S) : Sorted(S, R)[i] = s
<1>1. \E order \in [1 .. Cardinality(S) -> S] :
        \A i, j \in DOMAIN order : i < j => <<order[i], order[j]>> \in R
  <2>1. PICK order \in [1 .. Cardinality(S) -> S] :
          \A i, j \in 1 .. Cardinality(S) : i < j => <<order[i], order[j]>> \in R
    BY SortExists
  <2>2. DOMAIN order = 1 .. Cardinality(S) OBVIOUS
  <2>3. QED BY <2>1, <2>2
<1>2. PICK order : order = Sorted(S, R) OBVIOUS
<1>3. /\ order \in [1 .. Cardinality(S) -> S]
      /\ \A i, j \in DOMAIN order : i < j => <<order[i], order[j]>> \in R
  BY <1>1, <1>2 DEF Sorted
<1>4. PICK n \in Nat : n = Cardinality(S) BY FS_CardinalityType
<1>5. ASSUME NEW i \in 1 .. n, NEW j \in 1 .. n, order[i] = order[j] PROVE i = j
  <2>1. order[i] \in S /\ order[j] \in S BY <1>3, <1>4
  <2>2. <<order[i], order[j]>> \notin R /\ <<order[j], order[i]>> \notin R
    BY <1>5, <2>1 DEF Orders
  <2>3. ~ i < j /\ ~ j < i BY <1>3, <1>4, <2>2
  <2>4. QED BY <2>3
<1>6. order \in Injection(1 .. n, S)
  BY <1>3, <1>4, <1>5 DEF Injection, IsInjective
<1>7. Cardinality(1 .. n) = n BY FS_Interval
<1>8. order \in Surjection(1 .. n, S) BY <1>4, <1>6, <1>7, FS_Injection
<1>9. \A s \in S : \E i \in 1 .. n : order[i] = s BY <1>8 DEF Surjection
<1>10. QED BY <1>2, <1>3, <1>4, <1>9

LEMMA BySlotOrders == ASSUME NEW S \in SUBSET Slots PROVE Orders(BySlot, S)
<1>1. \A s \in S : s \in Nat BY InboxAssumption DEF Slots
<1>2. \A s, t \in S : <<s, t>> \in BySlot <=> s < t BY DEF BySlot
<1>3. QED BY <1>1, <1>2 DEF Orders

LEMMA BySeqAt ==
  ASSUME NEW l \in Lists, NEW s \in Occupied(l), NEW t \in Occupied(l)
  PROVE  <<s, t>> \in BySeq(l) <=> l[s].seq < l[t].seq \/ (l[s].seq = l[t].seq /\ s < t)
  BY DEF BySeq

LEMMA BySeqOrders ==
  ASSUME NEW l \in Lists, NEW S \in SUBSET Occupied(l) PROVE Orders(BySeq(l), S)
<1>1. \A s \in S : s \in Nat /\ l[s].seq \in Nat
  BY ListFields, PartFields, InboxAssumption DEF Slots
<1>2. \A s, t \in S : <<s, t>> \in BySeq(l) <=>
        l[s].seq < l[t].seq \/ (l[s].seq = l[t].seq /\ s < t)
  BY BySeqAt
<1>3. QED BY <1>1, <1>2 DEF Orders

-----------------------------------------------------------------------------
(* Merging.  A merged message is that of a slot, and its text has the parts  *)
(* of its slots and no others.                                               *)

LEMMA MergeAt ==
  ASSUME NEW l \in Lists, NEW i \in DOMAIN Merge(l)
  PROVE  \E s \in Occupied(l) : Merge(l)[i] = Message(l, s)
<1>1. Merge(l) = MessagesIn(l) BY DEF Merge, Merged
<1>2. Heads(l) \subseteq Occupied(l) /\ Heads(l) \in SUBSET Slots BY ListFields DEF Heads
<1>3. PICK n \in Nat : n = Cardinality(Heads(l)) BY <1>2, SlotsFinite
<1>4. i \in 1 .. n /\ Merge(l)[i] = Message(l, Sorted(Heads(l), BySlot)[i])
  BY <1>1, <1>3 DEF MessagesIn
<1>5. Sorted(Heads(l), BySlot) \in [1 .. n -> Heads(l)]
  BY <1>2, <1>3, SlotsFinite, BySlotOrders, SortedAt
<1>6. QED BY <1>2, <1>4, <1>5

LEMMA MergeNothing == DOMAIN Merge(Empty) = {}
<1>1. Merge(Empty) = MessagesIn(Empty) BY EmptyIsList DEF Merge, Merged
<1>2. Heads(Empty) = {} BY EmptyIsList DEF Heads
<1>3. Cardinality(Heads(Empty)) = 0 BY <1>2, FS_EmptySet
<1>4. DOMAIN MessagesIn(Empty) = 1 .. 0 BY <1>3 DEF MessagesIn
<1>5. QED BY <1>1, <1>4

\* What a message of a list is made of.
LEMMA MessageFields ==
  ASSUME NEW l \in Lists, NEW s \in Occupied(l), NEW m, m = Message(l, s)
  PROVE  /\ m.indices = Group(l, s) /\ m.text = Ordered(l, Group(l, s)) /\ m.head.ref = l[s].ref
         /\ s \in Group(l, s) /\ Group(l, s) \in SUBSET Occupied(l) /\ Group(l, s) \in SUBSET Slots
<1>1. m.indices = Group(l, s) /\ m.text = Ordered(l, Group(l, s)) BY DEF Message
<1>2. m.head.ref = l[s].ref
  <2>1. l[s] \in Parts BY ListFields
  <2>2. PICK p : p = l[s] OBVIOUS
  <2>3. p = [msg |-> p.msg, ref |-> p.ref, seq |-> p.seq, total |-> p.total]
    BY <2>1, <2>2, PartFields
  <2>4. \A x : [p EXCEPT !.seq = x].ref = p.ref BY <2>3
  <2>5. m.head = [p EXCEPT !.seq = IF Group(l, s) = {s} THEN p.seq ELSE 0]
    BY <2>2 DEF Message
  <2>6. QED BY <2>2, <2>4, <2>5
<1>3. s \in Group(l, s) /\ Group(l, s) \in SUBSET Occupied(l) BY DEF Group
<1>4. QED BY <1>1, <1>2, <1>3, ListFields

LEMMA OrderedAt ==
  ASSUME NEW l \in Lists, NEW g \in SUBSET Occupied(l)
  PROVE  \E n \in Nat : \E order \in [1 .. n -> g] :
           /\ DOMAIN Ordered(l, g) = 1 .. n
           /\ \A i \in 1 .. n : Ordered(l, g)[i] = l[order[i]]
           /\ \A i, j \in 1 .. n : i < j => <<order[i], order[j]>> \in BySeq(l)
           /\ \A s \in g : \E i \in 1 .. n : order[i] = s
<1>1. g \in SUBSET Slots BY ListFields
<1>2. IsFiniteSet(g) /\ Orders(BySeq(l), g) BY <1>1, SlotsFinite, BySeqOrders
<1>3. PICK n \in Nat : n = Cardinality(g) BY <1>1, SlotsFinite
<1>4. PICK order : order = Sorted(g, BySeq(l)) OBVIOUS
<1>5. /\ order \in [1 .. n -> g]
      /\ \A i, j \in 1 .. n : i < j => <<order[i], order[j]>> \in BySeq(l)
      /\ \A s \in g : \E i \in 1 .. n : order[i] = s
  BY <1>2, <1>3, <1>4, SortedAt
<1>6. Ordered(l, g) = [i \in 1 .. n |-> l[order[i]]] BY <1>3, <1>4 DEF Ordered
<1>7. QED BY <1>5, <1>6

LEMMA TextOfSlots ==
  ASSUME NEW l \in Lists, NEW i \in DOMAIN Merge(l)
  PROVE  /\ Merge(l)[i].indices \in SUBSET Occupied(l)
         /\ {l[s] : s \in Merge(l)[i].indices} = Range(Merge(l)[i].text)
<1>1. PICK s \in Occupied(l) : Merge(l)[i] = Message(l, s) BY MergeAt
<1>2. PICK m : m = Merge(l)[i] OBVIOUS
<1>3. /\ m.indices = Group(l, s) /\ m.text = Ordered(l, Group(l, s))
      /\ Group(l, s) \in SUBSET Occupied(l)
  BY <1>1, <1>2, MessageFields
<1>4. PICK g : g = Group(l, s) OBVIOUS
<1>5. PICK n \in Nat : \E order \in [1 .. n -> g] :
        /\ DOMAIN Ordered(l, g) = 1 .. n
        /\ \A k \in 1 .. n : Ordered(l, g)[k] = l[order[k]]
        /\ \A t \in g : \E k \in 1 .. n : order[k] = t
  BY <1>3, <1>4, OrderedAt
<1>6. PICK order \in [1 .. n -> g] :
        /\ DOMAIN Ordered(l, g) = 1 .. n
        /\ \A k \in 1 .. n : Ordered(l, g)[k] = l[order[k]]
        /\ \A t \in g : \E k \in 1 .. n : order[k] = t
  BY <1>5
<1>7. Range(Ordered(l, g)) = {l[t] : t \in g}
  <2>1. \A k \in 1 .. n : order[k] \in g OBVIOUS
  <2>2. QED BY <1>6, <2>1 DEF Range
<1>8. QED BY <1>2, <1>3, <1>4, <1>7

\* LongInOrder, of any list.
LEMMA ListInOrder ==
  ASSUME NEW l \in Lists, NEW i \in DOMAIN Merge(l), Merge(l)[i].head.ref # Nil,
         NEW j \in DOMAIN Merge(l)[i].text, NEW k \in DOMAIN Merge(l)[i].text
  PROVE  /\ Merge(l)[i].text[j].msg = Merge(l)[i].text[k].msg
         /\ j < k => Merge(l)[i].text[j].seq < Merge(l)[i].text[k].seq
<1>1. PICK s \in Occupied(l) : Merge(l)[i] = Message(l, s) BY MergeAt
<1>2. PICK m : m = Merge(l)[i] OBVIOUS
<1>3. PICK g : g = Group(l, s) OBVIOUS
<1>4. m.text = Ordered(l, g) /\ m.head.ref = l[s].ref /\ g \in SUBSET Occupied(l)
  BY <1>1, <1>2, <1>3, MessageFields
<1>5. PICK n \in Nat : \E order \in [1 .. n -> g] :
        /\ DOMAIN Ordered(l, g) = 1 .. n
        /\ \A x \in 1 .. n : Ordered(l, g)[x] = l[order[x]]
        /\ \A x, y \in 1 .. n : x < y => <<order[x], order[y]>> \in BySeq(l)
  BY <1>4, OrderedAt
<1>6. PICK order \in [1 .. n -> g] :
        /\ DOMAIN Ordered(l, g) = 1 .. n
        /\ \A x \in 1 .. n : Ordered(l, g)[x] = l[order[x]]
        /\ \A x, y \in 1 .. n : x < y => <<order[x], order[y]>> \in BySeq(l)
  BY <1>5
<1>7. j \in 1 .. n /\ k \in 1 .. n BY <1>2, <1>4, <1>6
<1>8. PICK a \in g, b \in g : a = order[j] /\ b = order[k] BY <1>7
<1>9. m.text[j] = l[a] /\ m.text[k] = l[b] BY <1>4, <1>6, <1>7, <1>8
<1>10. l[a].ref = l[s].ref /\ l[b].ref = l[s].ref BY <1>3, <1>8 DEF Group
<1>11. l[s].ref # Nil BY <1>2, <1>4
<1>12. a \in Occupied(l) /\ b \in Occupied(l) /\ l[a] \in Parts /\ l[b] \in Parts
  BY <1>4, <1>8, ListFields
<1>13. l[a].msg = l[s].ref /\ l[b].msg = l[s].ref /\ l[a].total = l[b].total
  BY <1>10, <1>11, <1>12, PartFields
<1>14. ASSUME j < k PROVE l[a].seq < l[b].seq
  <2>1. <<a, b>> \in BySeq(l) BY <1>6, <1>7, <1>8, <1>14
  <2>2. l[a].seq < l[b].seq \/ (l[a].seq = l[b].seq /\ a < b) BY <1>12, <2>1, BySeqAt
  <2>3. ASSUME l[a].seq = l[b].seq PROVE a = b
    <3>1. l[a] = l[b] BY <1>10, <1>12, <1>13, <2>3, PartFields
    <3>2. QED BY <1>12, <3>1, ListFields
  <2>4. a \in Nat BY <1>12, ListFields, InboxAssumption DEF Slots
  <2>5. QED BY <2>2, <2>3, <2>4
<1>15. QED BY <1>2, <1>9, <1>13, <1>14

-----------------------------------------------------------------------------
(* The invariant. *)

CallTypes ==
  [op : Reads \union {"delete", "all"}, slots : SUBSET Slots,
   reply : {"none", "ok", "lost"}, list : Lists, overdue : BOOLEAN]

PendingTypes == [list : Lists, stable : 0 .. 2, overdue : BOOLEAN]

TypeInv ==
  /\ store \in Lists /\ cache \in Lists /\ view \in Lists
  /\ arrived \subseteq Parts /\ late \subseteq SUBSET Slots
  /\ active \in BOOLEAN /\ timer = active /\ inFlight \in BOOLEAN
  /\ loading \in BOOLEAN /\ reused \in BOOLEAN
  /\ pending \in PendingTypes /\ calls \in Seq(CallTypes)
  /\ acts \in 0 .. MaxActs /\ faults \in 0 .. MaxFaults

\* Positions are those of the list on display.
PositionInv ==
  /\ selected \subseteq DOMAIN Merge(view)
  /\ detail = 0 \/ detail \in DOMAIN Merge(view)

\* A poll that is under way has a call.
PollInv == inFlight => \E c \in Range(calls) : c.op \in {"meta", "stable"}

Within(l, h) == \A s \in Occupied(l) : s \in Occupied(h) /\ l[s] = h[s]

Restricted(h, slots) == [s \in slots |-> h[s]]

\* A call for the list that has not waited long asks for slots in which no
\* message lacks parts.
Whole(c, h) ==
  c.op = "stable" /\ c.slots # {} /\ ~c.overdue =>
    c.slots \subseteq Occupied(h) /\ ~Incomplete(Restricted(h, c.slots))

\* h is all that ever was in the slots, and every list a part of it.
Filled(h) ==
  /\ \A s \in Occupied(h) : h[s] \in arrived
  /\ Within(store, h) /\ Within(cache, h) /\ Within(view, h) /\ Within(pending.list, h)
  /\ \A c \in Range(calls) : Within(c.list, h) /\ Whole(c, h)

StoredInv == IsFiniteSet(arrived) /\ \A s \in Occupied(store) : store[s] \in arrived

FilledInv == ~reused => \E h \in Lists : Filled(h)

Inv == TypeInv /\ PositionInv /\ PollInv /\ StoredInv /\ FilledInv

-----------------------------------------------------------------------------
(* Where calls and lists come from. *)

\* The lists there are.
Sources == {Empty, store, cache, view, pending.list} \union {c.list : c \in Range(calls)}

LEMMA SourcesAreLists == ASSUME TypeInv PROVE Sources \subseteq Lists
<1>1. \A c \in Range(calls) : c \in CallTypes BY DEF TypeInv, Range
<1>2. QED BY <1>1, EmptyIsList DEF TypeInv, Sources, CallTypes, PendingTypes

\* Two calls that ask for the same.
Alike(c, d) == c.op = d.op /\ c.slots = d.slots /\ c.overdue = d.overdue

\* A call, if it is for the list and has not waited long, is not the first of
\* its kind or asks for the slots of a list without incomplete messages.
Backed(c) ==
  \/ \E d \in Range(calls) : Alike(c, d)
  \/ c.op = "stable" /\ c.slots # {} /\ ~c.overdue =>
       \E l \in Sources : c.slots = Occupied(l) /\ ~Incomplete(l)

CallsNext ==
  /\ calls' \in Seq(CallTypes)
  /\ \A c \in Range(calls') : c.list \in Sources /\ Backed(c)

LEMMA TailOf ==
  ASSUME NEW S, NEW q \in Seq(S), q # <<>>
  PROVE  /\ Tail(q) \in Seq(S) /\ Head(q) \in Range(q) /\ Range(Tail(q)) \subseteq Range(q)
         /\ Range(q) \subseteq Range(Tail(q)) \union {Head(q)}
<1>1. /\ Tail(q) \in Seq(S) /\ Len(Tail(q)) = Len(q) - 1
      /\ \A i \in 1 .. Len(Tail(q)) : Tail(q)[i] = q[i + 1]
  BY HeadTailProperties
<1>2. Len(q) \in Nat /\ Len(q) # 0 /\ Head(q) = q[1] OBVIOUS
<1>3. DOMAIN q = 1 .. Len(q) /\ DOMAIN Tail(q) = 1 .. Len(q) - 1 BY <1>1, LenProperties
<1>4. Head(q) \in Range(q) BY <1>2, <1>3 DEF Range
<1>5. Range(Tail(q)) \subseteq Range(q)
  <2>1. \A i \in 1 .. Len(q) - 1 : i + 1 \in 1 .. Len(q) BY <1>2
  <2>2. QED BY <1>1, <1>3, <2>1 DEF Range
<1>6. Range(q) \subseteq Range(Tail(q)) \union {Head(q)}
  <2>1. \A i \in 1 .. Len(q) : i = 1 \/ (i - 1 \in 1 .. Len(q) - 1 /\ Tail(q)[i - 1] = q[i])
    BY <1>1, <1>2
  <2>2. QED BY <1>2, <1>3, <2>1 DEF Range
<1>7. QED BY <1>1, <1>4, <1>5, <1>6

LEMMA AppendOf ==
  ASSUME NEW S, NEW q \in Seq(S), NEW c \in S
  PROVE  Append(q, c) \in Seq(S) /\ Range(Append(q, c)) = Range(q) \union {c}
<1>1. /\ Append(q, c) \in Seq(S) /\ Len(Append(q, c)) = Len(q) + 1
      /\ \A i \in 1 .. Len(q) : Append(q, c)[i] = q[i]
      /\ Append(q, c)[Len(q) + 1] = c
  BY AppendProperties
<1>2. Len(q) \in Nat /\ DOMAIN q = 1 .. Len(q) /\ DOMAIN Append(q, c) = 1 .. Len(q) + 1
  BY <1>1, LenProperties
<1>3. 1 .. Len(q) + 1 = 1 .. Len(q) \union {Len(q) + 1} BY <1>2
<1>4. Range(Append(q, c)) = Range(q) \union {c} BY <1>1, <1>2, <1>3 DEF Range
<1>5. QED BY <1>1, <1>4

LEMMA CallFields ==
  ASSUME NEW op \in Reads \union {"delete", "all"}, NEW slots \in SUBSET Slots
  PROVE  /\ Call(op, slots) \in CallTypes /\ Call(op, slots).list = Empty
         /\ Call(op, slots).op = op /\ Call(op, slots).slots = slots /\ ~Call(op, slots).overdue
  BY EmptyIsList DEF Call, CallTypes

LEMMA OldCalls ==
  ASSUME TypeInv
  PROVE  \A c \in Range(calls) : c \in CallTypes /\ c.list \in Sources /\ Backed(c)
<1>1. \A c \in Range(calls) : c \in CallTypes BY DEF TypeInv, Range
<1>2. QED BY <1>1 DEF Sources, Backed, Alike

\* A call is issued, one is settled, and both.
LEMMA IssueCalls ==
  ASSUME TypeInv, NEW op \in {"init", "list", "meta", "delete", "all"}, NEW slots \in SUBSET Slots,
         Issue(op, slots)
  PROVE  CallsNext /\ Range(calls') = Range(calls) \union {Call(op, slots)}
<1>1. PICK c \in CallTypes : c = Call(op, slots) /\ c.list = Empty /\ c.op # "stable"
  BY CallFields DEF Reads
<1>2. calls \in Seq(CallTypes) /\ calls' = Append(calls, c) BY <1>1 DEF TypeInv, Issue
<1>3. calls' \in Seq(CallTypes) /\ Range(calls') = Range(calls) \union {c} BY <1>2, AppendOf
<1>4. c.list \in Sources /\ Backed(c) BY <1>1 DEF Sources, Backed
<1>5. QED BY <1>1, <1>3, <1>4, OldCalls DEF CallsNext

LEMMA SettleCalls ==
  ASSUME TypeInv, calls # <<>>, Settle
  PROVE  CallsNext /\ Range(calls) \subseteq Range(calls') \union {Head(calls)}
<1>1. calls \in Seq(CallTypes) /\ calls' = Tail(calls) BY DEF TypeInv, Settle
<1>2. /\ calls' \in Seq(CallTypes) /\ Range(calls') \subseteq Range(calls)
      /\ Range(calls) \subseteq Range(calls') \union {Head(calls)}
  BY <1>1, TailOf
<1>3. QED BY <1>2, OldCalls DEF CallsNext

LEMMA SettleWithCalls ==
  ASSUME TypeInv, calls # <<>>, NEW next \in CallTypes, SettleWith(next),
         next.list \in Sources, Backed(next)
  PROVE  /\ CallsNext /\ next \in Range(calls')
         /\ Range(calls) \subseteq Range(calls') \union {Head(calls)}
<1>1. calls \in Seq(CallTypes) /\ calls' = Append(Tail(calls), next) BY DEF TypeInv, SettleWith
<1>2. PICK q : q = Tail(calls) OBVIOUS
<1>3. /\ q \in Seq(CallTypes) /\ Range(q) \subseteq Range(calls)
      /\ Range(calls) \subseteq Range(q) \union {Head(calls)}
  BY <1>1, <1>2, TailOf
<1>4. calls' \in Seq(CallTypes) /\ Range(calls') = Range(q) \union {next}
  <2>1. q \in Seq(CallTypes) BY <1>3
  <2>2. Append(q, next) \in Seq(CallTypes) /\ Range(Append(q, next)) = Range(q) \union {next}
    BY <2>1, AppendOf
  <2>3. QED BY <1>1, <1>2, <2>2
<1>5. QED BY <1>3, <1>4, OldCalls DEF CallsNext

\* The calls stay, with other replies.
LEMMA RepliedCalls ==
  ASSUME TypeInv, DOMAIN calls' = DOMAIN calls, calls' = [i \in DOMAIN calls' |-> calls'[i]],
         \A i \in DOMAIN calls :
           calls'[i] \in CallTypes /\ Alike(calls'[i], calls[i]) /\ calls'[i].list \in Sources
  PROVE  CallsNext /\ \A d \in Range(calls) : \E c \in Range(calls') : c.op = d.op
<1>1. Len(calls) \in Nat /\ DOMAIN calls = 1 .. Len(calls) BY LenProperties DEF TypeInv
<1>2. calls' \in [1 .. Len(calls) -> CallTypes] BY <1>1
<1>3. calls' \in Seq(CallTypes) BY <1>1, <1>2, SeqDef
<1>4. \A c \in Range(calls') : c.list \in Sources /\ \E d \in Range(calls) : Alike(c, d)
  BY DEF Range
<1>5. \A d \in Range(calls) : \E c \in Range(calls') : c.op = d.op BY DEF Range, Alike
<1>6. QED BY <1>3, <1>4, <1>5 DEF CallsNext, Backed

LEMMA ReplyCalls ==
  ASSUME TypeInv, NEW l \in Sources, Reply(l)
  PROVE  CallsNext /\ \A d \in Range(calls) : \E c \in Range(calls') : c.op = d.op
<1>1. PICK i \in DOMAIN calls : calls' = [calls EXCEPT ![i].reply = "ok", ![i].list = l]
  BY DEF Reply, Waiting
<1>2. \A j \in DOMAIN calls : calls[j] \in CallTypes /\ calls[j].list \in Sources
  BY OldCalls DEF Range
<1>3. l \in Lists BY SourcesAreLists
<1>4. PICK c : c = [[calls[i] EXCEPT !.reply = "ok"] EXCEPT !.list = l] OBVIOUS
<1>5. c \in CallTypes /\ Alike(c, calls[i]) /\ c.list = l BY <1>2, <1>3, <1>4 DEF CallTypes, Alike
<1>6. /\ DOMAIN calls' = DOMAIN calls /\ calls' = [j \in DOMAIN calls' |-> calls'[j]]
      /\ \A j \in DOMAIN calls : calls'[j] = IF j = i THEN c ELSE calls[j]
  BY <1>1, <1>4
<1>7. \A j \in DOMAIN calls :
        calls'[j] \in CallTypes /\ Alike(calls'[j], calls[j]) /\ calls'[j].list \in Sources
  BY <1>2, <1>5, <1>6 DEF Alike
<1>8. QED BY <1>6, <1>7, RepliedCalls

LEMMA BreakCalls ==
  ASSUME TypeInv, Break
  PROVE  CallsNext /\ \A d \in Range(calls) : \E c \in Range(calls') : c.op = d.op
<1>1. calls' = [i \in DOMAIN calls |-> [calls[i] EXCEPT !.reply = "lost"]] BY DEF Break
<1>2. \A j \in DOMAIN calls : calls[j] \in CallTypes /\ calls[j].list \in Sources
  BY OldCalls DEF Range
<1>3. \A c \in CallTypes : LET d == [c EXCEPT !.reply = "lost"]
                           IN d \in CallTypes /\ Alike(d, c) /\ d.list = c.list
  BY DEF CallTypes, Alike
<1>4. DOMAIN calls' = DOMAIN calls /\ calls' = [j \in DOMAIN calls' |-> calls'[j]] BY <1>1
<1>5. \A j \in DOMAIN calls :
        calls'[j] \in CallTypes /\ Alike(calls'[j], calls[j]) /\ calls'[j].list \in Sources
  BY <1>1, <1>2, <1>3
<1>6. QED BY <1>4, <1>5, RepliedCalls

\* The head of the calls that the page handles.
LEMMA HeadCall ==
  ASSUME TypeInv, NEW op, Answered(op)
  PROVE  /\ calls # <<>> /\ Head(calls) \in CallTypes /\ Head(calls).op = op
         /\ Head(calls) \in Range(calls) /\ Head(calls).list \in Sources
<1>1. calls # <<>> /\ Head(calls).op = op BY DEF Answered
<1>2. Head(calls) \in Range(calls) BY <1>1, TailOf DEF TypeInv
<1>3. QED BY <1>1, <1>2, OldCalls

\* A poll goes on to the list, overdue or with a list that has been seen twice.
LEMMA FetchBacked ==
  ASSUME TypeInv, NEW l \in Sources, Ready(Polled(l))
  PROVE  /\ Polled(l) \in PendingTypes /\ Polled(l).list \in Sources
         /\ Fetch(Polled(l)) \in CallTypes /\ Fetch(Polled(l)).op = "stable"
         /\ Fetch(Polled(l)).list \in Sources /\ Backed(Fetch(Polled(l)))
<1>1. pending.list \in Sources /\ l \in Lists BY SourcesAreLists DEF Sources
<1>2. PICK p : p = Polled(l) OBVIOUS
<1>3. p \in PendingTypes /\ p.list \in Sources
  BY <1>1, <1>2 DEF Polled, Seen, PendingTypes, TypeInv
<1>4. PICK b : b = p.overdue OBVIOUS
<1>5. b \in BOOLEAN /\ p.list \in Lists BY <1>3, <1>4 DEF PendingTypes
<1>6. Occupied(p.list) \in SUBSET Slots BY <1>5, ListFields
<1>7. PICK c : c = Call("stable", Occupied(p.list)) OBVIOUS
<1>8. c \in CallTypes /\ c.list = Empty /\ c.op = "stable" /\ c.slots = Occupied(p.list)
  BY <1>6, <1>7, CallFields DEF Reads
<1>9. PICK d : d = [c EXCEPT !.overdue = b] OBVIOUS
<1>10. d = Fetch(p) BY <1>4, <1>7, <1>9 DEF Fetch
<1>11. /\ d \in CallTypes /\ d.list = Empty /\ d.op = "stable"
       /\ d.slots = Occupied(p.list) /\ d.overdue = b
  BY <1>5, <1>8, <1>9 DEF CallTypes
<1>12. ~b => ~Incomplete(p.list) BY <1>2, <1>4 DEF Ready
<1>13. Backed(d) BY <1>3, <1>11, <1>12 DEF Backed
<1>14. d.list \in Sources BY <1>11 DEF Sources
<1>15. QED BY <1>2, <1>3, <1>10, <1>11, <1>13, <1>14

LEMMA DeletedSlots ==
  ASSUME TypeInv, PositionInv
  PROVE  UNION {Merge(view)[i].indices : i \in selected} \in SUBSET Slots
<1>1. \A i \in selected : Merge(view)[i].indices \subseteq Occupied(view)
  BY TextOfSlots DEF TypeInv, PositionInv
<1>2. Occupied(view) \subseteq Slots BY ListFields DEF TypeInv
<1>3. QED BY <1>1, <1>2

\* What OnMeta makes of the calls.
LEMMA MetaCalls ==
  ASSUME TypeInv, OnMeta
  PROVE  /\ CallsNext
         /\ inFlight' => \E c \in Range(calls') : c.op = "stable"
         /\ pending' = pending \/ pending' = NotPending \/ pending' = Polled(Head(calls).list)
<1>1. PICK l \in Sources : l = Head(calls).list BY HeadCall DEF OnMeta
<1>2. calls # <<>> BY HeadCall DEF OnMeta
<1>3. CASE Settle /\ inFlight' = FALSE
  <2>1. pending' = pending \/ pending' = NotPending \/ pending' = Polled(Head(calls).list)
    BY DEF OnMeta
  <2>2. QED BY <1>2, <1>3, <2>1, SettleCalls
<1>4. CASE /\ Ready(Polled(l)) /\ SettleWith(Fetch(Polled(l)))
           /\ pending' = Polled(l)
  BY <1>1, <1>2, <1>4, FetchBacked, SettleWithCalls
<1>5. QED BY <1>1, <1>3, <1>4 DEF OnMeta

LEMMA CallsStep == ASSUME TypeInv, PositionInv, [Next]_vars PROVE CallsNext
<1>1. CASE UNCHANGED calls BY <1>1, OldCalls DEF CallsNext, TypeInv
<1>2. CASE Refresh BY <1>2, IssueCalls DEF Refresh
<1>3. CASE DeleteSelected
  <2>1. Slots \in SUBSET Slots OBVIOUS
  <2>2. QED BY <1>3, <2>1, DeletedSlots, IssueCalls DEF DeleteSelected
<1>4. CASE AutoRefresh BY <1>4, IssueCalls DEF AutoRefresh
<1>5. CASE OnList("init") \/ OnList("list") \/ OnStable
  BY <1>5, HeadCall, SettleCalls DEF OnList, OnStable
<1>6. CASE OnDeleted \/ OnAllDeleted
  <2>1. PICK op \in {"list", "init"} : SettleWith(Call(op, {}))
    BY <1>6 DEF OnDeleted, OnAllDeleted
  <2>2. PICK c : c = Call(op, {}) OBVIOUS
  <2>3. c \in CallTypes /\ c.list = Empty /\ c.op = op BY <2>2, CallFields DEF Reads
  <2>4. c.list \in Sources /\ Backed(c) BY <2>3 DEF Sources, Backed
  <2>5. calls # <<>> BY <1>6, HeadCall DEF OnDeleted, OnAllDeleted
  <2>6. QED BY <2>1, <2>2, <2>3, <2>4, <2>5, SettleWithCalls
<1>7. CASE OnMeta BY <1>7, MetaCalls
<1>8. CASE ReadList \/ ReadFails \/ Delete \/ DeleteFails
  <2>1. Reply(store) \/ Reply(cache) \/ Reply(Empty)
    BY <1>8 DEF ReadList, ReadFails, Delete, DeleteFails
  <2>2. QED BY <2>1, ReplyCalls DEF Sources
<1>9. CASE Break BY <1>9, BreakCalls
<1>10. CASE \/ Leave \/ Enter \/ Select \/ CloseMessage \/ (\E i \in DOMAIN Merge(view) : OpenMessage(i))
            \/ WaitOut \/ LateDelete \/ (\E p \in Parts : Arrive(p)) \/ UNCHANGED vars
  BY <1>1, <1>10 DEF Leave, Enter, Select, OpenMessage, CloseMessage, WaitOut, LateDelete, Arrive, vars
<1>11. QED
  BY <1>2, <1>3, <1>4, <1>5, <1>6, <1>7, <1>8, <1>9, <1>10
  DEF Next, UserStep, PageStep, ServiceStep

\* A poll under way has a call: one that is handled ends it, or goes on.
LEMMA PollStep == ASSUME TypeInv, PositionInv, PollInv, [Next]_vars PROVE PollInv'
<1> DEFINE Polls == {"meta", "stable"}
<1>1. ASSUME inFlight' = inFlight,
             \A d \in Range(calls) : d.op \in Polls => \E c \in Range(calls') : c.op = d.op
      PROVE  PollInv'
  BY <1>1 DEF PollInv
<1>2. CASE inFlight' = FALSE BY <1>2 DEF PollInv
<1>3. CASE UNCHANGED <<inFlight, calls>> BY <1>3 DEF PollInv
<1>4. CASE Refresh BY <1>1, <1>4, IssueCalls DEF Refresh
<1>5. CASE DeleteSelected
  <2>1. Slots \in SUBSET Slots OBVIOUS
  <2>2. Range(calls) \subseteq Range(calls')
    BY <1>5, <2>1, DeletedSlots, IssueCalls DEF DeleteSelected
  <2>3. QED BY <1>1, <1>5, <2>2 DEF DeleteSelected, pageVars
<1>6. CASE AutoRefresh
  <2>1. Call("meta", {}) \in Range(calls') BY <1>6, IssueCalls DEF AutoRefresh
  <2>2. Call("meta", {}).op = "meta" BY DEF Call
  <2>3. QED BY <2>1, <2>2 DEF PollInv
<1>7. ASSUME inFlight' = inFlight, NEW op \in {"init", "list", "delete", "all"}, Answered(op),
             Range(calls) \subseteq Range(calls') \union {Head(calls)}
      PROVE  PollInv'
  <2>1. Head(calls).op \notin Polls BY <1>7, HeadCall
  <2>2. QED BY <1>1, <1>7, <2>1
<1>8. CASE OnList("init") \/ OnList("list")
  <2>1. PICK op \in {"init", "list"} : Answered(op) /\ Settle /\ inFlight' = inFlight
    BY <1>8 DEF OnList
  <2>2. QED BY <1>7, <2>1, HeadCall, SettleCalls
<1>9. CASE OnDeleted \/ OnAllDeleted
  <2>1. PICK op \in {"list", "init"} : SettleWith(Call(op, {}))
    BY <1>9 DEF OnDeleted, OnAllDeleted
  <2>2. PICK o \in {"delete", "all"} : Answered(o) /\ inFlight' = inFlight
    BY <1>9 DEF OnDeleted, OnAllDeleted
  <2>3. PICK c : c = Call(op, {}) OBVIOUS
  <2>4. c \in CallTypes /\ c.list = Empty /\ c.op = op BY <2>3, CallFields DEF Reads
  <2>5. c.list \in Sources /\ Backed(c) BY <2>4 DEF Sources, Backed
  <2>6. Range(calls) \subseteq Range(calls') \union {Head(calls)}
    BY <2>1, <2>2, <2>3, <2>4, <2>5, HeadCall, SettleWithCalls
  <2>7. QED BY <1>7, <2>2, <2>6
<1>10. CASE OnMeta BY <1>10, MetaCalls DEF PollInv
<1>11. CASE OnStable \/ Leave BY <1>2, <1>11 DEF OnStable, Leave
<1>12. CASE ReadList \/ ReadFails \/ Delete \/ DeleteFails
  <2>1. Reply(store) \/ Reply(cache) \/ Reply(Empty)
    BY <1>12 DEF ReadList, ReadFails, Delete, DeleteFails
  <2>2. inFlight' = inFlight BY <1>12 DEF ReadList, ReadFails, Delete, DeleteFails, pageVars
  <2>3. \A d \in Range(calls) : \E c \in Range(calls') : c.op = d.op
    BY <2>1, ReplyCalls DEF Sources
  <2>4. QED BY <1>1, <2>2, <2>3
<1>13. CASE Break BY <1>1, <1>13, BreakCalls DEF Break, pageVars
<1>14. CASE \/ Enter \/ Select \/ CloseMessage \/ (\E i \in DOMAIN Merge(view) : OpenMessage(i))
            \/ WaitOut \/ LateDelete \/ (\E p \in Parts : Arrive(p)) \/ UNCHANGED vars
  BY <1>3, <1>14 DEF Enter, Select, OpenMessage, CloseMessage, WaitOut, LateDelete, Arrive, vars, pageVars
<1>15. QED
  BY <1>4, <1>5, <1>6, <1>8, <1>9, <1>10, <1>11, <1>12, <1>13, <1>14
  DEF Next, UserStep, PageStep, ServiceStep

-----------------------------------------------------------------------------
(* The modem's slots. *)

LEMMA WithoutIsList ==
  ASSUME TypeInv, NEW slots
  PROVE  /\ Without(slots) \in Lists /\ Occupied(Without(slots)) \subseteq Occupied(store)
         /\ \A s \in Occupied(Without(slots)) : Without(slots)[s] = store[s]
<1>1. PICK S : S = Occupied(store) \ slots OBVIOUS
<1>2. PICK w : w = [s \in S |-> store[s]] OBVIOUS
<1>3. w = Without(slots) BY <1>1, <1>2 DEF Without
<1>4. /\ \A s \in Occupied(store) : store[s] \in Parts
      /\ \A s, t \in Occupied(store) : store[s] = store[t] => s = t
      /\ Occupied(store) \in SUBSET Slots
  BY ListFields DEF TypeInv
<1>5. S \in SUBSET Slots /\ S \subseteq Occupied(store) BY <1>1, <1>4
<1>6. w \in [S -> Parts] BY <1>2, <1>4, <1>5
<1>7. \A s, t \in S : w[s] = w[t] => s = t BY <1>2, <1>4, <1>5
<1>8. w \in Lists /\ Occupied(w) = S BY <1>5, <1>6, <1>7, IsAList
<1>9. QED BY <1>2, <1>3, <1>5, <1>8

\* A part more in a slot that was free.
FilledWith(l, s, p) == [t \in Occupied(l) \union {s} |-> IF t = s THEN p ELSE l[t]]

LEMMA FilledSlot ==
  ASSUME NEW l \in Lists, NEW s \in Slots, s \notin Occupied(l), NEW p \in Parts,
         \A t \in Occupied(l) : l[t] # p
  PROVE  /\ FilledWith(l, s, p) \in Lists
         /\ Occupied(FilledWith(l, s, p)) = Occupied(l) \union {s}
         /\ FilledWith(l, s, p)[s] = p
         /\ \A t \in Occupied(l) : FilledWith(l, s, p)[t] = l[t]
<1>1. PICK S : S = Occupied(l) \union {s} OBVIOUS
<1>2. PICK h : h = [t \in S |-> IF t = s THEN p ELSE l[t]] OBVIOUS
<1>3. h = FilledWith(l, s, p) BY <1>1, <1>2 DEF FilledWith
<1>4. /\ Occupied(l) \subseteq Slots /\ \A t \in Occupied(l) : l[t] \in Parts
      /\ \A t, u \in Occupied(l) : l[t] = l[u] => t = u
  BY ListFields
<1>5. S \in SUBSET Slots BY <1>1, <1>4
<1>6. h \in [S -> Parts] BY <1>1, <1>2, <1>4
<1>7. \A t, u \in S : h[t] = h[u] => t = u BY <1>1, <1>2, <1>4
<1>8. h \in Lists /\ Occupied(h) = S BY <1>5, <1>6, <1>7, IsAList
<1>9. QED BY <1>1, <1>2, <1>3, <1>8

\* Slots are emptied, or a part arrives, or they stay.
LEMMA StoreMoves ==
  ASSUME [Next]_vars
  PROVE  \/ \E p \in Parts : Arrive(p)
         \/ /\ store' = store \/ \E slots : store' = Without(slots)
            /\ arrived' = arrived /\ reused' = reused
<1>1. CASE UNCHANGED modemVars BY <1>1 DEF modemVars
<1>2. CASE Delete BY <1>2 DEF Delete
<1>3. CASE DeleteFails
  <2>1. store' = store \/ \E slots : store' = Without(slots) BY <1>3 DEF DeleteFails
  <2>2. QED BY <1>3, <2>1 DEF DeleteFails
<1>4. CASE LateDelete
  <2>1. \E slots : store' = Without(slots) BY <1>4 DEF LateDelete
  <2>2. QED BY <1>4, <2>1 DEF LateDelete
<1>5. CASE UserStep
  BY <1>1, <1>5 DEF UserStep, Refresh, Leave, Enter, Select, DeleteSelected, OpenMessage, CloseMessage
<1>6. CASE AutoRefresh \/ WaitOut \/ Break \/ ReadList \/ ReadFails \/ UNCHANGED vars
  BY <1>1, <1>6 DEF AutoRefresh, WaitOut, Break, ReadList, ReadFails, vars
<1>7. CASE PageStep
  BY <1>1, <1>7 DEF PageStep, OnList, OnDeleted, OnAllDeleted, OnMeta, OnStable
<1>8. QED BY <1>2, <1>3, <1>4, <1>5, <1>6, <1>7 DEF Next, ServiceStep

LEMMA StoredStep ==
  ASSUME TypeInv, StoredInv, [Next]_vars
  PROVE  store' \in Lists /\ arrived' \subseteq Parts /\ reused' \in BOOLEAN /\ StoredInv'
<1>1. CASE \E p \in Parts : Arrive(p)
  <2>1. PICK p \in Parts, s \in Slots :
          /\ p \notin arrived /\ s \notin Occupied(store)
          /\ store' = FilledWith(store, s, p) /\ arrived' = arrived \union {p}
          /\ reused' = (reused \/ Cardinality(arrived) # Cardinality(Occupied(store)))
    BY <1>1 DEF Arrive, FilledWith
  <2>2. store \in Lists /\ \A t \in Occupied(store) : store[t] # p
    BY <2>1 DEF TypeInv, StoredInv
  <2>3. /\ store' \in Lists /\ Occupied(store') = Occupied(store) \union {s} /\ store'[s] = p
        /\ \A t \in Occupied(store) : store'[t] = store[t]
    BY <2>1, <2>2, FilledSlot
  <2>4. StoredInv'
    <3>1. IsFiniteSet(arrived') BY <2>1, FS_AddElement DEF StoredInv
    <3>2. \A t \in Occupied(store') : store'[t] \in arrived' BY <2>1, <2>3 DEF StoredInv
    <3>3. QED BY <3>1, <3>2 DEF StoredInv, Occupied
  <2>5. arrived' \subseteq Parts BY <2>1 DEF TypeInv
  <2>6. reused' \in BOOLEAN BY <2>1
  <2>7. QED BY <2>3, <2>4, <2>5, <2>6
<1>2. ASSUME store' = store, arrived' = arrived, reused' = reused
      PROVE  store' \in Lists /\ arrived' \subseteq Parts /\ reused' \in BOOLEAN /\ StoredInv'
  BY <1>2 DEF TypeInv, StoredInv, Occupied
<1>3. ASSUME NEW slots, store' = Without(slots), arrived' = arrived, reused' = reused
      PROVE  store' \in Lists /\ arrived' \subseteq Parts /\ reused' \in BOOLEAN /\ StoredInv'
  <2>1. /\ store' \in Lists /\ Occupied(store') \subseteq Occupied(store)
        /\ \A s \in Occupied(store') : store'[s] = store[s]
    BY <1>3, WithoutIsList
  <2>2. \A s \in Occupied(store') : store'[s] \in arrived' BY <1>3, <2>1 DEF StoredInv
  <2>3. StoredInv' BY <1>3, <2>2 DEF StoredInv, Occupied
  <2>4. QED BY <1>3, <2>1, <2>3 DEF TypeInv
<1>4. QED BY <1>1, <1>2, <1>3, StoreMoves

-----------------------------------------------------------------------------
(* The list on display. *)

LEMMA NothingPending == NotPending \in PendingTypes /\ NotPending.list = Empty
  BY EmptyIsList DEF NotPending, PendingTypes

\* The list on display is replaced by an answer, or by none; the selection and
\* the open message then go, or are found again.
LEMMA ViewMoves ==
  ASSUME TypeInv, PositionInv, [Next]_vars
  PROVE  \/ UNCHANGED <<view, selected, detail>>
         \/ /\ view' = view /\ selected' \subseteq DOMAIN Merge(view)
            /\ detail' = 0 \/ detail' \in DOMAIN Merge(view)
         \/ \E l \in Sources : Apply(l) /\ (l # Empty => Answered("init") \/ Answered("list"))
         \/ \E l \in Sources : ApplyKeeping(l) /\ OnStable /\ l = Head(calls).list
<1>1. CASE UserStep
  <2>1. CASE Refresh BY <2>1 DEF Refresh, Sources
  <2>2. CASE Leave BY <2>2 DEF Leave, PositionInv
  <2>3. CASE Enter BY <2>3 DEF Enter
  <2>4. CASE Select
    <3>1. selected' \subseteq DOMAIN Merge(view) BY <2>4 DEF Select
    <3>2. QED BY <2>4, <3>1 DEF Select, PositionInv
  <2>5. CASE (\E i \in DOMAIN Merge(view) : OpenMessage(i)) \/ CloseMessage
    BY <2>5 DEF OpenMessage, CloseMessage, PositionInv
  <2>6. CASE DeleteSelected BY <2>6 DEF DeleteSelected, pageVars
  <2>7. QED BY <1>1, <2>1, <2>2, <2>3, <2>4, <2>5, <2>6 DEF UserStep
<1>2. ASSUME NEW op \in {"init", "list"}, OnList(op)
      PROVE  \/ UNCHANGED <<view, selected, detail>>
             \/ \E l \in Sources : Apply(l) /\ (l # Empty => Answered("init") \/ Answered("list"))
  <2>1. Answered(op) /\ Head(calls).list \in Sources BY <1>2, HeadCall DEF OnList
  <2>2. QED BY <1>2, <2>1 DEF OnList
<1>3. CASE OnDeleted BY <1>3 DEF OnDeleted, PositionInv
<1>4. CASE OnAllDeleted BY <1>4 DEF OnAllDeleted, Sources
<1>5. CASE OnMeta BY <1>5 DEF OnMeta
<1>6. CASE OnStable
  <2>1. Head(calls).list \in Sources BY <1>6, HeadCall DEF OnStable
  <2>2. UNCHANGED <<view, selected, detail>> \/ ApplyKeeping(Head(calls).list)
    BY <1>6 DEF OnStable
  <2>3. QED BY <1>6, <2>1, <2>2
<1>7. CASE AutoRefresh \/ WaitOut BY <1>7 DEF AutoRefresh, WaitOut
<1>8. CASE ServiceStep \/ ReadFails \/ DeleteFails \/ LateDelete \/ Break \/ UNCHANGED vars
           \/ \E p \in Parts : Arrive(p)
  BY <1>8 DEF ServiceStep, ReadList, Delete, ReadFails, DeleteFails, LateDelete, Break, Arrive,
              vars, pageVars
<1>9. QED BY <1>1, <1>2, <1>3, <1>4, <1>5, <1>6, <1>7, <1>8 DEF Next, PageStep

LEMMA PositionStep ==
  ASSUME TypeInv, PositionInv, [Next]_vars
  PROVE  view' \in Sources /\ PositionInv'
<1>1. CASE UNCHANGED <<view, selected, detail>>
  BY <1>1 DEF PositionInv, Sources, Merge
<1>2. CASE /\ view' = view /\ selected' \subseteq DOMAIN Merge(view)
           /\ detail' = 0 \/ detail' \in DOMAIN Merge(view)
  BY <1>2 DEF PositionInv, Sources, Merge
<1>3. ASSUME NEW l \in Sources, Apply(l) PROVE view' \in Sources /\ PositionInv'
  BY <1>3 DEF Apply, PositionInv
<1>4. ASSUME NEW l \in Sources, ApplyKeeping(l) PROVE view' \in Sources /\ PositionInv'
  <2>1. view' = l /\ selected' \subseteq DOMAIN Merge(l) BY <1>4 DEF ApplyKeeping
  <2>2. detail' = 0 \/ detail' \in DOMAIN Merge(l) BY <1>4 DEF ApplyKeeping
  <2>3. QED BY <2>1, <2>2 DEF PositionInv
<1>5. QED BY <1>1, <1>2, <1>3, <1>4, ViewMoves

LEMMA PendingStep ==
  ASSUME TypeInv, PositionInv, [Next]_vars
  PROVE  pending' \in PendingTypes /\ pending'.list \in Sources
<1>1. CASE UNCHANGED pending BY <1>1 DEF TypeInv, Sources
<1>2. CASE pending' = NotPending BY <1>2, NothingPending DEF Sources
<1>3. ASSUME NEW l \in Sources, pending' = Seen(l) \/ pending' = Polled(l)
      PROVE  pending' \in PendingTypes /\ pending'.list \in Sources
  <2>1. l \in Lists /\ pending.list \in Sources BY SourcesAreLists DEF Sources
  <2>2. Seen(l) \in PendingTypes /\ Seen(l).list \in Sources BY <2>1 DEF Seen, PendingTypes
  <2>3. PICK p : p = [pending EXCEPT !.stable = 2] OBVIOUS
  <2>4. p \in PendingTypes /\ p.list \in Sources BY <2>1, <2>3 DEF PendingTypes, TypeInv
  <2>5. Polled(l) = p \/ Polled(l) = Seen(l) BY <2>3 DEF Polled
  <2>6. QED BY <1>3, <2>2, <2>4, <2>5
<1>4. CASE Refresh \/ OnAllDeleted BY <1>2, <1>4 DEF Refresh, OnAllDeleted, Apply
<1>5. CASE Leave BY <1>2, <1>5 DEF Leave
<1>6. CASE WaitOut
  <2>1. pending.list \in Sources BY DEF Sources
  <2>2. QED BY <1>6, <2>1 DEF WaitOut, PendingTypes, TypeInv
<1>7. CASE OnList("init") \/ OnList("list") BY <1>1, <1>2, <1>7 DEF OnList, Apply
<1>8. CASE OnMeta
  <2>1. Head(calls).list \in Sources BY <1>8, HeadCall DEF OnMeta
  <2>2. QED BY <1>1, <1>2, <1>3, <1>8, <2>1, MetaCalls
<1>9. CASE OnStable
  <2>1. Head(calls).list \in Sources BY <1>9, HeadCall DEF OnStable
  <2>2. pending' = pending \/ pending' = NotPending \/ pending' = Seen(Head(calls).list)
    BY <1>9 DEF OnStable, ApplyKeeping
  <2>3. QED BY <1>1, <1>2, <1>3, <2>1, <2>2
<1>10. CASE \/ Enter \/ Select \/ DeleteSelected \/ CloseMessage
            \/ (\E i \in DOMAIN Merge(view) : OpenMessage(i)) \/ AutoRefresh \/ OnDeleted
  BY <1>1, <1>10 DEF Enter, Select, DeleteSelected, OpenMessage, CloseMessage, AutoRefresh, OnDeleted, pageVars
<1>11. CASE ServiceStep \/ ReadFails \/ DeleteFails \/ LateDelete \/ Break \/ UNCHANGED vars
            \/ \E p \in Parts : Arrive(p)
  BY <1>1, <1>11 DEF ServiceStep, ReadList, Delete, ReadFails, DeleteFails, LateDelete, Break, Arrive,
              vars, pageVars
<1>12. QED
  BY <1>4, <1>5, <1>6, <1>7, <1>8, <1>9, <1>10, <1>11 DEF Next, UserStep, PageStep

-----------------------------------------------------------------------------
(* Types. *)

LEMMA CacheStep ==
  ASSUME TypeInv, [Next]_vars
  PROVE  cache' \in Sources /\ late' \subseteq SUBSET Slots
<1>1. CASE UNCHANGED <<cache, late>> BY <1>1 DEF TypeInv, Sources
<1>2. CASE ReadList BY <1>2 DEF ReadList, TypeInv, Sources
<1>3. CASE ReadFails BY <1>3 DEF ReadFails, TypeInv, Sources
<1>4. ASSUME NEW i \in Waiting PROVE calls[i].slots \subseteq Slots
  <2>1. calls[i] \in CallTypes BY OldCalls DEF Waiting, Range
  <2>2. QED BY <2>1 DEF CallTypes
<1>5. CASE DeleteFails
  <2>1. PICK i \in Waiting : \A j \in Waiting : i <= j BY <1>5 DEF DeleteFails, Reply
  <2>2. Oldest.slots \subseteq Slots BY <1>4, <2>1 DEF Oldest
  <2>3. QED BY <1>5, <2>2 DEF DeleteFails, pageVars, TypeInv, Sources
<1>6. CASE LateDelete BY <1>6 DEF LateDelete, TypeInv, Sources
<1>7. CASE Break
  <2>1. cache' = cache BY <1>7 DEF Break
  <2>2. PICK done \in SUBSET Waiting : late' = late \union {calls[i].slots : i \in done}
    BY <1>7 DEF Break
  <2>3. QED BY <1>4, <2>1, <2>2 DEF TypeInv, Sources
<1>8. CASE UserStep
  BY <1>1, <1>8 DEF UserStep, Refresh, Leave, Enter, Select, DeleteSelected, OpenMessage, CloseMessage
<1>9. CASE AutoRefresh \/ WaitOut \/ Delete \/ (\E p \in Parts : Arrive(p)) \/ UNCHANGED vars
  BY <1>1, <1>9 DEF AutoRefresh, WaitOut, Delete, Arrive, vars
<1>10. CASE PageStep
  BY <1>1, <1>10 DEF PageStep, OnList, OnDeleted, OnAllDeleted, OnMeta, OnStable
<1>11. QED
  BY <1>2, <1>3, <1>5, <1>6, <1>7, <1>8, <1>9, <1>10 DEF Next, ServiceStep

\* The timer runs while the page is visible.
LEMMA FlagsStep ==
  ASSUME TypeInv, [Next]_vars
  PROVE  active' \in BOOLEAN /\ timer' = active' /\ inFlight' \in BOOLEAN /\ loading' \in BOOLEAN
<1>1. CASE UNCHANGED <<active, timer, inFlight, loading>> BY <1>1 DEF TypeInv
<1>2. CASE Refresh \/ Leave \/ Enter \/ Select \/ DeleteSelected \/ AutoRefresh \/ WaitOut
  BY <1>2 DEF Refresh, Leave, Enter, Select, DeleteSelected, AutoRefresh, WaitOut, pageVars, TypeInv
<1>3. CASE (\E i \in DOMAIN Merge(view) : OpenMessage(i)) \/ CloseMessage
  BY <1>1, <1>3 DEF OpenMessage, CloseMessage
<1>4. ASSUME NEW op, OnList(op)
      PROVE  active' \in BOOLEAN /\ timer' = active' /\ inFlight' \in BOOLEAN /\ loading' \in BOOLEAN
  BY <1>4 DEF OnList, TypeInv
<1>5. CASE OnDeleted \/ OnAllDeleted BY <1>5 DEF OnDeleted, OnAllDeleted, TypeInv
<1>6. CASE OnMeta BY <1>6 DEF OnMeta, TypeInv
<1>7. CASE OnStable BY <1>7 DEF OnStable, TypeInv
<1>8. CASE ServiceStep \/ ReadFails \/ DeleteFails \/ LateDelete \/ Break \/ UNCHANGED vars
           \/ \E p \in Parts : Arrive(p)
  BY <1>1, <1>8 DEF ServiceStep, ReadList, Delete, ReadFails, DeleteFails, LateDelete, Break, Arrive,
              vars, pageVars
<1>9. QED BY <1>2, <1>3, <1>4, <1>5, <1>6, <1>7, <1>8 DEF Next, UserStep, PageStep

LEMMA CountsStep ==
  ASSUME TypeInv, [Next]_vars
  PROVE  acts' \in 0 .. MaxActs /\ faults' \in 0 .. MaxFaults
<1>1. \/ acts' = acts
      \/ acts < MaxActs /\ acts' = acts + 1
  BY DEF Next, UserStep, Refresh, Leave, Enter, Select, DeleteSelected, OpenMessage, CloseMessage, Act,
         AutoRefresh, WaitOut, PageStep, OnList, OnDeleted, OnAllDeleted, OnMeta, OnStable,
         ServiceStep, ReadList, Delete, ReadFails, DeleteFails, LateDelete, Break, Arrive, vars
<1>2. \/ faults' = faults
      \/ faults < MaxFaults /\ faults' = faults + 1
  BY DEF Next, UserStep, Refresh, Leave, Enter, Select, DeleteSelected, OpenMessage, CloseMessage, Fault,
         AutoRefresh, WaitOut, PageStep, OnList, OnDeleted, OnAllDeleted, OnMeta, OnStable,
         ServiceStep, ReadList, Delete, ReadFails, DeleteFails, LateDelete, Break, Arrive, vars
<1>3. QED BY <1>1, <1>2, InboxAssumption DEF TypeInv

LEMMA TypeStep == ASSUME TypeInv, PositionInv, StoredInv, [Next]_vars PROVE TypeInv'
<1>1. store' \in Lists /\ arrived' \subseteq Parts /\ reused' \in BOOLEAN BY StoredStep
<1>2. cache' \in Lists /\ late' \subseteq SUBSET Slots BY CacheStep, SourcesAreLists
<1>3. view' \in Lists BY PositionStep, SourcesAreLists
<1>4. pending' \in PendingTypes BY PendingStep
<1>5. calls' \in Seq(CallTypes) BY CallsStep DEF CallsNext
<1>6. active' \in BOOLEAN /\ timer' = active' /\ inFlight' \in BOOLEAN /\ loading' \in BOOLEAN
  BY FlagsStep
<1>7. acts' \in 0 .. MaxActs /\ faults' \in 0 .. MaxFaults BY CountsStep
<1>8. QED BY <1>1, <1>2, <1>3, <1>4, <1>5, <1>6, <1>7 DEF TypeInv

-----------------------------------------------------------------------------
(* While no slot is filled a second time there is one filling of the slots   *)
(* of which every list is a part, so that two lists of the same slots are    *)
(* the same list.                                                            *)

LEMMA WithinRestricts ==
  ASSUME NEW l \in Lists, NEW h, Within(l, h) PROVE l = Restricted(h, Occupied(l))
<1>1. l = [s \in Occupied(l) |-> l[s]] BY ListFields
<1>2. \A s \in Occupied(l) : l[s] = h[s] BY DEF Within
<1>3. QED BY <1>1, <1>2 DEF Restricted

LEMMA EmptyWithin == ASSUME NEW h PROVE Within(Empty, h)
  BY EmptyIsList DEF Within

LEMMA SourcesWithin ==
  ASSUME NEW h, Filled(h) PROVE \A l \in Sources : Within(l, h)
  BY EmptyWithin DEF Filled, Sources

LEMMA WholeNext ==
  ASSUME TypeInv, NEW h, Filled(h), NEW c, Backed(c) PROVE Whole(c, h)
<1>1. CASE \E d \in Range(calls) : Alike(c, d)
  <2>1. PICK d \in Range(calls) : Alike(c, d) BY <1>1
  <2>2. Whole(d, h) BY DEF Filled
  <2>3. QED BY <2>1, <2>2 DEF Whole, Alike
<1>2. CASE c.op = "stable" /\ c.slots # {} /\ ~c.overdue =>
             \E l \in Sources : c.slots = Occupied(l) /\ ~Incomplete(l)
  <2> SUFFICES ASSUME c.op = "stable" /\ c.slots # {} /\ ~c.overdue
               PROVE  c.slots \subseteq Occupied(h) /\ ~Incomplete(Restricted(h, c.slots))
    BY DEF Whole
  <2>1. PICK l \in Sources : c.slots = Occupied(l) /\ ~Incomplete(l) BY <1>2
  <2>2. l \in Lists /\ Within(l, h) BY SourcesAreLists, SourcesWithin
  <2>3. l = Restricted(h, c.slots) BY <2>1, <2>2, WithinRestricts
  <2>4. c.slots \subseteq Occupied(h) BY <2>1, <2>2 DEF Within
  <2>5. QED BY <2>1, <2>3, <2>4
<1>3. QED BY <1>1, <1>2 DEF Backed

\* If no more parts arrived than the slots hold, the slots hold all of them.
LEMMA StoreIsAll ==
  ASSUME TypeInv, NEW h \in Lists, Filled(h), Cardinality(arrived) = Cardinality(Occupied(store)),
         IsFiniteSet(arrived)
  PROVE  Occupied(h) = Occupied(store)
<1>1. Occupied(store) \subseteq Occupied(h) BY DEF Filled, Within
<1>2. h \in Injection(Occupied(h), arrived)
  <2>1. \A s \in Occupied(h) : h[s] \in arrived BY DEF Filled
  <2>2. \A s, t \in Occupied(h) : h[s] = h[t] => s = t BY ListFields
  <2>3. h = [s \in Occupied(h) |-> h[s]] BY ListFields
  <2>4. h \in [Occupied(h) -> arrived] BY <2>1, <2>3
  <2>5. QED BY <2>2, <2>4 DEF Injection, IsInjective, Occupied
<1>3. Cardinality(Occupied(h)) <= Cardinality(arrived) BY <1>2, FS_Injection
<1>4. IsFiniteSet(Occupied(h)) /\ Cardinality(Occupied(h)) \in Nat BY ListFields, SlotsFinite
<1>5. /\ Cardinality(Occupied(store)) <= Cardinality(Occupied(h))
      /\ Cardinality(Occupied(store)) = Cardinality(Occupied(h)) => Occupied(store) = Occupied(h)
  BY <1>1, <1>4, FS_Subset
<1>6. Cardinality(Occupied(store)) \in Nat
  <2>1. Occupied(store) \in SUBSET Slots BY ListFields DEF TypeInv
  <2>2. QED BY <2>1, SlotsFinite
<1>7. QED BY <1>3, <1>4, <1>5, <1>6

LEMMA FilledArrive ==
  ASSUME TypeInv, StoredInv, NEW h \in Lists, Filled(h), NEW p \in Parts, Arrive(p), ~reused'
  PROVE  \E g \in Lists : Filled(g)'
<1>1. PICK s \in Slots :
        /\ p \notin arrived /\ s \notin Occupied(store)
        /\ store' = FilledWith(store, s, p) /\ arrived' = arrived \union {p}
        /\ reused' = (reused \/ Cardinality(arrived) # Cardinality(Occupied(store)))
        /\ UNCHANGED <<cache, view, pending, calls>>
  BY DEF Arrive, FilledWith, pageVars
<1>2. Occupied(h) = Occupied(store) BY <1>1, StoreIsAll DEF StoredInv
<1>3. \A t \in Occupied(h) : h[t] \in arrived /\ h[t] # p BY <1>1 DEF Filled
<1>4. PICK g : g = FilledWith(h, s, p) OBVIOUS
<1>5. /\ g \in Lists /\ Occupied(g) = Occupied(h) \union {s} /\ g[s] = p
      /\ \A t \in Occupied(h) : g[t] = h[t]
  BY <1>1, <1>2, <1>3, <1>4, FilledSlot
<1>6. ASSUME NEW l, Within(l, h) PROVE Within(l, g) BY <1>5, <1>6 DEF Within
<1>7. Within(store', g)
  <2>1. store \in Lists /\ \A t \in Occupied(store) : store[t] # p /\ store[t] = h[t]
    BY <1>2, <1>3 DEF TypeInv, Filled, Within
  <2>2. /\ Occupied(store') = Occupied(store) \union {s} /\ store'[s] = p
        /\ \A t \in Occupied(store) : store'[t] = store[t]
    BY <1>1, <2>1, FilledSlot
  <2>3. QED BY <1>2, <1>5, <2>1, <2>2 DEF Within
<1>8. ASSUME NEW c \in Range(calls) PROVE Within(c.list, g) /\ Whole(c, g)
  <2>1. Within(c.list, g) BY <1>6 DEF Filled
  <2>2. Whole(c, h) BY DEF Filled
  <2>3. ASSUME c.slots \subseteq Occupied(h)
        PROVE  c.slots \subseteq Occupied(g) /\ Restricted(g, c.slots) = Restricted(h, c.slots)
    BY <1>5, <2>3 DEF Restricted
  <2>4. QED BY <2>1, <2>2, <2>3 DEF Whole
<1>9. \A t \in Occupied(g) : g[t] \in arrived' BY <1>1, <1>3, <1>5
<1>10. Within(cache, g) /\ Within(view, g) /\ Within(pending.list, g)
  BY <1>6 DEF Filled
<1>11. Filled(g)'
  <2>1. \A c \in Range(calls') : Within(c.list, g) /\ Whole(c, g) BY <1>1, <1>8
  <2>2. Within(cache', g) /\ Within(view', g) /\ Within(pending'.list, g) BY <1>1, <1>10
  <2>3. QED BY <1>7, <1>9, <2>1, <2>2 DEF Filled, Within, Whole, Incomplete, Restricted, Occupied, Merge
<1>12. QED BY <1>5, <1>11

LEMMA FilledStep ==
  ASSUME TypeInv, PositionInv, StoredInv, FilledInv, [Next]_vars
  PROVE  FilledInv'
<1> SUFFICES ASSUME ~reused' PROVE \E g \in Lists : Filled(g)' BY DEF FilledInv
<1>1. ~reused
  <2>1. reused' = reused \/ \E b \in BOOLEAN : reused' = (reused \/ b)
    BY StoreMoves DEF Arrive
  <2>2. QED BY <2>1 DEF TypeInv
<1>2. PICK h \in Lists : Filled(h) BY <1>1 DEF FilledInv
<1>3. CASE \E p \in Parts : Arrive(p) BY <1>2, <1>3, FilledArrive
<1>4. ASSUME store' = store \/ \E slots : store' = Without(slots),
             arrived' = arrived
      PROVE  Filled(h)'
  <2>1. Within(store', h)
    <3>1. Within(store, h) BY <1>2 DEF Filled
    <3>2. ASSUME NEW slots, store' = Without(slots) PROVE Within(store', h)
      BY <3>1, <3>2, WithoutIsList DEF Within
    <3>3. QED BY <1>4, <3>1, <3>2
  <2>2. Within(cache', h) /\ Within(view', h) /\ Within(pending'.list, h)
    BY <1>2, CacheStep, PositionStep, PendingStep, SourcesWithin
  <2>3. \A c \in Range(calls') : Within(c.list, h) /\ Whole(c, h)
    BY <1>2, CallsStep, SourcesWithin, WholeNext DEF CallsNext
  <2>4. \A s \in Occupied(h) : h[s] \in arrived' BY <1>2, <1>4 DEF Filled
  <2>5. QED BY <2>1, <2>2, <2>3, <2>4 DEF Filled, Within, Whole, Incomplete, Restricted, Occupied, Merge
<1>5. QED BY <1>3, <1>4, StoreMoves

-----------------------------------------------------------------------------
LEMMA InvInit == Init => Inv
<1> SUFFICES ASSUME Init PROVE Inv OBVIOUS
<1>1. PICK c : c = Call("init", {}) OBVIOUS
<1>2. c \in CallTypes /\ c.list = Empty /\ c.op = "init" BY <1>1, CallFields DEF Reads
<1>3. calls = <<c>> BY <1>1 DEF Init
<1>4. calls \in Seq(CallTypes) /\ Range(calls) = {c} BY <1>2, <1>3 DEF Range
<1>5. pending = NotPending /\ NotPending \in PendingTypes /\ NotPending.list = Empty
  BY NothingPending DEF Init
<1>6. TypeInv
  <2>1. store \in Lists /\ cache \in Lists /\ view \in Lists BY EmptyIsList DEF Init
  <2>2. arrived \subseteq Parts /\ late \subseteq SUBSET Slots BY DEF Init
  <2>3. /\ active \in BOOLEAN /\ timer = active /\ inFlight \in BOOLEAN
        /\ loading \in BOOLEAN /\ reused \in BOOLEAN
    BY DEF Init
  <2>4. acts \in 0 .. MaxActs /\ faults \in 0 .. MaxFaults BY InboxAssumption DEF Init
  <2>5. QED BY <1>4, <1>5, <2>1, <2>2, <2>3, <2>4 DEF TypeInv
<1>7. PositionInv BY DEF Init, PositionInv
<1>8. PollInv BY DEF Init, PollInv
<1>9. StoredInv BY EmptyIsList, FS_EmptySet DEF Init, StoredInv
<1>10. Filled(Empty)
  <2>1. Within(Empty, Empty) BY EmptyWithin
  <2>2. Whole(c, Empty) BY <1>2 DEF Whole
  <2>3. store = Empty /\ cache = Empty /\ view = Empty BY DEF Init
  <2>4. QED BY <1>2, <1>4, <1>5, <2>1, <2>2, <2>3, EmptyIsList DEF Filled
<1>11. FilledInv BY <1>10, EmptyIsList DEF FilledInv
<1>12. QED BY <1>6, <1>7, <1>8, <1>9, <1>11 DEF Inv

LEMMA InvStep == Inv /\ [Next]_vars => Inv'
<1> SUFFICES ASSUME Inv, [Next]_vars PROVE Inv' OBVIOUS
<1>1. TypeInv /\ PositionInv /\ PollInv /\ StoredInv /\ FilledInv BY DEF Inv
<1>2. TypeInv' BY <1>1, TypeStep
<1>3. PositionInv' BY <1>1, PositionStep
<1>4. PollInv' BY <1>1, PollStep
<1>5. StoredInv' BY <1>1, StoredStep
<1>6. FilledInv' BY <1>1, FilledStep
<1>7. QED BY <1>2, <1>3, <1>4, <1>5, <1>6 DEF Inv

LEMMA InvAlways == Spec => []Inv
  BY InvInit, InvStep, PTL DEF Spec

\* Selection and open message are positions of the list on display, a poll
\* under way has a call that something answers, and the timer runs exactly
\* while the page is visible (pages/sms.js:41-200).
THEOREM TypeCorrect == Spec => []TypeOK
<1>1. Inv => TypeOK
  <2> SUFFICES ASSUME Inv PROVE TypeOK OBVIOUS
  <2>1. TypeInv /\ PositionInv /\ PollInv BY DEF Inv
  <2>2. \A i \in DOMAIN calls : calls[i] \in CallTypes BY <2>1, OldCalls DEF Range
  <2>3. \A i \in DOMAIN calls : calls[i].list \in Lists /\ calls[i].slots \subseteq Slots
    BY <2>2 DEF CallTypes
  <2>4. inFlight => \E i \in DOMAIN calls : calls[i].op \in {"meta", "stable"}
    BY <2>1 DEF PollInv, Range
  <2>5. pending.list \in Lists /\ pending.stable \in 0 .. 2 /\ pending.overdue \in BOOLEAN
    BY <2>1 DEF TypeInv, PendingTypes
  <2>6. {active, timer, inFlight, loading, reused} \subseteq BOOLEAN BY <2>1 DEF TypeInv
  <2>7. QED BY <2>1, <2>3, <2>4, <2>5, <2>6 DEF TypeInv, PositionInv, TypeOK
<1>2. QED BY <1>1, InvAlways, PTL

\* A long message on display has its parts in the order in which they were
\* written, and no part of another message, whatever slots they arrived in
\* (structured_api.go, mergeSMSFragments).
THEOREM LongInOrderCorrect == Spec => []LongInOrder
<1>1. Inv => LongInOrder BY ListInOrder DEF Inv, TypeInv, LongInOrder
<1>2. QED BY <1>1, InvAlways, PTL

\* The parts of the messages at some positions are those in their texts.
LEMMA PartsOfTexts ==
  ASSUME NEW l \in Lists, NEW positions \in SUBSET DOMAIN Merge(l)
  PROVE  PartsAt(l, positions) = UNION {Range(Merge(l)[i].text) : i \in positions}
<1>1. \A i \in positions : {l[s] : s \in Merge(l)[i].indices} = Range(Merge(l)[i].text)
  BY TextOfSlots
<1>2. PartsAt(l, positions) = UNION {{l[s] : s \in Merge(l)[i].indices} : i \in positions}
  BY DEF PartsAt
<1>3. QED BY <1>1, <1>2

\* Whenever the list on display is replaced, by whatever answer at whatever
\* time, what is ticked then was ticked before, and the open message is the one
\* that was open (pages/sms.js, applySMSData).
THEOREM SelectionKeptCorrect == Spec => SelectionKept
<1>1. ASSUME Inv, [Next]_vars, view' # view
      PROVE  /\ PartsAt(view', selected') \subseteq PartsAt(view, selected)
             /\ detail' # 0 => Merge(view')[detail'] = Merge(view)[detail]
  <2>1. TypeInv /\ PositionInv BY <1>1 DEF Inv
  <2>2. ASSUME NEW l \in Sources, Apply(l)
        PROVE  /\ PartsAt(view', selected') \subseteq PartsAt(view, selected)
               /\ detail' # 0 => Merge(view')[detail'] = Merge(view)[detail]
    BY <2>2 DEF Apply, PartsAt
  <2>3. ASSUME NEW l \in Sources, ApplyKeeping(l)
        PROVE  /\ PartsAt(view', selected') \subseteq PartsAt(view, selected)
               /\ detail' # 0 => Merge(view')[detail'] = Merge(view)[detail]
    <3>1. view \in Lists /\ l \in Lists BY <2>1, SourcesAreLists DEF TypeInv
    <3>2. /\ view' = l
          /\ selected' = {i \in DOMAIN Merge(l) : \E j \in selected : Merge(view)[j] = Merge(l)[i]}
      BY <2>3 DEF ApplyKeeping
    <3>3. PartsAt(l, selected') = UNION {Range(Merge(l)[i].text) : i \in selected'}
      BY <3>1, <3>2, PartsOfTexts
    <3>4. PartsAt(view, selected) = UNION {Range(Merge(view)[i].text) : i \in selected}
      BY <2>1, <3>1, PartsOfTexts DEF PositionInv
    <3>5. \A i \in selected' : \E j \in selected : Merge(view)[j].text = Merge(l)[i].text
      BY <3>2
    <3>6. PartsAt(l, selected') \subseteq PartsAt(view, selected) BY <3>3, <3>4, <3>5
    <3>7. detail' # 0 => Merge(l)[detail'] = Merge(view)[detail]
      BY <2>3 DEF ApplyKeeping
    <3>8. QED BY <3>2, <3>6, <3>7
  <2>4. QED BY <1>1, <2>1, <2>2, <2>3, ViewMoves
<1>2. Inv /\ [Next]_vars =>
        (view' # view =>
           /\ PartsAt(view', selected') \subseteq PartsAt(view, selected)
           /\ detail' # 0 => Merge(view')[detail'] = Merge(view)[detail])
  BY <1>1
<1>3. QED BY <1>2, InvAlways, PTL DEF Spec, SelectionKept

\* As long as no slot was filled a second time, the list that a poll fetches
\* after it saw its indices twice has no message that lacks parts, whatever
\* arrived and was deleted between the two answers and the third
\* (pages/sms.js, handlePolledSMSMeta and fetchStableSMSList).
THEOREM NoHalfShownCorrect == Spec => NoHalfShown
<1>1. ASSUME Inv, [Next]_vars, view' # view, Incomplete(view'), ~reused,
             Head(calls).op = "stable", Head(calls).slots # {}
      PROVE  Head(calls).overdue
  <2>1. TypeInv /\ PositionInv /\ FilledInv BY <1>1 DEF Inv
  <2>2. ~ Incomplete(Empty) BY MergeNothing DEF Incomplete
  <2>3. PICK l \in Sources : ApplyKeeping(l) /\ OnStable /\ l = Head(calls).list
    <3>1. ~ (Answered("init") \/ Answered("list")) BY <1>1 DEF Answered
    <3>2. ~ \E l \in Sources : Apply(l) /\ (l # Empty => Answered("init") \/ Answered("list"))
      BY <1>1, <2>2, <3>1 DEF Apply
    <3>3. QED BY <1>1, <2>1, <3>2, ViewMoves
  <2>4. PICK h \in Lists : Filled(h) BY <1>1, <2>1 DEF FilledInv
  <2>5. view' = l BY <2>3 DEF ApplyKeeping
  <2>6. Occupied(l) = Head(calls).slots
    BY <1>1, <2>3, <2>5 DEF OnStable, ApplyKeeping
  <2>7. Head(calls) \in Range(calls) BY <2>1, <2>3, HeadCall DEF OnStable
  <2>8. Whole(Head(calls), h) BY <2>4, <2>7 DEF Filled
  <2>9. l = Restricted(h, Head(calls).slots)
    BY <2>1, <2>4, <2>6, SourcesAreLists, SourcesWithin, WithinRestricts
  <2>10. QED BY <1>1, <2>5, <2>8, <2>9 DEF Whole
<1>2. Inv /\ [Next]_vars =>
        (view' # view /\ Incomplete(view') /\ ~reused
         /\ Head(calls).op = "stable" /\ Head(calls).slots # {}
         => Head(calls).overdue)
  BY <1>1
<1>3. QED BY <1>2, InvAlways, PTL DEF Spec, NoHalfShown
=============================================================================
