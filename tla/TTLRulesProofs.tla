---------------------------- MODULE TTLRulesProofs ----------------------------
(***************************************************************************)
(* Theorems about TTLRules: the types of its variables, that the rules for *)
(* the TTL do not pile up, that the file reads as what was asked for, and  *)
(* that an operation nobody disturbs has the effect it was begun for and   *)
(* no other.                                                               *)
(*                                                                         *)
(* Chains and what is left to delete are bags, about which the lemmas of   *)
(* the first section say what a deletion and an insertion leave.  The      *)
(* types carry that what is listed has all the marks, so that the rules    *)
(* that lack one are not deleted.  The file is                             *)
(* what was there before, or empty while one actor is between truncation   *)
(* and write, whose text then is all of it.  An undisturbed operation      *)
(* moves alone, so that at each of its steps the chains hold what the      *)
(* steps before it have left (InHand).  While no command fails every rule  *)
(* for the TTL has an actor of its own that inserted it and has not begun  *)
(* since to insert another in that family (Owns).                          *)
(***************************************************************************)
EXTENDS TTLRules, SequenceTheorems, FiniteSetTheorems, TLAPS

-----------------------------------------------------------------------------
(* Bags of rules. *)

LEMMA NothingIsBag == IsABag(EmptyBag) /\ DOMAIN EmptyBag = {}
  BY DEF EmptyBag, SetToBag, IsABag

LEMMA SingleIsBag == ASSUME NEW r PROVE IsABag(SetToBag({r})) /\ DOMAIN SetToBag({r}) = {r}
  BY DEF SetToBag, IsABag

LEMMA AddIsBag ==
  ASSUME NEW B, IsABag(B), NEW r
  PROVE  /\ IsABag(Plus(B, r)) /\ DOMAIN Plus(B, r) = DOMAIN B \union {r}
         /\ Plus(B, r)[r] = IF r \in DOMAIN B THEN B[r] + 1 ELSE 1
         /\ \A e \in DOMAIN B \ {r} : Plus(B, r)[e] = B[e]
<1>1. SetToBag({r}) = [e \in {r} |-> 1] BY DEF SetToBag
<1>2. \A e \in DOMAIN B : B[e] \in Nat /\ B[e] > 0 BY DEF IsABag
<1>3. PICK C : C = [e \in DOMAIN B \union {r} |->
                      (IF e \in DOMAIN B THEN B[e] ELSE 0) + (IF e \in {r} THEN 1 ELSE 0)]
  OBVIOUS
<1>4. Plus(B, r) = C BY <1>1, <1>3 DEF Plus, (+)
<1>5. \A e \in DOMAIN C : C[e] = IF e = r THEN (IF r \in DOMAIN B THEN B[r] + 1 ELSE 1) ELSE B[e]
  BY <1>2, <1>3
<1>6. DOMAIN C = DOMAIN B \union {r} /\ C = [e \in DOMAIN C |-> C[e]] BY <1>3
<1>7. IsABag(C) BY <1>2, <1>5, <1>6 DEF IsABag
<1>8. QED BY <1>4, <1>5, <1>6, <1>7

LEMMA RemoveIsBag ==
  ASSUME NEW B, IsABag(B), NEW r
  PROVE  /\ IsABag(Minus(B, r))
         /\ DOMAIN Minus(B, r) = IF r \in DOMAIN B /\ B[r] = 1 THEN DOMAIN B \ {r} ELSE DOMAIN B
         /\ r \in DOMAIN Minus(B, r) => Minus(B, r)[r] = B[r] - 1
<1>1. SetToBag({r}) = [e \in {r} |-> 1] BY DEF SetToBag
<1>2. \A e \in DOMAIN B : B[e] \in Nat /\ B[e] > 0 BY DEF IsABag
<1>3. PICK D : D = [e \in DOMAIN B |-> IF e \in {r} THEN B[e] - 1 ELSE B[e]] OBVIOUS
<1>4. PICK C : C = [e \in {d \in DOMAIN D : D[d] > 0} |-> D[e]] OBVIOUS
<1>5. Minus(B, r) = C BY <1>1, <1>3, <1>4 DEF Minus, (-)
<1>6. DOMAIN C = IF r \in DOMAIN B /\ B[r] = 1 THEN DOMAIN B \ {r} ELSE DOMAIN B
  BY <1>2, <1>3, <1>4
<1>7. \A e \in DOMAIN C : C[e] = IF e = r THEN B[r] - 1 ELSE B[e] BY <1>3, <1>4
<1>8. \A e \in DOMAIN C : C[e] \in Nat /\ C[e] > 0 BY <1>2, <1>3, <1>4
<1>9. IsABag(C) BY <1>4, <1>8 DEF IsABag
<1>10. QED BY <1>5, <1>6, <1>7, <1>9

RulesOf(B) == Restrict(B, {r \in DOMAIN B : Managed(r)})

LEMMA RulesAreBag ==
  ASSUME NEW B, IsABag(B)
  PROVE  /\ IsABag(RulesOf(B)) /\ DOMAIN RulesOf(B) = {r \in DOMAIN B : Managed(r)}
         /\ \A e \in DOMAIN RulesOf(B) : RulesOf(B)[e] = B[e]
  BY DEF RulesOf, Restrict, IsABag

\* Which rules have all the marks: those of the TTL, and those of others that
\* are not spared.
LEMMA OwnIsManaged == ASSUME NEW v \in 0 .. 255 PROVE Managed(v) /\ v \notin Others
  BY TTLAssumption DEF Managed, MarksOf

LEMMA SparedIsNotManaged ==
  ASSUME NEW o \in Others
  PROVE  o \in Spared <=> ~ Managed(o)
<1>1. Carries[o] \subseteq Marks BY TTLAssumption
<1>2. QED BY <1>1 DEF Managed, MarksOf, Spared

LEMMA PlusAt ==
  ASSUME NEW B, IsABag(B), NEW r, NEW e
  PROVE  /\ e \in DOMAIN Plus(B, r) <=> e \in DOMAIN B \/ e = r
         /\ e \in DOMAIN B /\ e # r => Plus(B, r)[e] = B[e]
         /\ e \notin DOMAIN B /\ e = r => Plus(B, r)[e] = 1
         /\ e \in DOMAIN B /\ e = r => Plus(B, r)[e] = B[e] + 1
<1>1. DOMAIN Plus(B, r) = DOMAIN B \union {r} BY AddIsBag
<1>2. Plus(B, r)[r] = IF r \in DOMAIN B THEN B[r] + 1 ELSE 1 BY AddIsBag
<1>3. \A x \in DOMAIN B \ {r} : Plus(B, r)[x] = B[x] BY AddIsBag
<1>4. QED BY <1>1, <1>2, <1>3

LEMMA MinusAt ==
  ASSUME NEW B, IsABag(B), NEW r, NEW e
  PROVE  /\ e \in DOMAIN Minus(B, r) <=> e \in DOMAIN B /\ ~ (e = r /\ B[r] = 1)
         /\ e \in DOMAIN B /\ e # r => Minus(B, r)[e] = B[e]
         /\ e \in DOMAIN Minus(B, r) /\ e = r => Minus(B, r)[e] = B[e] - 1
<1>1. DOMAIN Minus(B, r) = IF r \in DOMAIN B /\ B[r] = 1 THEN DOMAIN B \ {r} ELSE DOMAIN B
  BY RemoveIsBag
<1>2. r \in DOMAIN Minus(B, r) => Minus(B, r)[r] = B[r] - 1 BY RemoveIsBag, Zenon
<1>3. e \in DOMAIN B /\ e # r => Minus(B, r)[e] = B[e]
  <2>1. SetToBag({r}) = [x \in {r} |-> 1] BY DEF SetToBag
  <2>2. \A x \in DOMAIN B : B[x] \in Nat /\ B[x] > 0 BY DEF IsABag
  <2>3. PICK D : D = [x \in DOMAIN B |-> IF x \in {r} THEN B[x] - 1 ELSE B[x]] OBVIOUS
  <2>4. PICK C : C = [x \in {d \in DOMAIN D : D[d] > 0} |-> D[x]] OBVIOUS
  <2>5. Minus(B, r) = C BY <2>1, <2>3, <2>4 DEF Minus, (-)
  <2>6. QED BY <2>2, <2>3, <2>4, <2>5
<1>4. QED BY <1>1, <1>2, <1>3

\* Deleting a managed rule and listing the managed rules commute.
LEMMA RulesOfRemove ==
  ASSUME NEW B, IsABag(B), NEW r, Managed(r)
  PROVE  RulesOf(Minus(B, r)) = Minus(RulesOf(B), r)
<1>1. PICK R, M, N : R = RulesOf(B) /\ M = RulesOf(Minus(B, r)) /\ N = Minus(R, r) OBVIOUS
<1>2. IsABag(R) /\ IsABag(M) /\ IsABag(N) /\ IsABag(Minus(B, r)) BY <1>1, RulesAreBag, RemoveIsBag
<1>3. /\ DOMAIN R = {e \in DOMAIN B : Managed(e)}
      /\ DOMAIN M = {e \in DOMAIN Minus(B, r) : Managed(e)}
      /\ \A e \in DOMAIN R : R[e] = B[e]
      /\ \A e \in DOMAIN M : M[e] = Minus(B, r)[e]
  BY <1>1, <1>2, RulesAreBag
<1>4. DOMAIN M = DOMAIN N
  <2>1. DOMAIN N = IF r \in DOMAIN R /\ R[r] = 1 THEN DOMAIN R \ {r} ELSE DOMAIN R
    BY <1>1, <1>2, RemoveIsBag
  <2>2. DOMAIN Minus(B, r) = IF r \in DOMAIN B /\ B[r] = 1 THEN DOMAIN B \ {r} ELSE DOMAIN B
    BY RemoveIsBag
  <2>3. QED BY <1>3, <2>1, <2>2
<1>5. ASSUME NEW e \in DOMAIN N PROVE M[e] = N[e]
  <2>1. e \in DOMAIN M BY <1>4, <1>5
  <2>2. e \in DOMAIN Minus(B, r) /\ Managed(e) BY <1>3, <2>1
  <2>3. e \in DOMAIN B BY <2>2, MinusAt
  <2>4. e \in DOMAIN R /\ R[e] = B[e] /\ M[e] = Minus(B, r)[e] BY <1>3, <2>1, <2>2, <2>3
  <2>5. N[e] = IF e = r THEN R[e] - 1 ELSE R[e] BY <1>1, <1>2, <1>5, <2>4, MinusAt
  <2>6. Minus(B, r)[e] = IF e = r THEN B[e] - 1 ELSE B[e] BY <2>2, <2>3, MinusAt
  <2>7. QED BY <2>4, <2>5, <2>6
<1>6. M = N BY <1>2, <1>4, <1>5 DEF IsABag
<1>7. QED BY <1>1, <1>6

LEMMA RulesOfAdd ==
  ASSUME NEW B, IsABag(B), NEW r, Managed(r), RulesOf(B) = EmptyBag
  PROVE  RulesOf(Plus(B, r)) = SetToBag({r})
<1>1. {e \in DOMAIN B : Managed(e)} = {} BY RulesAreBag, NothingIsBag
<1>2. PICK C : C = Plus(B, r) OBVIOUS
<1>3. IsABag(C) /\ DOMAIN C = DOMAIN B \union {r} BY <1>2, AddIsBag
<1>4. r \notin DOMAIN B BY <1>1
<1>5. C[r] = 1 BY <1>2, <1>4, PlusAt
<1>6. {e \in DOMAIN C : Managed(e)} = {r} BY <1>1, <1>3
<1>7. RulesOf(C) = SetToBag({r}) BY <1>5, <1>6 DEF RulesOf, Restrict, SetToBag
<1>8. QED BY <1>2, <1>7

\* A rule without all the marks is neither deleted nor added to.
LEMMA SparedUntouched ==
  ASSUME NEW B, IsABag(B), NEW r, Managed(r), NEW o, ~ Managed(o), o \in DOMAIN B
  PROVE  /\ o \in DOMAIN Minus(B, r) /\ Minus(B, r)[o] = B[o]
         /\ o \in DOMAIN Plus(B, r) /\ Plus(B, r)[o] = B[o]
<1>1. o \in DOMAIN Minus(B, r) /\ Minus(B, r)[o] = B[o] BY MinusAt
<1>2. o \in DOMAIN Plus(B, r) /\ Plus(B, r)[o] = B[o] BY PlusAt
<1>3. QED BY <1>1, <1>2

-----------------------------------------------------------------------------
(* The text of the file. *)

LEMMA DigitsTyped == ASSUME NEW v \in 0 .. 255 PROVE Digits(v) \in Seq(0 .. 9)
<1>1. CASE v < 10 BY <1>1 DEF Digits
<1>2. CASE ~ v < 10 /\ v < 100
  <2>1. v \div 10 \in 0 .. 9 /\ v % 10 \in 0 .. 9 BY <1>2
  <2>2. QED BY <1>2, <2>1 DEF Digits
<1>3. CASE ~ v < 100
  <2>1. v \div 100 \in 0 .. 9 /\ (v \div 10) % 10 \in 0 .. 9 /\ v % 10 \in 0 .. 9 BY <1>3
  <2>2. ~ v < 10 BY <1>3
  <2>3. QED BY <1>3, <2>1, <2>2 DEF Digits
<1>4. QED BY <1>1, <1>2, <1>3

LEMMA TextTyped == ASSUME NEW v \in 0 .. 255 PROVE Text(v) \in Seq(0 .. Newline)
<1>1. Digits(v) \in Seq(0 .. 9) BY DigitsTyped
<1>2. Digits(v) \in Seq(0 .. Newline) BY <1>1 DEF Newline
<1>3. Newline \in 0 .. Newline BY DEF Newline
<1>4. QED BY <1>2, <1>3, AppendProperties DEF Text

LEMMA OverlayTyped ==
  ASSUME NEW S, NEW old \in Seq(S), NEW new \in Seq(S)
  PROVE  Overlay(old, new) \in Seq(S)
<1>1. Len(old) \in Nat /\ Len(new) \in Nat BY LenProperties
<1>2. \A i \in 1 .. Len(old) : old[i] \in S BY ElementOfSeq
<1>3. \A i \in 1 .. Len(new) : new[i] \in S BY ElementOfSeq
<1>4. PICK n \in Nat : n = IF Len(old) > Len(new) THEN Len(old) ELSE Len(new) BY <1>1
<1>5. Overlay(old, new) = [i \in 1 .. n |-> IF i <= Len(new) THEN new[i] ELSE old[i]]
  BY <1>4 DEF Overlay
<1>6. \A i \in 1 .. n : (IF i <= Len(new) THEN new[i] ELSE old[i]) \in S
  BY <1>1, <1>2, <1>3, <1>4
<1>7. QED BY <1>5, <1>6, IsASeq

LEMMA OverlayNothing ==
  ASSUME NEW S, NEW new \in Seq(S)
  PROVE  Overlay(<<>>, new) = new
<1>1. Len(new) \in Nat /\ DOMAIN new = 1 .. Len(new) /\ new = [i \in DOMAIN new |-> new[i]]
  BY LenProperties
<1>2. Len(<<>>) = 0 OBVIOUS
<1>3. (IF Len(<<>>) > Len(new) THEN Len(<<>>) ELSE Len(new)) = Len(new) BY <1>1, <1>2
<1>4. QED BY <1>1, <1>3 DEF Overlay

LEMMA NumberTyped == ASSUME NEW text PROVE Number(text) \in -1 .. 255
  BY DEF Number

LEMMA SavedTyped == Saved \in -1 .. 255
  BY NumberTyped, TTLAssumption DEF Saved

-----------------------------------------------------------------------------
(* Types. *)

Rule == 1 .. 255 \union Others

\* The type of a chain, and that the rules that lack a mark are in it.
IsChain(B) ==
  /\ IsABag(B) /\ DOMAIN B \subseteq Rule
  /\ \A o \in Spared : o \in DOMAIN B /\ B[o] = 1

ChainOK == DOMAIN chain = Families /\ \A f \in Families : IsChain(chain[f])

\* What is left to delete has all the marks.
TodoOK ==
  /\ DOMAIN todo = Actors
  /\ \A a \in Actors : IsABag(todo[a]) /\ DOMAIN todo[a] \subseteq {r \in Rule : Managed(r)}

\* A rule is inserted only for a value that is not 0.
PlaceOK ==
  /\ pc \in [Actors -> Step] /\ want \in [Actors -> 0 .. 255]
  /\ save \in [Actors -> BOOLEAN] /\ fam \in [Actors -> Families]
  /\ \A a \in Actors : pc[a] = "insert" => want[a] > 0

FileOK == file \in [exists : BOOLEAN, text : Seq(0 .. Newline)]

CountsOK ==
  /\ up \in BOOLEAN /\ torn \in BOOLEAN /\ clean \in [Actors -> BOOLEAN]
  /\ sets \in 0 .. MaxSets /\ faults \in 0 .. MaxFaults /\ crashes \in 0 .. MaxCrashes

TypeInv == ChainOK /\ TodoOK /\ PlaceOK /\ FileOK /\ CountsOK

LEMMA OthersAreChain == IsChain(SetToBag(Others))
  BY DEF IsChain, SetToBag, IsABag, Spared, Rule

LEMMA TypeInit == Init => TypeInv
<1> SUFFICES ASSUME Init PROVE TypeInv OBVIOUS
<1>1. ChainOK BY OthersAreChain DEF Init, ChainOK
<1>2. TodoOK BY NothingIsBag DEF Init, TodoOK
<1>3. PlaceOK BY DEF Init, PlaceOK, Step, Families
<1>4. FileOK
  <2>1. PICK v \in Values : file \in {[exists |-> TRUE, text |-> Text(v)], [exists |-> FALSE, text |-> <<>>]}
    BY DEF Init
  <2>2. Text(v) \in Seq(0 .. Newline) BY TTLAssumption, TextTyped
  <2>3. <<>> \in Seq(0 .. Newline) BY EmptySeq
  <2>4. \E b \in BOOLEAN, t \in Seq(0 .. Newline) : file = [exists |-> b, text |-> t]
    BY <2>1, <2>2, <2>3
  <2>5. QED BY <2>4 DEF FileOK
<1>5. CountsOK
  <2>1. up \in BOOLEAN /\ torn \in BOOLEAN /\ clean \in [Actors -> BOOLEAN] BY DEF Init
  <2>2. sets = 0 /\ faults = 0 /\ crashes = 0 BY DEF Init
  <2>3. sets \in 0 .. MaxSets /\ faults \in 0 .. MaxFaults /\ crashes \in 0 .. MaxCrashes
    BY <2>2, TTLAssumption
  <2>4. QED BY <2>1, <2>3 DEF CountsOK
<1>6. QED BY <1>1, <1>2, <1>3, <1>4, <1>5 DEF TypeInv

\* Who is undisturbed: nobody but the one who moves.
LEMMA AloneTyped ==
  ASSUME NEW a, NEW ok, Alone(a, ok)
  PROVE  clean' \in [Actors -> BOOLEAN] /\ \A x \in Actors : clean'[x] => x = a /\ ok /\ clean[a]
  BY Zenon DEF Alone

LEMMA FreshTyped ==
  ASSUME NEW a, Fresh(a)
  PROVE  clean' \in [Actors -> BOOLEAN] /\ \A x \in Actors : clean'[x] => x = a
  BY Zenon DEF Fresh

LEMMA BeginPlace ==
  ASSUME PlaceOK, NEW a \in Actors, NEW v \in 0 .. 255, NEW persist \in BOOLEAN,
         NEW step \in {"list", "truncate"}, Begin(a, v, persist, step)
  PROVE  PlaceOK' /\ clean' \in [Actors -> BOOLEAN]
<1>1. clean' \in [Actors -> BOOLEAN] BY FreshTyped DEF Begin
<1>2. PlaceOK' BY DEF Begin, At, PlaceOK, Step, Families
<1>3. QED BY <1>1, <1>2

LEMMA ReturnPlace ==
  ASSUME PlaceOK, up \in BOOLEAN, NEW a \in Actors, Return(a), UNCHANGED <<want, save, fam>>
  PROVE  PlaceOK' /\ up' \in BOOLEAN
<1>1. PlaceOK' BY DEF Return, At, PlaceOK, Step
<1>2. up' = (up \/ a = Main) BY DEF Return
<1>3. up' \in BOOLEAN BY <1>2
<1>4. QED BY <1>1, <1>3

LEMMA AfterRemovalPlace ==
  ASSUME PlaceOK, up \in BOOLEAN, NEW a \in Actors, AfterRemoval(a), UNCHANGED <<want, save>>
  PROVE  PlaceOK' /\ up' \in BOOLEAN
<1>1. CASE fam[a] = 1
  <2>1. At(a, "list") /\ fam' = [fam EXCEPT ![a] = 2] /\ up' = up
    BY <1>1 DEF AfterRemoval
  <2>2. QED BY <2>1 DEF At, PlaceOK, Step, Families
<1>2. CASE fam[a] = 2 /\ want[a] > 0
  <2>1. At(a, "insert") /\ fam' = [fam EXCEPT ![a] = 1] /\ up' = up
    BY <1>2 DEF AfterRemoval
  <2>2. QED BY <1>2, <2>1 DEF At, PlaceOK, Step, Families
<1>3. CASE fam[a] # 1 /\ ~ (fam[a] = 2 /\ want[a] > 0)
  <2>1. (IF save[a] THEN At(a, "truncate") /\ UNCHANGED up ELSE Return(a)) /\ UNCHANGED fam
    BY <1>3 DEF AfterRemoval
  <2>2. CASE save[a]
    <3>1. At(a, "truncate") /\ UNCHANGED <<up, fam>> BY <2>1, <2>2
    <3>2. QED BY <3>1 DEF At, PlaceOK, Step
  <2>3. CASE ~ save[a] BY <2>1, <2>3, ReturnPlace
  <2>4. QED BY <2>2, <2>3
<1>4. QED BY <1>1, <1>2, <1>3

LEMMA ManagedIsChain ==
  ASSUME NEW B, IsChain(B), NEW r \in Rule, Managed(r)
  PROVE  IsChain(Minus(B, r)) /\ IsChain(Plus(B, r))
<1>1. IsABag(B) BY DEF IsChain
<1>2. ASSUME NEW o \in Spared
      PROVE  /\ o \in DOMAIN Minus(B, r) /\ Minus(B, r)[o] = 1
             /\ o \in DOMAIN Plus(B, r) /\ Plus(B, r)[o] = 1
  <2>1. o \in Others BY DEF Spared
  <2>2. ~ Managed(o) BY <2>1, SparedIsNotManaged
  <2>3. o \in DOMAIN B /\ B[o] = 1 BY DEF IsChain
  <2>4. QED BY <1>1, <2>2, <2>3, SparedUntouched
<1>3. IsChain(Minus(B, r))
  <2>1. IsABag(Minus(B, r)) BY <1>1, RemoveIsBag
  <2>2. \A e \in DOMAIN Minus(B, r) : e \in DOMAIN B BY <1>1, MinusAt
  <2>3. QED BY <1>2, <2>1, <2>2 DEF IsChain
<1>4. IsChain(Plus(B, r))
  <2>1. IsABag(Plus(B, r)) /\ DOMAIN Plus(B, r) = DOMAIN B \union {r} BY <1>1, AddIsBag
  <2>2. QED BY <1>2, <2>1 DEF IsChain
<1>5. QED BY <1>3, <1>4

LEMMA ChainStep == ASSUME TypeInv, [Next]_vars PROVE ChainOK'
<1>1. ASSUME NEW f \in Families, NEW B, IsChain(B), chain' = [chain EXCEPT ![f] = B]
      PROVE  ChainOK'
  BY <1>1 DEF TypeInv, ChainOK
<1>2. CASE UNCHANGED chain BY <1>2 DEF TypeInv, ChainOK
<1>3. ASSUME NEW a \in Actors, Delete(a) PROVE ChainOK'
  <2>1. PICK r \in DOMAIN todo[a] : chain' = [chain EXCEPT ![fam[a]] = Minus(chain[fam[a]], r)]
    BY <1>3 DEF Delete
  <2>2. fam[a] \in Families /\ r \in Rule /\ Managed(r) BY DEF TypeInv, PlaceOK, TodoOK
  <2>3. IsChain(chain[fam[a]]) BY <2>2 DEF TypeInv, ChainOK
  <2>4. QED BY <1>1, <2>1, <2>2, <2>3, ManagedIsChain
<1>4. ASSUME NEW a \in Actors, Insert(a) PROVE ChainOK'
  <2>1. \/ UNCHANGED chain
        \/ chain' = [chain EXCEPT ![fam[a]] = Plus(chain[fam[a]], want[a])]
    BY <1>4 DEF Insert
  <2>2. fam[a] \in Families /\ want[a] \in 1 .. 255
    BY <1>4 DEF Insert, TypeInv, PlaceOK
  <2>5. want[a] \in Rule /\ Managed(want[a]) BY <2>2, OwnIsManaged DEF Rule
  <2>3. IsChain(chain[fam[a]]) BY <2>2 DEF TypeInv, ChainOK
  <2>4. QED BY <1>1, <1>2, <2>1, <2>2, <2>3, <2>5, ManagedIsChain
<1>5. CASE Reboot BY <1>5, OthersAreChain DEF Reboot, ChainOK
<1>6. CASE \E a \in Actors : \/ List(a) \/ ListFails(a) \/ DeleteFails(a) \/ Removed(a)
                              \/ Truncate(a) \/ WriteText(a) \/ WriteFails(a)
  BY <1>2, <1>6 DEF List, ListFails, DeleteFails, Removed, Truncate, WriteText, WriteFails
<1>7. CASE \/ Start \/ Crash \/ UNCHANGED vars
           \/ \E s \in Setters, v \in Values : SetTTL(s, v)
           \/ \E c \in Commands : TTLCommand(c)
  BY <1>2, <1>7 DEF Start, Crash, SetTTL, TTLCommand, Begin, vars
<1>8. QED BY <1>3, <1>4, <1>5, <1>6, <1>7 DEF Next, Apply

LEMMA TodoStep == ASSUME TypeInv, [Next]_vars PROVE TodoOK'
<1>1. ASSUME NEW a \in Actors, NEW B, IsABag(B), DOMAIN B \subseteq {r \in Rule : Managed(r)},
             todo' = [todo EXCEPT ![a] = B]
      PROVE  TodoOK'
  BY <1>1 DEF TypeInv, TodoOK
<1>2. CASE UNCHANGED todo BY <1>2 DEF TypeInv, TodoOK
<1>3. ASSUME NEW a \in Actors, List(a) PROVE TodoOK'
  <2>1. todo' = [todo EXCEPT ![a] = RulesOf(chain[fam[a]])] BY <1>3 DEF List, Rules, RulesOf
  <2>2. IsChain(chain[fam[a]]) BY DEF TypeInv, PlaceOK, ChainOK
  <2>3. PICK B : B = chain[fam[a]] OBVIOUS
  <2>4. IsABag(B) /\ DOMAIN B \subseteq Rule BY <2>2, <2>3 DEF IsChain
  <2>5. IsABag(RulesOf(B)) /\ DOMAIN RulesOf(B) = {r \in DOMAIN B : Managed(r)}
    BY <2>4, RulesAreBag
  <2>6. todo' = [todo EXCEPT ![a] = RulesOf(B)] BY <2>1, <2>3
  <2>7. DOMAIN RulesOf(B) \subseteq {r \in Rule : Managed(r)} BY <2>4, <2>5
  <2>8. QED BY <1>1, <2>5, <2>6, <2>7
<1>4. ASSUME NEW a \in Actors, Delete(a) \/ DeleteFails(a) PROVE TodoOK'
  <2>1. PICK r \in DOMAIN todo[a] : todo' = [todo EXCEPT ![a] = Minus(todo[a], r)]
    BY <1>4 DEF Delete, DeleteFails
  <2>2. IsABag(todo[a]) /\ DOMAIN todo[a] \subseteq {e \in Rule : Managed(e)}
    BY DEF TypeInv, TodoOK
  <2>3. IsABag(Minus(todo[a], r)) /\ \A e \in DOMAIN Minus(todo[a], r) : e \in DOMAIN todo[a]
    BY <2>2, RemoveIsBag, MinusAt
  <2>4. QED BY <1>1, <2>1, <2>2, <2>3
<1>5. CASE Crash \/ Reboot
  BY <1>5, NothingIsBag DEF Crash, Reboot, TypeInv, TodoOK
<1>6. CASE \E a \in Actors : \/ ListFails(a) \/ Removed(a) \/ Insert(a)
                              \/ Truncate(a) \/ WriteText(a) \/ WriteFails(a)
  BY <1>2, <1>6 DEF ListFails, Removed, Insert, Truncate, WriteText, WriteFails
<1>7. CASE \/ Start \/ UNCHANGED vars
           \/ \E s \in Setters, v \in Values : SetTTL(s, v)
           \/ \E c \in Commands : TTLCommand(c)
  BY <1>2, <1>7 DEF Start, SetTTL, TTLCommand, Begin, vars
<1>8. QED BY <1>3, <1>4, <1>5, <1>6, <1>7 DEF Next, Apply

LEMMA FileStep == ASSUME TypeInv, [Next]_vars PROVE FileOK'
<1>1. CASE UNCHANGED file BY <1>1 DEF TypeInv, FileOK
<1>2. ASSUME NEW a \in Actors, Truncate(a) PROVE FileOK'
  <2>1. <<>> \in Seq(0 .. Newline) BY EmptySeq
  <2>2. QED BY <1>2, <2>1 DEF Truncate, FileOK
<1>3. ASSUME NEW a \in Actors, WriteText(a) PROVE FileOK'
  <2>1. file' = [file EXCEPT !.text = Overlay(file.text, Text(want[a]))]
    BY <1>3 DEF WriteText
  <2>2. Overlay(file.text, Text(want[a])) \in Seq(0 .. Newline)
    BY TextTyped, OverlayTyped DEF TypeInv, PlaceOK, FileOK
  <2>3. QED BY <2>1, <2>2 DEF TypeInv, FileOK
<1>4. CASE \E a \in Actors : \/ List(a) \/ ListFails(a) \/ Delete(a) \/ DeleteFails(a)
                              \/ Removed(a) \/ Insert(a) \/ WriteFails(a)
  BY <1>1, <1>4 DEF List, ListFails, Delete, DeleteFails, Removed, Insert, WriteFails
<1>5. CASE \/ Start \/ Crash \/ Reboot \/ UNCHANGED vars
           \/ \E s \in Setters, v \in Values : SetTTL(s, v)
           \/ \E c \in Commands : TTLCommand(c)
  BY <1>1, <1>5 DEF Start, Crash, Reboot, SetTTL, TTLCommand, Begin, vars
<1>6. QED BY <1>2, <1>3, <1>4, <1>5 DEF Next, Apply

\* The steps of an actor, by what they do to where the actors are.
LEMMA PlaceStep == ASSUME TypeInv, [Next]_vars PROVE PlaceOK' /\ up' \in BOOLEAN
<1> USE DEF TypeInv
<1>1. up \in BOOLEAN BY DEF CountsOK
<1>2. CASE UNCHANGED <<pc, want, save, fam, up>> BY <1>1, <1>2 DEF PlaceOK
<1>3. CASE Start
  <2>1. \/ Begin(Main, 0, TRUE, "truncate") /\ up' = up
        \/ Saved \notin {-1, 0} /\ Begin(Main, Saved, FALSE, "list") /\ up' = up
        \/ up' = TRUE /\ UNCHANGED <<pc, want, save, fam>>
    BY <1>3 DEF Start
  <2>2. Main \in Actors /\ 0 \in 0 .. 255 /\ (Saved \notin {-1, 0} => Saved \in 0 .. 255)
    BY SavedTyped DEF Actors
  <2>3. CASE Begin(Main, 0, TRUE, "truncate") /\ up' = up
    BY <1>1, <2>2, <2>3, BeginPlace
  <2>4. CASE Saved \notin {-1, 0} /\ Begin(Main, Saved, FALSE, "list") /\ up' = up
    BY <1>1, <2>2, <2>4, BeginPlace
  <2>5. CASE up' = TRUE /\ UNCHANGED <<pc, want, save, fam>> BY <2>5 DEF PlaceOK
  <2>6. QED BY <2>1, <2>3, <2>4, <2>5
<1>4. ASSUME NEW s \in Setters, NEW v \in Values, SetTTL(s, v)
      PROVE  PlaceOK' /\ up' \in BOOLEAN
  <2>1. Begin(s, v, TRUE, "list") /\ up' = up BY <1>4 DEF SetTTL
  <2>2. s \in Actors /\ v \in 0 .. 255 BY TTLAssumption DEF Actors
  <2>3. QED BY <1>1, <2>1, <2>2, BeginPlace
<1>5. ASSUME NEW c \in Commands, TTLCommand(c) PROVE PlaceOK' /\ up' \in BOOLEAN
  <2>1. /\ up' = up
        /\ \/ Begin(c, 0, TRUE, "list")
           \/ Saved >= 0 /\ Begin(c, Saved, FALSE, "list")
    BY <1>5 DEF TTLCommand
  <2>2. c \in Actors /\ 0 \in 0 .. 255 /\ (Saved >= 0 => Saved \in 0 .. 255)
    BY SavedTyped DEF Actors
  <2>3. QED BY <1>1, <2>1, <2>2, BeginPlace
<1>6. CASE Crash \/ Reboot
  BY <1>6 DEF Crash, Reboot, PlaceOK, Step
<1>7. ASSUME NEW a \in Actors, List(a) PROVE PlaceOK' /\ up' \in BOOLEAN
  BY <1>1, <1>7 DEF List, At, PlaceOK, Step
<1>8. ASSUME NEW a \in Actors, ListFails(a) \/ Removed(a) PROVE PlaceOK' /\ up' \in BOOLEAN
  <2>1. AfterRemoval(a) /\ UNCHANGED <<want, save>> BY <1>8 DEF ListFails, Removed
  <2>2. QED BY <1>1, <2>1, AfterRemovalPlace
<1>9. ASSUME NEW a \in Actors, Delete(a) \/ DeleteFails(a) PROVE PlaceOK' /\ up' \in BOOLEAN
  BY <1>2, <1>9 DEF Delete, DeleteFails
<1>10. ASSUME NEW a \in Actors, Insert(a) PROVE PlaceOK' /\ up' \in BOOLEAN
  <2>1. /\ UNCHANGED <<want, save>>
        /\ \/ fam' = [fam EXCEPT ![a] = 2] /\ UNCHANGED <<pc, up>>
           \/ At(a, "truncate") /\ UNCHANGED <<fam, up>>
           \/ Return(a) /\ UNCHANGED fam
    BY <1>10 DEF Insert
  <2>2. CASE fam' = [fam EXCEPT ![a] = 2] /\ UNCHANGED <<pc, up>>
    BY <1>1, <2>1, <2>2 DEF PlaceOK, Families
  <2>3. CASE At(a, "truncate") /\ UNCHANGED <<fam, up>>
    BY <1>1, <2>1, <2>3 DEF At, PlaceOK, Step
  <2>4. CASE Return(a) /\ UNCHANGED fam BY <1>1, <2>1, <2>4, ReturnPlace
  <2>5. QED BY <2>1, <2>2, <2>3, <2>4
<1>11. ASSUME NEW a \in Actors, Truncate(a) PROVE PlaceOK' /\ up' \in BOOLEAN
  BY <1>1, <1>11 DEF Truncate, At, PlaceOK, Step
<1>12. ASSUME NEW a \in Actors, WriteText(a) \/ WriteFails(a) PROVE PlaceOK' /\ up' \in BOOLEAN
  BY <1>1, <1>12, ReturnPlace DEF WriteText, WriteFails
<1>13. CASE UNCHANGED vars BY <1>2, <1>13 DEF vars
<1>14. QED
  BY <1>3, <1>4, <1>5, <1>6, <1>7, <1>8, <1>9, <1>10, <1>11, <1>12, <1>13 DEF Next, Apply

\* What is counted, and the histories.
LEMMA CountsStep == ASSUME TypeInv, [Next]_vars PROVE CountsOK'
<1> USE DEF TypeInv, CountsOK, bounds
<1>1. clean' \in [Actors -> BOOLEAN]
  <2>1. \/ \E a, ok : Alone(a, ok)
        \/ \E a : Fresh(a)
        \/ clean' = [a \in Actors |-> FALSE]
        \/ UNCHANGED clean
    BY DEF Next, Apply, Start, Begin, SetTTL, TTLCommand, List, ListFails, Delete, DeleteFails,
           Removed, Insert, Truncate, WriteText, WriteFails, Crash, Reboot, vars
  <2>2. QED BY <2>1, AloneTyped, FreshTyped
<1>2. torn' \in BOOLEAN
  <2>1. UNCHANGED torn \/ \E a \in Actors : torn' = (torn \/ Writing(a))
    BY DEF Next, Apply, Start, Begin, SetTTL, TTLCommand, List, ListFails, Delete, DeleteFails,
           Removed, Insert, Truncate, WriteText, WriteFails, Crash, Reboot, vars
  <2>2. QED BY <2>1
<1>3. /\ sets' = sets \/ (sets < MaxSets /\ sets' = sets + 1)
      /\ faults' = faults \/ (faults < MaxFaults /\ faults' = faults + 1)
      /\ crashes' = crashes \/ (crashes < MaxCrashes /\ crashes' = crashes + 1)
  BY DEF Next, Apply, Start, Begin, SetTTL, TTLCommand, List, ListFails, Delete, DeleteFails,
         Removed, Insert, Truncate, WriteText, WriteFails, Crash, Reboot, vars
<1>4. /\ sets' \in 0 .. MaxSets /\ faults' \in 0 .. MaxFaults /\ crashes' \in 0 .. MaxCrashes
  BY <1>3, TTLAssumption
<1>5. up' \in BOOLEAN BY PlaceStep
<1>6. QED BY <1>1, <1>2, <1>4, <1>5

LEMMA TypeStep == TypeInv /\ [Next]_vars => TypeInv'
  BY ChainStep, TodoStep, FileStep, PlaceStep, CountsStep DEF TypeInv

-----------------------------------------------------------------------------
(* The file. *)

Requested == (Values \union {0, Legacy}) \intersect 0 .. 255

\* FileIsRequested is inductive with this: one actor is between truncation and
\* write, who finds the file empty, and what an actor will write is requested.
FileInv ==
  ~ torn =>
    /\ \A a, b \in Actors : pc[a] = "write" /\ pc[b] = "write" => a = b
    /\ \A a \in Actors : pc[a] = "write" => file.text = <<>>
    /\ file.text = <<>> \/ \E v \in Requested : file.text = Text(v)
    /\ \A a \in Actors : pc[a] # "idle" => want[a] \in Requested

LEMMA ReadsRequested ==
  ASSUME FileInv, ~ torn
  PROVE  Saved \in Requested \union {-1}
<1>1. CASE file.exists
  <2>1. CASE file.text = <<>> BY <1>1, <2>1, TextAssumption DEF Saved
  <2>2. ASSUME NEW v \in Requested, file.text = Text(v) PROVE Saved = v
    BY <1>1, <2>2, TextAssumption DEF Saved, Requested
  <2>3. QED BY <2>1, <2>2 DEF FileInv
<1>2. CASE ~ file.exists BY <1>2, TTLAssumption DEF Saved, Requested
<1>3. QED BY <1>1, <1>2

LEMMA FileInvInit == Init => FileInv
<1> SUFFICES ASSUME Init PROVE FileInv OBVIOUS
<1>1. \A a \in Actors : pc[a] = "idle" BY DEF Init
<1>2. PICK v \in Values : file \in {[exists |-> TRUE, text |-> Text(v)], [exists |-> FALSE, text |-> <<>>]}
  BY DEF Init
<1>3. v \in Requested BY TTLAssumption DEF Requested
<1>4. file.text = <<>> \/ file.text = Text(v) BY <1>2
<1>5. QED BY <1>1, <1>3, <1>4 DEF FileInv

\* An actor goes on, or ends, and does not open the file.
LEMMA GoesOn ==
  ASSUME PlaceOK, FileInv, NEW a \in Actors, NEW x, At(a, x), x # "write",
         pc[a] # "idle", UNCHANGED <<file, want, torn>>
  PROVE  FileInv'
  BY DEF At, PlaceOK, FileInv

LEMMA BeginsRequested ==
  ASSUME PlaceOK, FileInv, NEW a \in Actors, NEW v, ~ torn => v \in Requested,
         NEW persist, NEW step, step # "write", Begin(a, v, persist, step)
  PROVE  FileInv'
  BY DEF Begin, At, PlaceOK, FileInv

LEMMA FileInvStep == ASSUME TypeInv, FileInv, [Next]_vars, ~ torn' PROVE FileInv'
<1> USE DEF TypeInv
<1>1. CASE UNCHANGED <<file, pc, want, torn>> BY <1>1 DEF FileInv
<1>2. 0 \in Requested BY DEF Requested
<1>3. CASE Start
  <2>1. \/ Begin(Main, 0, TRUE, "truncate")
        \/ Saved # -1 /\ Begin(Main, Saved, FALSE, "list")
        \/ UNCHANGED <<file, pc, want, torn>>
    BY <1>3 DEF Start
  <2>2. Main \in Actors BY DEF Actors
  <2>3. CASE Begin(Main, 0, TRUE, "truncate") BY <1>2, <2>2, <2>3, BeginsRequested
  <2>4. CASE Saved # -1 /\ Begin(Main, Saved, FALSE, "list")
    BY <2>2, <2>4, ReadsRequested, BeginsRequested
  <2>5. QED BY <1>1, <2>1, <2>3, <2>4
<1>4. ASSUME NEW s \in Setters, NEW v \in Values, SetTTL(s, v) PROVE FileInv'
  <2>1. s \in Actors /\ v \in Requested BY TTLAssumption DEF Actors, Requested
  <2>2. QED BY <1>4, <2>1, BeginsRequested DEF SetTTL
<1>5. ASSUME NEW c \in Commands, TTLCommand(c) PROVE FileInv'
  <2>1. c \in Actors /\ (Saved >= 0 => Saved # -1) BY DEF Actors
  <2>2. \/ Begin(c, 0, TRUE, "list")
        \/ Saved >= 0 /\ Begin(c, Saved, FALSE, "list")
    BY <1>5 DEF TTLCommand
  <2>3. CASE Begin(c, 0, TRUE, "list") BY <1>2, <2>1, <2>3, BeginsRequested
  <2>4. CASE Saved >= 0 /\ Begin(c, Saved, FALSE, "list")
    BY <2>1, <2>4, ReadsRequested, BeginsRequested
  <2>5. QED BY <2>2, <2>3, <2>4
<1>6. CASE Crash \/ Reboot
  BY <1>6 DEF Crash, Reboot, FileInv
<1>7. ASSUME NEW a \in Actors,
             \/ List(a) \/ ListFails(a) \/ Removed(a) \/ Insert(a) \/ WriteFails(a)
      PROVE  FileInv'
  <2>1. pc[a] # "idle" /\ UNCHANGED <<file, want, torn>>
    BY <1>7 DEF List, ListFails, Removed, Insert, WriteFails
  <2>2. \/ pc' = pc
        \/ \E x \in {"list", "delete", "insert", "truncate", "idle"} : At(a, x)
    BY <1>7 DEF List, ListFails, Removed, Insert, WriteFails, AfterRemoval, Return
  <2>3. QED BY <1>1, <2>1, <2>2, GoesOn
<1>8. ASSUME NEW a \in Actors, Delete(a) \/ DeleteFails(a) PROVE FileInv'
  BY <1>1, <1>8 DEF Delete, DeleteFails
<1>9. ASSUME NEW a \in Actors, Truncate(a) PROVE FileInv'
  <2>1. /\ pc[a] = "truncate" /\ pc' = [pc EXCEPT ![a] = "write"] /\ want' = want
        /\ file'.text = <<>> /\ torn' = (torn \/ Writing(a))
    BY <1>9 DEF Truncate, At
  <2>2. ~ torn /\ \A b \in Actors \ {a} : pc[b] # "write" BY <2>1 DEF Writing
  <2>3. QED BY <2>1, <2>2 DEF FileInv, PlaceOK
<1>10. ASSUME NEW a \in Actors, WriteText(a) PROVE FileInv'
  <2>1. /\ pc[a] = "write" /\ pc' = [pc EXCEPT ![a] = "idle"] /\ ~ torn
        /\ file' = [file EXCEPT !.text = Overlay(file.text, Text(want[a]))]
        /\ UNCHANGED <<want, torn>>
    BY <1>10 DEF WriteText, Return, At
  <2>2. /\ file.text = <<>> /\ want[a] \in Requested
        /\ \A b \in Actors \ {a} : pc[b] # "write"
    BY <2>1 DEF FileInv
  <2>3. Overlay(<<>>, Text(want[a])) = Text(want[a])
    BY <2>2, TextTyped, OverlayNothing DEF Requested
  <2>4. file'.text = Text(want[a]) BY <2>1, <2>2, <2>3 DEF FileOK
  <2>5. QED BY <2>1, <2>2, <2>4 DEF FileInv, PlaceOK
<1>11. CASE UNCHANGED vars BY <1>1, <1>11 DEF vars
<1>12. QED
  BY <1>3, <1>4, <1>5, <1>6, <1>7, <1>8, <1>9, <1>10, <1>11 DEF Next, Apply

-----------------------------------------------------------------------------
(* An undisturbed operation. *)

Emptied(f) == RulesOf(chain[f]) = EmptyBag
OnlyRule(f, v) == RulesOf(chain[f]) = SetToBag({v})

\* As far as the rules with all the marks go, both families are as for v.
RulesSettled(v) ==
  \A f \in Families : RulesOf(chain[f]) = IF v = 0 THEN EmptyBag ELSE SetToBag({v})

\* What an operation that nobody disturbs has done so far.
Progress(a) ==
  /\ pc[a] = "list" => (fam[a] = 2 => Emptied(1))
  /\ pc[a] = "delete" => todo[a] = RulesOf(chain[fam[a]]) /\ (fam[a] = 2 => Emptied(1))
  /\ pc[a] = "insert" => Emptied(2) /\ IF fam[a] = 1 THEN Emptied(1) ELSE OnlyRule(1, want[a])
  /\ pc[a] = "truncate" => save[a] /\ RulesSettled(want[a])
  /\ pc[a] = "write" => save[a] /\ RulesSettled(want[a]) /\ file = [exists |-> TRUE, text |-> <<>>]

InHand(a) == Progress(a) /\ (save[a] \/ Saved = want[a])

\* UndisturbedSetSettles follows from this.
SettleInv == \A a \in Setters \union Commands : clean[a] /\ pc[a] # "idle" => InHand(a)

LEMMA SettledIs ==
  ASSUME NEW v
  PROVE  /\ RulesSettled(v) <=> IF v = 0 THEN Emptied(1) /\ Emptied(2) ELSE OnlyRule(1, v) /\ OnlyRule(2, v)
         /\ RulesSettled(v)' <=> IF v = 0 THEN Emptied(1)' /\ Emptied(2)'
                           ELSE OnlyRule(1, v)' /\ OnlyRule(2, v)'
<1>1. Families = {1, 2} BY DEF Families
<1>2. QED BY <1>1 DEF RulesSettled, Emptied, OnlyRule

\* A chain without spared rules missing whose rules with all the marks are as
\* for v is as for v.
LEMMA ChainSettled ==
  ASSUME NEW B, IsChain(B), NEW v \in 0 .. 255,
         RulesOf(B) = IF v = 0 THEN EmptyBag ELSE SetToBag({v})
  PROVE  B = SetToBag(Spared \union (IF v = 0 THEN {} ELSE {v}))
<1>1. PICK N : N = IF v = 0 THEN {} ELSE {v} OBVIOUS
<1>2. IsABag(B) /\ B = [e \in DOMAIN B |-> B[e]] BY DEF IsChain, IsABag
<1>3. DOMAIN RulesOf(B) = N /\ \A e \in N : RulesOf(B)[e] = 1
  <2>1. CASE v = 0 BY <1>1, <2>1, NothingIsBag
  <2>2. CASE v # 0 BY <1>1, <2>2 DEF SetToBag
  <2>3. QED BY <2>1, <2>2
<1>4. {e \in DOMAIN B : Managed(e)} = N /\ \A e \in N : B[e] = 1
  BY <1>2, <1>3, RulesAreBag
<1>5. ASSUME NEW e \in DOMAIN B, ~ Managed(e) PROVE e \in Spared
  <2>1. e \in Rule BY DEF IsChain
  <2>2. e \notin 1 .. 255 BY <1>5, OwnIsManaged
  <2>3. e \in Others BY <2>1, <2>2 DEF Rule
  <2>4. QED BY <1>5, <2>3, SparedIsNotManaged
<1>6. \A o \in Spared : o \in DOMAIN B /\ B[o] = 1 BY DEF IsChain
<1>7. DOMAIN B = Spared \union N BY <1>4, <1>5, <1>6
<1>8. \A e \in DOMAIN B : B[e] = 1 BY <1>4, <1>6, <1>7
<1>9. B = [e \in Spared \union N |-> 1] BY <1>2, <1>7, <1>8
<1>10. QED BY <1>1, <1>9 DEF SetToBag

LEMMA RulesSettledNext ==
  ASSUME ChainOK', NEW v \in 0 .. 255, RulesSettled(v)'
  PROVE  Settled(v)'
<1>1. ASSUME NEW f \in Families
      PROVE  chain'[f] = SetToBag(Spared \union (IF v = 0 THEN {} ELSE {v}))
  <2>1. IsChain(chain'[f]) BY DEF ChainOK, IsChain
  <2>2. RulesOf(chain'[f]) = IF v = 0 THEN EmptyBag ELSE SetToBag({v}) BY DEF RulesSettled, RulesOf
  <2>3. QED BY <2>1, <2>2, ChainSettled
<1>2. QED BY <1>1 DEF Settled

\* An actor that has not been disturbed is the one who moves.
LEMMA WhoMoves ==
  ASSUME [Next]_vars, NEW a \in Setters \union Commands, clean'[a], ~ UNCHANGED vars
  PROVE  \/ a \in Setters /\ \E v \in Values : SetTTL(a, v)
         \/ a \in Commands /\ TTLCommand(a)
         \/ clean[a] /\ (List(a) \/ Delete(a) \/ Removed(a) \/ Insert(a) \/ Truncate(a) \/ WriteText(a))
<1>1. a \in Actors /\ a # Main BY TTLAssumption DEF Actors
<1>2. ~ Crash /\ ~ Reboot BY <1>1 DEF Crash, Reboot
<1>3. ~ Start
  <2>1. Start => Fresh(Main) BY DEF Start, Begin
  <2>2. QED BY <1>1, <2>1, FreshTyped
<1>4. ASSUME NEW s \in Setters, NEW v \in Values, SetTTL(s, v) PROVE a = s
  BY <1>1, <1>4, FreshTyped DEF SetTTL, Begin
<1>5. ASSUME NEW c \in Commands, TTLCommand(c) PROVE a = c
  BY <1>1, <1>5, FreshTyped DEF TTLCommand, Begin
<1>6. ASSUME NEW b \in Actors, Apply(b)
      PROVE  /\ a = b /\ clean[a]
             /\ List(a) \/ Delete(a) \/ Removed(a) \/ Insert(a) \/ Truncate(a) \/ WriteText(a)
  <2>1. ~ ListFails(b) /\ ~ DeleteFails(b) /\ ~ WriteFails(b)
    BY <1>1, AloneTyped DEF ListFails, DeleteFails, WriteFails
  <2>2. \E ok : Alone(b, ok)
    BY <1>6, <2>1 DEF Apply, List, Delete, Removed, Insert, Truncate, WriteText
  <2>3. a = b /\ clean[a] BY <1>1, <2>2, AloneTyped
  <2>4. QED BY <1>6, <2>1, <2>3 DEF Apply
<1>7. QED BY <1>2, <1>3, <1>4, <1>5, <1>6 DEF Next

LEMMA BeginsInHand ==
  ASSUME TypeInv, NEW a \in Actors, NEW v, NEW persist \in BOOLEAN, Begin(a, v, persist, "list"),
         persist \/ v = Saved
  PROVE  InHand(a)' /\ pc'[a] # "idle"
<1>1. /\ pc'[a] = "list" /\ fam'[a] = 1 /\ want'[a] = v /\ save'[a] = persist /\ file' = file
  BY DEF Begin, At, TypeInv, PlaceOK
<1>2. Saved' = Saved BY <1>1 DEF Saved
<1>3. QED BY <1>1, <1>2 DEF InHand, Progress

Done(a) == RulesSettled(want[a]) /\ Saved = want[a]

LEMMA ListInHand ==
  ASSUME TypeInv, NEW a \in Actors, InHand(a), List(a)
  PROVE  InHand(a)' /\ pc'[a] # "idle"
<1>1. /\ pc[a] = "list" /\ pc'[a] = "delete" /\ todo'[a] = RulesOf(chain[fam[a]])
      /\ UNCHANGED <<chain, file, want, save, fam>>
  BY DEF List, At, TypeInv, PlaceOK, TodoOK, Rules, RulesOf
<1>2. Saved' = Saved BY <1>1 DEF Saved
<1>3. QED BY <1>1, <1>2 DEF InHand, Progress, Emptied

LEMMA DeleteInHand ==
  ASSUME TypeInv, NEW a \in Actors, InHand(a), Delete(a)
  PROVE  InHand(a)' /\ pc'[a] # "idle"
<1>1. /\ pc[a] = "delete" /\ UNCHANGED <<pc, file, want, save, fam>>
      /\ \E r \in DOMAIN todo[a] : /\ chain' = [chain EXCEPT ![fam[a]] = Minus(chain[fam[a]], r)]
                                 /\ todo' = [todo EXCEPT ![a] = Minus(todo[a], r)]
  BY DEF Delete
<1>2. PICK r \in DOMAIN todo[a] : /\ chain' = [chain EXCEPT ![fam[a]] = Minus(chain[fam[a]], r)]
                                /\ todo' = [todo EXCEPT ![a] = Minus(todo[a], r)]
  BY <1>1
<1>3. /\ fam[a] \in Families /\ Managed(r) /\ IsABag(chain[fam[a]])
      /\ DOMAIN chain = Families /\ DOMAIN todo = Actors
  BY TTLAssumption DEF TypeInv, PlaceOK, TodoOK, ChainOK, IsChain
<1>4. chain'[fam[a]] = Minus(chain[fam[a]], r) /\ todo'[a] = Minus(todo[a], r)
  BY <1>2, <1>3
<1>5. RulesOf(chain'[fam[a]]) = Minus(RulesOf(chain[fam[a]]), r)
  BY <1>3, <1>4, RulesOfRemove
<1>6. fam[a] = 2 => chain'[1] = chain[1] BY <1>2, <1>3 DEF Families
<1>7. Saved' = Saved BY <1>1 DEF Saved
<1>8. QED BY <1>1, <1>4, <1>5, <1>6, <1>7 DEF InHand, Progress, Emptied

LEMMA RemovedInHand ==
  ASSUME TypeInv, NEW a \in Actors, InHand(a), Removed(a)
  PROVE  IF pc'[a] = "idle" THEN Done(a)' ELSE InHand(a)'
<1>1. /\ pc[a] = "delete" /\ todo[a] = EmptyBag /\ AfterRemoval(a)
      /\ UNCHANGED <<chain, file, want, save>>
  BY DEF Removed
<1>2. /\ fam[a] \in {1, 2} /\ want[a] \in 0 .. 255 /\ a \in DOMAIN pc /\ a \in DOMAIN fam
  BY DEF TypeInv, PlaceOK, Families
<1>3. Emptied(fam[a]) /\ (fam[a] = 2 => Emptied(1)) BY <1>1 DEF InHand, Progress, Emptied
<1>4. Saved' = Saved /\ (Emptied(1) => Emptied(1)') /\ (Emptied(2) => Emptied(2)')
  BY <1>1 DEF Saved, Emptied
<1>5. CASE fam[a] = 1
  <2>1. pc'[a] = "list" BY <1>1, <1>2, <1>5 DEF AfterRemoval, At
  <2>2. QED BY <1>1, <1>3, <1>4, <1>5, <2>1 DEF InHand, Progress
<1>6. CASE fam[a] = 2 /\ want[a] > 0
  <2>1. pc'[a] = "insert" /\ fam'[a] = 1 BY <1>1, <1>2, <1>6 DEF AfterRemoval, At
  <2>2. QED BY <1>1, <1>3, <1>4, <1>6, <2>1 DEF InHand, Progress
<1>7. CASE fam[a] = 2 /\ want[a] = 0
  <2>1. IF save[a] THEN At(a, "truncate") ELSE Return(a) BY <1>1, <1>7 DEF AfterRemoval
  <2>2. pc'[a] = IF save[a] THEN "truncate" ELSE "idle" BY <1>2, <2>1 DEF At, Return
  <2>3. Emptied(1)' /\ Emptied(2)' BY <1>3, <1>4, <1>7
  <2>4. RulesSettled(0)' BY <2>3, SettledIs
  <2>5. want'[a] = 0 /\ save'[a] = save[a] BY <1>1, <1>7
  <2>6. RulesSettled(want[a])' BY <2>4, <2>5 DEF RulesSettled
  <2>7. QED BY <1>1, <1>4, <1>7, <2>2, <2>5, <2>6 DEF InHand, Progress, Done
<1>8. QED BY <1>2, <1>5, <1>6, <1>7

LEMMA InsertInHand ==
  ASSUME TypeInv, NEW a \in Actors, InHand(a), Insert(a), clean'[a]
  PROVE  IF pc'[a] = "idle" THEN Done(a)' ELSE InHand(a)'
<1>0. PICK f \in {1, 2}, v \in 0 .. 255 : f = fam[a] /\ v = want[a]
  BY DEF TypeInv, PlaceOK, Families
<1>1. /\ pc[a] = "insert" /\ chain' = [chain EXCEPT ![f] = Plus(chain[f], v)]
      /\ UNCHANGED <<file, want, save>>
  BY <1>0, AloneTyped DEF Insert
<1>2. /\ v > 0 /\ a \in DOMAIN pc /\ a \in DOMAIN fam
      /\ Managed(v) /\ IsABag(chain[f]) /\ DOMAIN chain = {1, 2}
  BY <1>0, <1>1, OwnIsManaged DEF TypeInv, PlaceOK, Families, ChainOK, IsChain
<1>3. Emptied(2) /\ IF f = 1 THEN Emptied(1) ELSE OnlyRule(1, v)
  BY <1>0, <1>1 DEF InHand, Progress
<1>4. chain'[f] = Plus(chain[f], v) /\ Emptied(f) BY <1>1, <1>2, <1>3
<1>5. RulesOf(chain'[f]) = SetToBag({v}) BY <1>2, <1>4, RulesOfAdd DEF Emptied
<1>6. Saved' = Saved BY <1>1 DEF Saved
<1>7. CASE f = 1
  <2>1. fam'[a] = 2 /\ pc'[a] = "insert" BY <1>0, <1>1, <1>2, <1>7 DEF Insert
  <2>2. chain'[2] = chain[2] BY <1>1, <1>2, <1>7
  <2>3. Emptied(2)' /\ OnlyRule(1, v)' BY <1>3, <1>5, <1>7, <2>2 DEF Emptied, OnlyRule
  <2>4. QED BY <1>0, <1>1, <1>6, <2>1, <2>3 DEF InHand, Progress, OnlyRule
<1>8. CASE f = 2
  <2>1. IF save[a] THEN At(a, "truncate") ELSE Return(a) BY <1>0, <1>2, <1>8 DEF Insert
  <2>2. pc'[a] = IF save[a] THEN "truncate" ELSE "idle" BY <1>2, <2>1 DEF At, Return
  <2>3. chain'[1] = chain[1] BY <1>1, <1>2, <1>8
  <2>4. OnlyRule(1, v)' /\ OnlyRule(2, v)' BY <1>3, <1>5, <1>8, <2>3 DEF OnlyRule
  <2>5. RulesSettled(v)' BY <1>2, <2>4, SettledIs
  <2>6. RulesSettled(want[a])' BY <1>0, <1>1, <2>5 DEF RulesSettled
  <2>7. QED BY <1>0, <1>1, <1>6, <2>2, <2>6 DEF InHand, Progress, Done
<1>9. QED BY <1>2, <1>7, <1>8

LEMMA TruncateInHand ==
  ASSUME TypeInv, NEW a \in Actors, InHand(a), Truncate(a)
  PROVE  InHand(a)' /\ pc'[a] # "idle"
<1>1. /\ pc[a] = "truncate" /\ pc'[a] = "write" /\ file' = [exists |-> TRUE, text |-> <<>>]
      /\ UNCHANGED <<chain, want, save>>
  BY DEF Truncate, At, TypeInv, PlaceOK
<1>2. save[a] /\ RulesSettled(want[a]) BY <1>1 DEF InHand, Progress
<1>3. RulesSettled(want[a])' BY <1>1, <1>2 DEF RulesSettled
<1>4. QED BY <1>1, <1>2, <1>3 DEF InHand, Progress

LEMMA WriteInHand ==
  ASSUME TypeInv, NEW a \in Actors, InHand(a), WriteText(a)
  PROVE  pc'[a] = "idle" /\ Done(a)'
<1>1. /\ pc[a] = "write" /\ pc'[a] = "idle" /\ UNCHANGED <<chain, want>>
      /\ file' = [file EXCEPT !.text = Overlay(file.text, Text(want[a]))]
  BY DEF WriteText, Return, At, TypeInv, PlaceOK
<1>2. RulesSettled(want[a]) /\ file = [exists |-> TRUE, text |-> <<>>] BY <1>1 DEF InHand, Progress
<1>3. want[a] \in 0 .. 255 BY DEF TypeInv, PlaceOK
<1>4. Overlay(<<>>, Text(want[a])) = Text(want[a]) BY <1>3, TextTyped, OverlayNothing
<1>5. file'.exists /\ file'.text = Text(want[a]) BY <1>1, <1>2, <1>4
<1>6. Saved' = want[a] BY <1>3, <1>5, TextAssumption DEF Saved
<1>7. RulesSettled(want[a])' BY <1>1, <1>2 DEF RulesSettled
<1>8. QED BY <1>1, <1>6, <1>7 DEF Done

\* The steps of an undisturbed operation.
LEMMA Undisturbed ==
  ASSUME TypeInv, SettleInv, [Next]_vars, ~ UNCHANGED vars,
         NEW a \in Setters \union Commands, clean'[a]
  PROVE  IF pc'[a] = "idle" THEN pc[a] # "idle" /\ Done(a)' ELSE InHand(a)'
<1>1. a \in Actors BY DEF Actors
<1>2. CASE a \in Setters /\ \E v \in Values : SetTTL(a, v)
  <2>1. PICK v \in Values : Begin(a, v, TRUE, "list") BY <1>2 DEF SetTTL
  <2>2. QED BY <1>1, <2>1, BeginsInHand
<1>3. CASE a \in Commands /\ TTLCommand(a)
  <2>1. Begin(a, 0, TRUE, "list") \/ Begin(a, Saved, FALSE, "list") BY <1>3 DEF TTLCommand
  <2>2. QED BY <1>1, <2>1, BeginsInHand
<1>4. ASSUME clean[a], List(a) \/ Delete(a) \/ Removed(a) \/ Insert(a) \/ Truncate(a) \/ WriteText(a)
      PROVE  IF pc'[a] = "idle" THEN pc[a] # "idle" /\ Done(a)' ELSE InHand(a)'
  <2>1. pc[a] # "idle" BY <1>4 DEF List, Delete, Removed, Insert, Truncate, WriteText
  <2>2. InHand(a) BY <1>4, <2>1 DEF SettleInv
  <2>3. QED
    BY <1>1, <1>4, <2>1, <2>2, ListInHand, DeleteInHand, RemovedInHand, InsertInHand,
       TruncateInHand, WriteInHand
<1>5. QED BY <1>2, <1>3, <1>4, WhoMoves

LEMMA SettleStep == ASSUME TypeInv, SettleInv, [Next]_vars PROVE SettleInv'
<1>1. CASE UNCHANGED vars
  BY <1>1 DEF vars, SettleInv, InHand, Progress, Saved, RulesSettled, Emptied, OnlyRule
<1>2. CASE ~ UNCHANGED vars BY <1>2, Undisturbed DEF SettleInv
<1>3. QED BY <1>1, <1>2

-----------------------------------------------------------------------------
(* No piling up: while no command fails every managed rule of a family is    *)
(* some actor's, who has one rule at most and none from the removal of the   *)
(* family's rules to the insertion of its own.                               *)

\* An actor that may have a rule in family f.
MayOwn(a, f) ==
  /\ ~ (pc[a] \in {"list", "delete"} /\ fam[a] = 2 /\ f = 1)
  /\ pc[a] = "insert" => fam[a] = 2 /\ f = 1

Amount(v, B) == IF v \in DOMAIN B THEN B[v] ELSE 0

OwnersOf(own, v) == {a \in Actors : own[a] = v}

\* An actor that deletes the rules it has listed has its own still to delete.
Claims(a, f, v) ==
  /\ MayOwn(a, f)
  /\ pc[a] = "delete" /\ fam[a] = f => v \in DOMAIN todo[a]

\* (0: no rule.)
Owns(f, own) ==
  /\ \A v \in 1 .. 255 : Amount(v, chain[f]) = Cardinality(OwnersOf(own, v))
  /\ \A a \in Actors : own[a] # 0 => Claims(a, f, own[a])

Owned(f) == \E own \in [Actors -> 0 .. 255] : Owns(f, own)

OwnersInv == faults = 0 => \A f \in Families : Owned(f)

LEMMA ActorsFinite == IsFiniteSet(Actors)
<1>1. IsFiniteSet({Main}) BY FS_Singleton
<1>2. IsFiniteSet(Setters \union Commands) BY TTLAssumption, FS_Union
<1>3. QED BY <1>1, <1>2, FS_Union DEF Actors

LEMMA OwnersFinite ==
  ASSUME NEW own, NEW v
  PROVE  IsFiniteSet(OwnersOf(own, v)) /\ Cardinality(OwnersOf(own, v)) \in Nat
<1>1. OwnersOf(own, v) \subseteq Actors BY DEF OwnersOf
<1>2. IsFiniteSet(OwnersOf(own, v)) BY <1>1, ActorsFinite, FS_Subset
<1>3. QED BY <1>2, FS_CardinalityType

LEMMA CopiesRemoved ==
  ASSUME NEW B, IsABag(B), NEW r, NEW v
  PROVE  /\ Amount(v, B) \in Nat
         /\ Amount(v, B) = 0 <=> v \notin DOMAIN B
         /\ Amount(v, Minus(B, r)) = IF v = r /\ r \in DOMAIN B THEN Amount(v, B) - 1
                                                                       ELSE Amount(v, B)
<1>1. \A e \in DOMAIN B : B[e] \in Nat /\ B[e] > 0 BY DEF IsABag
<1>2. Amount(v, B) \in Nat /\ (Amount(v, B) = 0 <=> v \notin DOMAIN B) BY <1>1 DEF Amount
<1>3. Amount(v, Minus(B, r)) = IF v = r /\ r \in DOMAIN B THEN Amount(v, B) - 1 ELSE Amount(v, B)
  BY <1>1, MinusAt DEF Amount
<1>4. QED BY <1>2, <1>3

LEMMA CopiesAdded ==
  ASSUME NEW B, IsABag(B), NEW r, NEW v
  PROVE  Amount(v, Plus(B, r)) = IF v = r THEN Amount(v, B) + 1 ELSE Amount(v, B)
<1>1. \A e \in DOMAIN B : B[e] \in Nat /\ B[e] > 0 BY DEF IsABag
<1>2. QED BY <1>1, PlusAt DEF Amount

\* What an actor that gives up its rule, and one that gets one, make of the
\* numbers of owners.
LEMMA OwnerLost ==
  ASSUME NEW own, NEW own2, NEW b \in Actors, own[b] # 0, own2[b] = 0,
         \A x \in Actors \ {b} : own2[x] = own[x], NEW v \in 1 .. 255
  PROVE  /\ v = own[b] => Cardinality(OwnersOf(own2, v)) = Cardinality(OwnersOf(own, v)) - 1
         /\ v # own[b] => Cardinality(OwnersOf(own2, v)) = Cardinality(OwnersOf(own, v))
<1>1. CASE v = own[b]
  <2>1. OwnersOf(own2, v) = OwnersOf(own, v) \ {b} BY <1>1 DEF OwnersOf
  <2>2. b \in OwnersOf(own, v) BY <1>1 DEF OwnersOf
  <2>3. QED BY <1>1, <2>1, <2>2, OwnersFinite, FS_RemoveElement
<1>2. CASE v # own[b]
  <2>1. OwnersOf(own2, v) = OwnersOf(own, v) BY <1>2 DEF OwnersOf
  <2>2. QED BY <1>2, <2>1
<1>3. QED BY <1>1, <1>2

LEMMA OwnerWon ==
  ASSUME NEW own, NEW own2, NEW b \in Actors, own[b] = 0, own2[b] # 0,
         \A x \in Actors \ {b} : own2[x] = own[x], NEW v \in 1 .. 255
  PROVE  /\ v = own2[b] => Cardinality(OwnersOf(own2, v)) = Cardinality(OwnersOf(own, v)) + 1
         /\ v # own2[b] => Cardinality(OwnersOf(own2, v)) = Cardinality(OwnersOf(own, v))
<1>1. CASE v = own2[b]
  <2>1. OwnersOf(own2, v) = OwnersOf(own, v) \union {b} BY <1>1 DEF OwnersOf
  <2>2. b \notin OwnersOf(own, v) BY DEF OwnersOf
  <2>3. IsFiniteSet(OwnersOf(own, v)) BY OwnersFinite
  <2>4. Cardinality(OwnersOf(own, v) \union {b}) = Cardinality(OwnersOf(own, v)) + 1
    BY <2>2, <2>3, FS_AddElement
  <2>5. QED BY <1>1, <2>1, <2>4
<1>2. CASE v # own2[b]
  <2>1. OwnersOf(own2, v) = OwnersOf(own, v) BY <1>2 DEF OwnersOf
  <2>2. QED BY <1>2, <2>1
<1>3. QED BY <1>1, <1>2

\* A chain with no rules but those of others is nobody's.
LEMMA NoOwners ==
  ASSUME chain[1] = SetToBag(Others) /\ chain[2] = SetToBag(Others), NEW f \in Families
  PROVE  Owned(f)
<1>1. PICK own : own = [a \in Actors |-> 0] OBVIOUS
<1>2. ASSUME NEW v \in 1 .. 255 PROVE Amount(v, chain[f]) = Cardinality(OwnersOf(own, v))
  <2>1. v \notin Others BY OwnIsManaged
  <2>2. DOMAIN chain[f] = Others BY DEF Families, SetToBag
  <2>3. Amount(v, chain[f]) = 0 BY <2>1, <2>2 DEF Amount
  <2>4. OwnersOf(own, v) = {} BY <1>1 DEF OwnersOf
  <2>5. QED BY <2>3, <2>4, FS_EmptySet
<1>3. own \in [Actors -> 0 .. 255] /\ \A a \in Actors : own[a] = 0 BY <1>1
<1>4. Owns(f, own) BY <1>2, <1>3 DEF Owns
<1>5. QED BY <1>3, <1>4 DEF Owned

LEMMA NoOwnersNext ==
  ASSUME chain'[1] = SetToBag(Others) /\ chain'[2] = SetToBag(Others), NEW f \in Families
  PROVE  Owned(f)'
<1>1. PICK own : own = [a \in Actors |-> 0] OBVIOUS
<1>2. ASSUME NEW v \in 1 .. 255 PROVE Amount(v, chain'[f]) = Cardinality(OwnersOf(own, v))
  <2>1. v \notin Others BY OwnIsManaged
  <2>2. DOMAIN chain'[f] = Others BY DEF Families, SetToBag
  <2>3. Amount(v, chain'[f]) = 0 BY <2>1, <2>2 DEF Amount
  <2>4. OwnersOf(own, v) = {} BY <1>1 DEF OwnersOf
  <2>5. QED BY <2>3, <2>4, FS_EmptySet
<1>3. own \in [Actors -> 0 .. 255] /\ \A a \in Actors : own[a] = 0 BY <1>1
<1>4. Owns(f, own)' BY <1>2, <1>3 DEF Owns, Amount, OwnersOf
<1>5. QED BY <1>3, <1>4 DEF Owned

LEMMA OwnersInit == Init => OwnersInv
  BY NoOwners DEF Init, OwnersInv, Families

\* A family's rules stay, and so may who had them.
LEMMA OwnersStay ==
  ASSUME TypeInv, NEW f \in Families, Owned(f), chain'[f] = chain[f],
         \A a \in Actors : \A v \in DOMAIN RulesOf(chain[f]) : Claims(a, f, v) => Claims(a, f, v)'
  PROVE  Owned(f)'
<1>1. PICK own \in [Actors -> 0 .. 255] : Owns(f, own) BY DEF Owned
<1>2. ASSUME NEW a \in Actors, own[a] # 0 PROVE Claims(a, f, own[a])'
  <2>1. IsABag(chain[f]) BY DEF TypeInv, ChainOK, IsChain
  <2>2. own[a] \in 1 .. 255 /\ Managed(own[a]) BY <1>2, OwnIsManaged
  <2>3. a \in OwnersOf(own, own[a]) BY DEF OwnersOf
  <2>4. Amount(own[a], chain[f]) # 0
    BY <1>1, <2>2, <2>3, OwnersFinite, FS_EmptySet DEF Owns
  <2>5. own[a] \in DOMAIN chain[f] BY <2>4 DEF Amount
  <2>6. own[a] \in DOMAIN RulesOf(chain[f]) BY <2>1, <2>2, <2>5, RulesAreBag
  <2>7. QED BY <1>1, <1>2, <2>6 DEF Owns
<1>3. \A v \in 1 .. 255 : Amount(v, chain'[f]) = Cardinality(OwnersOf(own, v))
  BY <1>1 DEF Owns
<1>4. Owns(f, own)' BY <1>2, <1>3 DEF Owns, Amount, OwnersOf
<1>5. QED BY <1>4 DEF Owned

\* Of the rule that is deleted an owner is found, the one that deletes it if it
\* has one like it.
LEMMA OwnersDelete ==
  ASSUME TypeInv, NEW a \in Actors, Owned(fam[a]), Delete(a)
  PROVE  Owned(fam[a])'
<1>1. PICK f \in Families : f = fam[a] BY DEF TypeInv, PlaceOK
<1>2. PICK own \in [Actors -> 0 .. 255] : Owns(f, own) BY <1>1 DEF Owned
<1>3. PICK r \in DOMAIN todo[a] :
        /\ chain' = [chain EXCEPT ![f] = Minus(chain[f], r)]
        /\ todo' = [todo EXCEPT ![a] = Minus(todo[a], r)]
  BY <1>1 DEF Delete
<1>4. IsABag(todo[a]) /\ IsABag(chain[f]) BY DEF TypeInv, TodoOK, ChainOK, IsChain
<1>5. chain'[f] = Minus(chain[f], r) /\ todo'[a] = Minus(todo[a], r)
  BY <1>3 DEF TypeInv, ChainOK, TodoOK
<1>6. UNCHANGED <<pc, fam>> /\ \A x \in Actors \ {a} : todo'[x] = todo[x]
  BY <1>3 DEF Delete, TypeInv, TodoOK
<1>7. ASSUME NEW x \in Actors, own[x] # 0, ~ (x = a /\ own[a] = r) PROVE Claims(x, f, own[x])'
  <2>1. Claims(x, f, own[x]) BY <1>2, <1>7 DEF Owns
  <2>2. CASE x # a BY <1>6, <2>1, <2>2 DEF Claims, MayOwn
  <2>3. CASE x = a
    <3>1. own[a] \in DOMAIN todo[a] => own[a] \in DOMAIN todo'[a]
      BY <1>4, <1>5, <1>7, <2>3, MinusAt
    <3>2. QED BY <1>6, <2>1, <2>3, <3>1 DEF Claims, MayOwn
  <2>4. QED BY <2>2, <2>3
<1>8. CASE r \notin 1 .. 255
  <2>1. \A v \in 1 .. 255 : Amount(v, chain'[f]) = Amount(v, chain[f])
    BY <1>4, <1>5, <1>8, CopiesRemoved
  <2>2. \A x \in Actors : own[x] # 0 => own[x] # r BY <1>8
  <2>3. \A x \in Actors : own[x] # 0 => Claims(x, f, own[x])' BY <1>7, <2>2
  <2>4. Owns(f, own)' BY <1>2, <2>1, <2>3 DEF Owns, Amount, OwnersOf
  <2>5. QED BY <1>1, <1>6, <2>4 DEF Owned
<1>9. CASE r \in 1 .. 255 /\ OwnersOf(own, r) = {}
  <2>1. Amount(r, chain[f]) = 0 BY <1>2, <1>4, <1>9, FS_EmptySet DEF Owns
  <2>2. r \notin DOMAIN chain[f] BY <1>4, <2>1, CopiesRemoved
  <2>3. \A v \in 1 .. 255 : Amount(v, chain'[f]) = Amount(v, chain[f])
    BY <1>4, <1>5, <2>2, CopiesRemoved
  <2>4. \A x \in Actors : own[x] # 0 => Claims(x, f, own[x])' BY <1>7, <1>9 DEF OwnersOf
  <2>5. Owns(f, own)' BY <1>2, <2>3, <2>4 DEF Owns, Amount, OwnersOf
  <2>6. QED BY <1>1, <1>6, <2>5 DEF Owned
<1>10. CASE r \in 1 .. 255 /\ OwnersOf(own, r) # {}
  <2>1. PICK b \in Actors : own[b] = r /\ (own[a] = r => b = a)
    BY <1>10 DEF OwnersOf
  <2>2. PICK own2 : own2 = [own EXCEPT ![b] = 0] OBVIOUS
  <2>3. r \in DOMAIN chain[f]
    <3>1. Amount(r, chain[f]) # 0 BY <1>2, <1>4, <1>10, OwnersFinite, FS_EmptySet DEF Owns
    <3>2. QED BY <3>1 DEF Amount
  <2>4. ASSUME NEW v \in 1 .. 255 PROVE Amount(v, chain'[f]) = Cardinality(OwnersOf(own2, v))
    <3>1. Amount(v, chain'[f]) = IF v = r THEN Amount(v, chain[f]) - 1 ELSE Amount(v, chain[f])
      BY <1>4, <1>5, <2>3, CopiesRemoved
    <3>2. /\ own[b] # 0 /\ own[b] = r /\ own2[b] = 0
          /\ \A x \in Actors \ {b} : own2[x] = own[x]
      BY <1>10, <2>1, <2>2
    <3>3. /\ v = own[b] => Cardinality(OwnersOf(own2, v)) = Cardinality(OwnersOf(own, v)) - 1
          /\ v # own[b] => Cardinality(OwnersOf(own2, v)) = Cardinality(OwnersOf(own, v))
      BY <3>2, OwnerLost, SMTT(30)
    <3>4. QED BY <1>2, <3>1, <3>2, <3>3 DEF Owns
  <2>5. ASSUME NEW x \in Actors, own2[x] # 0 PROVE Claims(x, f, own2[x])'
    <3>1. x # b /\ own2[x] = own[x] BY <2>2, <2>5
    <3>2. QED BY <1>7, <2>1, <2>5, <3>1
  <2>6. own2 \in [Actors -> 0 .. 255] BY <2>2
  <2>7. Owns(f, own2)' BY <2>4, <2>5 DEF Owns, Amount, OwnersOf
  <2>8. QED BY <1>1, <1>6, <2>6, <2>7 DEF Owned
<1>11. QED BY <1>8, <1>9, <1>10


\* The rule that is inserted is its actor's, who had none.
\* The rule that is inserted is its actor's, who had none.
LEMMA OwnersInsert ==
  ASSUME TypeInv, NEW a \in Actors, Owned(fam[a]), Insert(a),
         chain' = [chain EXCEPT ![fam[a]] = Plus(chain[fam[a]], want[a])]
  PROVE  \E f \in Families : f = fam[a] /\ Owned(f)'
<1>1. PICK f \in Families : f = fam[a] BY DEF TypeInv, PlaceOK
<1>2. PICK own \in [Actors -> 0 .. 255] : Owns(f, own) BY <1>1 DEF Owned
<1>3. PICK w \in 1 .. 255 : w = want[a] BY DEF Insert, TypeInv, PlaceOK
<1>4. chain'[f] = Plus(chain[f], w) /\ IsABag(chain[f])
  BY <1>1, <1>3 DEF TypeInv, ChainOK, IsChain
<1>5. pc[a] = "insert" /\ UNCHANGED todo BY DEF Insert
<1>6. own[a] = 0 BY <1>1, <1>2, <1>5 DEF Owns, Claims, MayOwn, Families
<1>7. PICK own2 : own2 = [own EXCEPT ![a] = w] OBVIOUS
<1>8. ASSUME NEW v \in 1 .. 255 PROVE Amount(v, chain'[f]) = Cardinality(OwnersOf(own2, v))
  <2>1. Amount(v, chain'[f]) = IF v = w THEN Amount(v, chain[f]) + 1 ELSE Amount(v, chain[f])
    BY <1>4, CopiesAdded
  <2>2. /\ v = w => Cardinality(OwnersOf(own2, v)) = Cardinality(OwnersOf(own, v)) + 1
        /\ v # w => Cardinality(OwnersOf(own2, v)) = Cardinality(OwnersOf(own, v))
    <3>1. own2[a] = w /\ own2[a] # 0 /\ \A x \in Actors \ {a} : own2[x] = own[x] BY <1>7
    <3>2. QED BY <1>6, <3>1, OwnerWon
  <2>3. QED BY <1>2, <2>1, <2>2 DEF Owns
<1>9. /\ \A x \in Actors \ {a} : pc'[x] = pc[x] /\ fam'[x] = fam[x]
      /\ \/ pc'[a] \in {"truncate", "idle"}
         \/ f = 1 /\ fam'[a] = 2 /\ pc'[a] = "insert"
  BY <1>1 DEF Insert, Return, At, TypeInv, PlaceOK
<1>10. ASSUME NEW x \in Actors, own2[x] # 0 PROVE Claims(x, f, own2[x])'
  <2>1. CASE x = a BY <1>9, <2>1 DEF Claims, MayOwn
  <2>2. CASE x # a
    <3>1. Claims(x, f, own[x]) /\ own2[x] = own[x] BY <1>2, <1>7, <1>10, <2>2 DEF Owns
    <3>2. QED BY <1>5, <1>9, <2>2, <3>1 DEF Claims, MayOwn
  <2>3. QED BY <2>1, <2>2
<1>11. own2 \in [Actors -> 0 .. 255] BY <1>7
<1>12. Owns(f, own2)' BY <1>8, <1>10 DEF Owns, Amount, OwnersOf
<1>13. QED BY <1>1, <1>11, <1>12 DEF Owned

LEMMA OwnersStep == ASSUME TypeInv, OwnersInv, [Next]_vars PROVE OwnersInv'
<1> SUFFICES ASSUME faults' = 0, NEW f \in Families PROVE Owned(f)' BY DEF OwnersInv
<1>1. faults = 0
  <2>1. faults' = faults \/ faults' = faults + 1
    BY DEF Next, Apply, Start, Begin, SetTTL, TTLCommand, List, ListFails, Delete, DeleteFails,
           Removed, Insert, Truncate, WriteText, WriteFails, Crash, Reboot, vars, bounds
  <2>2. faults \in Nat BY TTLAssumption DEF TypeInv, CountsOK
  <2>3. QED BY <2>1, <2>2
<1>2. Owned(f) BY <1>1 DEF OwnersInv
<1>3. ASSUME UNCHANGED chain,
             \A a \in Actors : \A v \in DOMAIN RulesOf(chain[f]) : Claims(a, f, v) => Claims(a, f, v)'
      PROVE  Owned(f)'
  BY <1>2, <1>3, OwnersStay
<1>4. ASSUME NEW a \in Actors, UNCHANGED <<chain, todo>>,
             pc' \in [Actors -> Step], fam' \in [Actors -> Families],
             \A x \in Actors \ {a} : pc'[x] = pc[x] /\ fam'[x] = fam[x],
             pc'[a] \in {"truncate", "write", "idle"} \/ (pc'[a] = "list" /\ fam'[a] = 1)
      PROVE  Owned(f)'
  <2>1. \A x \in Actors : \A v : Claims(x, f, v) => Claims(x, f, v)'
    BY <1>4 DEF Claims, MayOwn
  <2>2. QED BY <1>3, <1>4, <2>1
<1>5. ASSUME NEW a \in Actors, NEW v, NEW persist, NEW step \in {"list", "truncate"},
             Begin(a, v, persist, step)
      PROVE  Owned(f)'
  <2>1. /\ pc' = [pc EXCEPT ![a] = step] /\ fam' = [fam EXCEPT ![a] = 1]
        /\ UNCHANGED <<chain, todo>>
    BY <1>5 DEF Begin, At
  <2>2. QED BY <1>4, <2>1 DEF TypeInv, PlaceOK, Step, Families
<1>6. CASE UNCHANGED <<chain, pc, fam, todo>> BY <1>3, <1>6 DEF Claims, MayOwn
<1>7. CASE Start
  <2>1. \/ Begin(Main, 0, TRUE, "truncate") \/ Begin(Main, Saved, FALSE, "list")
        \/ UNCHANGED <<chain, pc, fam, todo>>
    BY <1>7 DEF Start
  <2>2. QED BY <1>5, <1>6, <2>1 DEF Actors
<1>8. ASSUME NEW s \in Setters, NEW v \in Values, SetTTL(s, v) PROVE Owned(f)'
  BY <1>5, <1>8 DEF SetTTL, Actors
<1>9. ASSUME NEW c \in Commands, TTLCommand(c) PROVE Owned(f)'
  BY <1>5, <1>9 DEF TTLCommand, Actors
<1>10. CASE Crash
  <2>1. \A x \in Actors : pc'[x] = "idle" \/ (pc'[x] = pc[x] /\ todo'[x] = todo[x])
    BY <1>10 DEF Crash
  <2>2. UNCHANGED <<chain, fam>> BY <1>10 DEF Crash
  <2>3. \A x \in Actors : \A v : Claims(x, f, v) => Claims(x, f, v)'
    BY <2>1, <2>2 DEF Claims, MayOwn
  <2>4. QED BY <1>3, <2>2, <2>3
<1>11. CASE Reboot
  <2>1. chain'[1] = SetToBag(Others) /\ chain'[2] = SetToBag(Others)
    BY <1>11 DEF Reboot, Families
  <2>2. QED BY <2>1, NoOwnersNext
<1>12. ASSUME NEW a \in Actors, List(a) PROVE Owned(f)'
  <2>1. /\ pc' = [pc EXCEPT ![a] = "delete"] /\ UNCHANGED <<chain, fam>> /\ pc[a] = "list"
        /\ todo' = [todo EXCEPT ![a] = RulesOf(chain[fam[a]])]
    BY <1>12 DEF List, At, Rules, RulesOf
  <2>2. \A x \in Actors : \A v \in DOMAIN RulesOf(chain[f]) : Claims(x, f, v) => Claims(x, f, v)'
    BY <2>1 DEF Claims, MayOwn, TypeInv, PlaceOK, TodoOK
  <2>3. QED BY <1>3, <2>1, <2>2
<1>13. ASSUME NEW a \in Actors, Delete(a) PROVE Owned(f)'
  <2>1. CASE f = fam[a] BY <1>2, <1>13, <2>1, OwnersDelete DEF Delete
  <2>2. CASE f # fam[a]
    <3>1. UNCHANGED <<pc, fam>> /\ chain'[f] = chain[f]
      BY <1>13, <2>2 DEF Delete, TypeInv, ChainOK
    <3>2. \A x \in Actors \ {a} : todo'[x] = todo[x]
      BY <1>13 DEF Delete, TypeInv, TodoOK
    <3>3. \A x \in Actors : \A v : Claims(x, f, v) => Claims(x, f, v)'
      BY <2>2, <3>1, <3>2 DEF Claims, MayOwn
    <3>4. QED BY <1>2, <3>1, <3>3, OwnersStay
  <2>3. QED BY <2>1, <2>2
<1>14. ASSUME NEW a \in Actors, Removed(a) PROVE Owned(f)'
  <2>1. pc[a] = "delete" /\ todo[a] = EmptyBag /\ UNCHANGED <<chain, todo>> BY <1>14 DEF Removed
  <2>2. /\ \A x \in Actors \ {a} : pc'[x] = pc[x] /\ fam'[x] = fam[x]
        /\ \/ pc'[a] \in {"truncate", "idle"}
           \/ fam[a] = 1 /\ pc'[a] = "list" /\ fam'[a] = 2
           \/ fam[a] = 2 /\ pc'[a] = "insert" /\ fam'[a] = 1
    BY <1>14 DEF Removed, AfterRemoval, Return, At, TypeInv, PlaceOK
  <2>3. \A v : v \notin DOMAIN todo[a] BY <2>1, NothingIsBag
  <2>4. \A x \in Actors : \A v : Claims(x, f, v) => Claims(x, f, v)'
    BY <2>1, <2>2, <2>3 DEF Claims, MayOwn, Families
  <2>5. QED BY <1>3, <2>1, <2>4
<1>15. ASSUME NEW a \in Actors, Insert(a) PROVE Owned(f)'
  <2>1. chain' = [chain EXCEPT ![fam[a]] = Plus(chain[fam[a]], want[a])]
    BY <1>1, <1>15 DEF Insert
  <2>2. CASE f = fam[a] BY <1>2, <1>15, <2>1, <2>2, OwnersInsert
  <2>3. CASE f # fam[a]
    <3>1. chain'[f] = chain[f] /\ todo' = todo BY <1>15, <2>1, <2>3 DEF Insert, TypeInv, ChainOK
    <3>2. /\ \A x \in Actors \ {a} : pc'[x] = pc[x] /\ fam'[x] = fam[x]
          /\ \/ pc'[a] \in {"truncate", "idle"}
             \/ fam[a] = 1 /\ pc[a] = "insert"
      BY <1>15 DEF Insert, Return, At, TypeInv, PlaceOK
    <3>3. \A x \in Actors : \A v : Claims(x, f, v) => Claims(x, f, v)'
      BY <2>3, <3>1, <3>2 DEF Claims, MayOwn
    <3>4. QED BY <1>2, <3>1, <3>3, OwnersStay
  <2>4. QED BY <2>2, <2>3
<1>16. ASSUME NEW a \in Actors, Truncate(a) \/ WriteText(a) PROVE Owned(f)'
  <2>1. /\ UNCHANGED <<chain, todo, fam>>
        /\ pc' = [pc EXCEPT ![a] = "write"] \/ pc' = [pc EXCEPT ![a] = "idle"]
    BY <1>16 DEF Truncate, WriteText, Return, At
  <2>2. QED BY <1>4, <2>1 DEF TypeInv, PlaceOK, Step
<1>17. ASSUME NEW a \in Actors PROVE ~ (ListFails(a) \/ DeleteFails(a) \/ WriteFails(a))
  BY <1>1 DEF ListFails, DeleteFails, WriteFails
<1>18. CASE UNCHANGED vars BY <1>6, <1>18 DEF vars
<1>19. QED
  BY <1>7, <1>8, <1>9, <1>10, <1>11, <1>12, <1>13, <1>14, <1>15, <1>16, <1>17, <1>18
  DEF Next, Apply

\* The copies of the rules, each with an owner of its own.
LEMMA OwnedBound ==
  ASSUME TypeInv, NEW f \in Families, Owned(f)
  PROVE  Cardinality(Copies(OwnRules(f))) <= Cardinality(Actors)
<1>1. PICK own \in [Actors -> 0 .. 255] : Owns(f, own) BY DEF Owned
<1>2. PICK R : R = OwnRules(f) OBVIOUS
<1>3. ASSUME NEW r \in DOMAIN R
      PROVE  r \in 1 .. 255 /\ R[r] = Cardinality(OwnersOf(own, r))
  <2>1. DOMAIN chain[f] \subseteq Rule BY DEF TypeInv, ChainOK, IsChain
  <2>2. r \in DOMAIN chain[f] \ Others /\ R[r] = chain[f][r] BY <1>2 DEF OwnRules, Restrict
  <2>3. r \in 1 .. 255 BY <2>1, <2>2 DEF Rule
  <2>4. R[r] = Amount(r, chain[f]) BY <2>2 DEF Amount
  <2>5. QED BY <1>1, <2>3, <2>4 DEF Owns
<1>4. ASSUME NEW r \in DOMAIN R PROVE Bijection(1 .. R[r], OwnersOf(own, r)) # {}
  BY <1>3, OwnersFinite, FS_CardinalityType DEF ExistsBijection
<1>5. PICK H : H = [r \in DOMAIN R |-> CHOOSE h : h \in Bijection(1 .. R[r], OwnersOf(own, r))]
  OBVIOUS
<1>6. ASSUME NEW r \in DOMAIN R
      PROVE  /\ \A i \in 1 .. R[r] : H[r][i] \in Actors /\ own[H[r][i]] = r
             /\ \A i, j \in 1 .. R[r] : H[r][i] = H[r][j] => i = j
  <2>1. PICK h : h \in Bijection(1 .. R[r], OwnersOf(own, r)) /\ h = H[r] BY <1>4, <1>5
  <2>2. h \in [1 .. R[r] -> OwnersOf(own, r)] /\ IsInjective(h)
    BY <2>1 DEF Bijection, Injection
  <2>3. QED BY <2>1, <2>2 DEF IsInjective, OwnersOf
<1>7. ASSUME NEW c \in Copies(R)
      PROVE  c[1] \in DOMAIN R /\ c[2] \in 1 .. R[c[1]] /\ c = <<c[1], c[2]>>
  BY DEF Copies
<1>8. PICK M : M = [c \in Copies(R) |-> H[c[1]][c[2]]] OBVIOUS
<1>9. M \in [Copies(R) -> Actors] BY <1>6, <1>7, <1>8
<1>10. ASSUME NEW c \in Copies(R), NEW d \in Copies(R), M[c] = M[d] PROVE c = d
  <2>1. own[M[c]] = c[1] /\ own[M[d]] = d[1] BY <1>6, <1>7, <1>8
  <2>2. c[1] = d[1] BY <1>10, <2>1
  <2>3. c[2] = d[2] BY <1>6, <1>10, <1>7, <1>8, <2>2
  <2>4. QED BY <1>7, <2>2, <2>3
<1>11. M \in Injection(Copies(R), Actors)
  BY <1>9, <1>10 DEF Injection, IsInjective
<1>12. QED BY <1>2, <1>11, ActorsFinite, FS_Injection

-----------------------------------------------------------------------------
Inv == TypeInv /\ FileInv /\ SettleInv /\ OwnersInv

LEMMA InvInit == Init => Inv
<1>1. Init => SettleInv BY DEF Init, SettleInv, Actors
<1>2. QED BY <1>1, TypeInit, FileInvInit, OwnersInit DEF Inv

LEMMA InvStep == Inv /\ [Next]_vars => Inv'
<1> SUFFICES ASSUME Inv, [Next]_vars PROVE Inv' OBVIOUS
<1>1. TypeInv' BY TypeStep DEF Inv
<1>2. FileInv' BY FileInvStep DEF Inv, FileInv
<1>3. SettleInv' BY SettleStep DEF Inv
<1>4. OwnersInv' BY OwnersStep DEF Inv
<1>5. QED BY <1>1, <1>2, <1>3, <1>4 DEF Inv

LEMMA InvAlways == Spec => []Inv
  BY InvInit, InvStep, PTL DEF Spec

\* The chains hold rules with values from 1 to 255 and rules of others, the
\* file digits, and what
\* is applied is a value from 0 to 255, whatever the file was torn into
\* (native_ttl.go:169-192).
THEOREM TypeCorrect == Spec => []TypeOK
<1>1. Inv => TypeOK
  BY DEF Inv, TypeInv, ChainOK, IsChain, TodoOK, Rule, PlaceOK, FileOK, CountsOK, TypeOK
<1>2. QED BY <1>1, InvAlways, PTL

\* The file reads as a value that was asked for, or as none, as long as two
\* actors have not had it open at once (native_ttl.go:169-192).
THEOREM FileIsRequestedCorrect == Spec => []FileIsRequested
<1>1. Inv => FileIsRequested
  BY ReadsRequested DEF Inv, FileIsRequested, Requested
<1>2. QED BY <1>1, InvAlways, PTL

\* As long as no command fails a chain never has more rules for the TTL than
\* there are connections and processes that set one, however their listings,
\* deletions and insertions interleave (native_ttl.go:112-153).
THEOREM NoPilingUpCorrect == Spec => []NoPilingUp
<1>1. Inv => NoPilingUp BY OwnedBound DEF Inv, OwnersInv, NoPilingUp
<1>2. QED BY <1>1, InvAlways, PTL

\* An operation that nobody disturbs and in which no command fails ends with
\* its own rule in both chains, or none for 0, beside the rules of others that
\* lack a mark, and its value in the file, whatever earlier ones left behind
\* (native_ttl.go:79-167).
THEOREM UndisturbedSetSettlesCorrect == Spec => UndisturbedSetSettles
<1>1. ASSUME Inv, [Next]_vars, NEW a \in Setters \union Commands,
             ~ Idle(a), Idle(a)', clean'[a]
      PROVE  Settled(want[a])' /\ Saved' = want[a]
  <2>1. ~ UNCHANGED vars BY <1>1 DEF vars, Idle
  <2>2. Done(a)' BY <1>1, <2>1, Undisturbed DEF Inv, Idle
  <2>3. a \in Actors /\ pc[a] # "idle" /\ clean'[a] BY <1>1 DEF Actors, Idle
  <2>4. \/ List(a) \/ Delete(a) \/ Removed(a) \/ Insert(a) \/ Truncate(a) \/ WriteText(a)
    BY <1>1, <2>1, <2>3, WhoMoves DEF Inv, SetTTL, TTLCommand, Idle
  <2>5. want' = want
    BY <2>4 DEF List, Delete, Removed, Insert, Truncate, WriteText
  <2>6. TypeInv' BY <1>1, TypeStep DEF Inv
  <2>7. want[a] \in 0 .. 255 BY <1>1, <2>3 DEF Inv, TypeInv, PlaceOK
  <2>8. RulesSettled(want[a])' /\ Saved' = want[a] BY <2>2, <2>5 DEF Done
  <2>9. QED BY <2>6, <2>7, <2>8, <2>5, RulesSettledNext DEF TypeInv
<1>2. Inv /\ [Next]_vars => \A a \in Setters \union Commands :
        ~ Idle(a) /\ Idle(a)' /\ clean'[a] => Settled(want[a])' /\ Saved' = want[a]
  BY <1>1
<1>3. QED BY <1>2, InvAlways, PTL DEF Spec, UndisturbedSetSettles
=============================================================================
