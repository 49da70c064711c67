------------------------------- MODULE TTLRules -------------------------------
(***************************************************************************)
(* The TTL setting (native_ttl.go)                                         *)
(*                                                                         *)
(* A TTL is a rule in the POSTROUTING chain of iptables and another in     *)
(* that of ip6tables, and a value in a file.  Setting it lists the chain   *)
(* of each family and deletes the rules found there one by one, inserts    *)
(* the new rule in both, and writes the file, which is truncated first.    *)
(* The service does this for every request and, from the file, when it     *)
(* starts; the `ttl' command does it from a process of its own.  Nothing   *)
(* locks the chains or the file, every command can fail without stopping   *)
(* the rest, and the chains outlive a crash of the service.                *)
(*                                                                         *)
(* Abstractions.  A rule for the TTL is the value it sets; a rule somebody *)
(* else put there is a member of Others, of which only the marks matter by *)
(* which the code tells its own rules from the rest.  A chain is a bag of  *)
(* rules, so that those listed are deleted in any order.  The file holds   *)
(* characters: digits, and 10 for the newline.                             *)
(***************************************************************************)
EXTENDS Integers, SequencesExt, Bags

CONSTANTS
  Setters,    \* connections whose requests set a TTL
  Commands,   \* runs of the `ttl' command
  Main,       \* the goroutine that starts the service
  Values,     \* the TTLs that are asked for
  Others,     \* rules of somebody else in a chain
  Carries,    \* the marks in the line of each of them
  Legacy,     \* value in the legacy file, -1 if there is none
  MaxSets,    \* bound on the operations begun
  MaxFaults,  \* bound on failing commands and writes
  MaxCrashes  \* bound on crashes and reboots

Actors == Setters \union Commands \union {Main}

\* What the listed line of a rule is searched for: `-o rmnet+', `-j TTL' (HL),
\* and `--ttl-set' (--hl-set).
Marks == {"interface", "target", "flag"}

ASSUME TTLAssumption ==
  /\ Main \notin Setters \union Commands /\ Setters \intersect Commands = {}
  /\ Values \subseteq 0 .. 255 /\ Legacy \in -1 .. 255
  /\ Others \intersect 0 .. 255 = {} /\ Carries \in [Others -> SUBSET Marks]
  /\ IsFiniteSet(Setters) /\ IsFiniteSet(Commands)
  /\ MaxSets \in Nat /\ MaxFaults \in Nat /\ MaxCrashes \in Nat

VARIABLES
  chain,    \* rules of each family
  file,     \* whether the state file exists, and its characters
  pc,       \* where each actor is
  want,     \* the value it applies
  save,     \* it writes the file at the end
  fam,      \* the family it is at
  todo,     \* rules it has listed and not yet deleted
  up,       \* the service has started
  sets, faults, crashes,
  clean,    \* history: nothing failed and nobody else moved since it began
  torn      \* history: two actors were between truncation and write at once

bounds == <<sets, faults, crashes>>
vars == <<chain, file, pc, want, save, fam, todo, up, bounds, clean, torn>>
-----------------------------------------------------------------------------
Families == 1 .. 2   \* iptables, ip6tables
Newline  == 10

Digits(v) == IF v < 10 THEN <<v>>
             ELSE IF v < 100 THEN <<v \div 10, v % 10>>
             ELSE <<v \div 100, (v \div 10) % 10, v % 10>>
Text(v) == Append(Digits(v), Newline)

stripNonDigits(text) == SelectSeq(text, LAMBDA ch : ch # Newline)

Atoi(digits) == FoldLeft(LAMBDA acc, d : 10 * acc + d, 0, digits)

\* What readTTLValue makes of a text; an error is -1.
Number(text) ==
  LET n == Atoi(stripNonDigits(text))
  IN IF stripNonDigits(text) # <<>> /\ n \in 0 .. 255 THEN n ELSE -1

\* What is written for a value reads as that value, and an empty file as
\* none: no constant is involved, and TLC evaluates all of it.
ASSUME TextAssumption == Number(<<>>) = -1 /\ \A v \in 0 .. 255 : Number(Text(v)) = v

\* readTTLValue: a state file that exists hides the legacy file.
Saved == IF file.exists THEN Number(file.text) ELSE Legacy

\* The bytes of one write over what the file holds now.
Overlay(old, new) ==
  [i \in 1 .. (IF Len(old) > Len(new) THEN Len(old) ELSE Len(new)) |->
     IF i <= Len(new) THEN new[i] ELSE old[i]]

\* The marks in the line of a rule: one that applyNativeTTL inserts has all.
MarksOf(r) == IF r \in Others THEN Carries[r] ELSE Marks

\* Mutant: managedTTLDeleteArgs does not look at the interface.
ManagedAnywhere(r) == {"target", "flag"} \subseteq MarksOf(r)

\* managedTTLDeleteArgs: what else is in the line does not matter.
Managed(r) == Marks \subseteq MarksOf(r)

Rules(f) == Restrict(chain[f], {r \in DOMAIN chain[f] : Managed(r)})

\* A rule more, and one less if there is one.
Plus(rules, r)  == rules (+) SetToBag({r})
Minus(rules, r) == rules (-) SetToBag({r})

Idle(a) == pc[a] = "idle"
At(a, step) == pc' = [pc EXCEPT ![a] = step]

\* A step of a leaves only a undisturbed, and not even a when a command failed.
Alone(a, ok) == clean' = [x \in Actors |-> x = a /\ ok /\ clean[a]]

\* a begins, undisturbed if nobody else is at work.
Fresh(a) == clean' = [x \in Actors |-> x = a /\ \A y \in Actors \ {a} : Idle(y)]
-----------------------------------------------------------------------------
Init ==
  /\ chain = [f \in Families |-> SetToBag(Others)]
  /\ \E v \in Values : file \in {[exists |-> TRUE, text |-> Text(v)], [exists |-> FALSE, text |-> <<>>]}
  /\ pc = [a \in Actors |-> "idle"] /\ want = [a \in Actors |-> 0]
  /\ save = [a \in Actors |-> FALSE] /\ fam = [a \in Actors |-> 1]
  /\ todo = [a \in Actors |-> EmptyBag]
  /\ up = FALSE /\ sets = 0 /\ faults = 0 /\ crashes = 0
  /\ clean = [a \in Actors |-> FALSE] /\ torn = FALSE

Begin(a, v, persist, step) ==
  /\ At(a, step)
  /\ want' = [want EXCEPT ![a] = v] /\ save' = [save EXCEPT ![a] = persist]
  /\ fam' = [fam EXCEPT ![a] = 1]
  /\ Fresh(a)
  /\ UNCHANGED <<chain, file, todo, faults, crashes, torn>>

\* applySavedTTLAtStartup: an unreadable value is replaced by 0 in the file, a
\* value of 0 leaves the chains alone.
Start ==
  /\ ~up /\ Idle(Main)
  /\ CASE Saved = -1 -> Begin(Main, 0, TRUE, "truncate") /\ up' = up
       [] Saved = 0  -> /\ up' = TRUE /\ Fresh(Main)
                        /\ UNCHANGED <<chain, file, pc, want, save, fam, todo, faults, crashes, torn>>
       [] OTHER      -> Begin(Main, Saved, FALSE, "list") /\ up' = up
  /\ UNCHANGED sets

\* handleSetTTL and setNativeTTL.
SetTTL(s, v) ==
  /\ up /\ Idle(s) /\ sets < MaxSets
  /\ Begin(s, v, TRUE, "list")
  /\ sets' = sets + 1 /\ UNCHANGED up

\* Mutant: `ttl apply' goes on when the value cannot be read.
TTLCommandUnread(c) ==
  /\ Idle(c) /\ sets < MaxSets
  /\ Begin(c, 0, TRUE, "list") \/ Begin(c, Saved, FALSE, "list")
  /\ sets' = sets + 1 /\ UNCHANGED up

\* `ttl off' and `ttl apply'.
TTLCommand(c) ==
  /\ Idle(c) /\ sets < MaxSets
  /\ \/ Begin(c, 0, TRUE, "list")
     \/ Saved >= 0 /\ Begin(c, Saved, FALSE, "list")
  /\ sets' = sets + 1 /\ UNCHANGED up

Return(a) == At(a, "idle") /\ up' = (up \/ a = Main)

\* What follows the removal of a family's rules: the other family's, and then
\* the new rules, or with 0 none.
AfterRemoval(a) ==
  CASE fam[a] = 1 -> At(a, "list") /\ fam' = [fam EXCEPT ![a] = 2] /\ UNCHANGED up
    [] fam[a] = 2 /\ want[a] > 0 -> At(a, "insert") /\ fam' = [fam EXCEPT ![a] = 1] /\ UNCHANGED up
    [] OTHER -> /\ IF save[a] THEN At(a, "truncate") /\ UNCHANGED up ELSE Return(a)
                /\ UNCHANGED fam

\* Mutant: the listing stops at the first managed rule.
ListFirst(a) ==
  /\ pc[a] = "list"
  /\ todo' = [todo EXCEPT ![a] =
                IF Rules(fam[a]) = EmptyBag THEN EmptyBag
                ELSE SetToBag({CHOOSE r \in DOMAIN Rules(fam[a]) : TRUE})]
  /\ At(a, "delete") /\ Alone(a, TRUE)
  /\ UNCHANGED <<chain, file, want, save, fam, up, bounds, torn>>

\* iptables -S of a family.
List(a) ==
  /\ pc[a] = "list"
  /\ todo' = [todo EXCEPT ![a] = Rules(fam[a])]
  /\ At(a, "delete") /\ Alone(a, TRUE)
  /\ UNCHANGED <<chain, file, want, save, fam, up, bounds, torn>>

ListFails(a) ==
  /\ pc[a] = "list" /\ faults < MaxFaults
  /\ faults' = faults + 1
  /\ AfterRemoval(a) /\ Alone(a, FALSE)
  /\ UNCHANGED <<chain, file, want, save, todo, sets, crashes, torn>>

\* Mutant: the delete command does not match the rule.
DeleteMisses(a) ==
  /\ pc[a] = "delete"
  /\ \E r \in DOMAIN todo[a] : todo' = [todo EXCEPT ![a] = Minus(@, r)]
  /\ Alone(a, TRUE)
  /\ UNCHANGED <<chain, file, pc, want, save, fam, up, bounds, torn>>

\* iptables -D of a listed rule, which removes one equal rule; it fails when
\* another process was faster.
Delete(a) ==
  /\ pc[a] = "delete"
  /\ \E r \in DOMAIN todo[a] :
       /\ chain' = [chain EXCEPT ![fam[a]] = Minus(@, r)]
       /\ todo' = [todo EXCEPT ![a] = Minus(@, r)]
  /\ Alone(a, TRUE)
  /\ UNCHANGED <<file, pc, want, save, fam, up, bounds, torn>>

DeleteFails(a) ==
  /\ pc[a] = "delete" /\ faults < MaxFaults
  /\ faults' = faults + 1
  /\ \E r \in DOMAIN todo[a] : todo' = [todo EXCEPT ![a] = Minus(@, r)]
  /\ Alone(a, FALSE)
  /\ UNCHANGED <<chain, file, pc, want, save, fam, up, sets, crashes, torn>>

Removed(a) ==
  /\ pc[a] = "delete" /\ todo[a] = EmptyBag
  /\ AfterRemoval(a) /\ Alone(a, TRUE)
  /\ UNCHANGED <<chain, file, want, save, todo, bounds, torn>>

\* iptables -I of the new rule.
Insert(a) ==
  /\ pc[a] = "insert"
  /\ \/ /\ chain' = [chain EXCEPT ![fam[a]] = Plus(@, want[a])]
        /\ Alone(a, TRUE) /\ UNCHANGED faults
     \/ /\ faults < MaxFaults /\ faults' = faults + 1
        /\ Alone(a, FALSE) /\ UNCHANGED chain
  /\ CASE fam[a] = 1 -> fam' = [fam EXCEPT ![a] = 2] /\ UNCHANGED <<pc, up>>
       [] save[a] /\ fam[a] = 2 -> At(a, "truncate") /\ UNCHANGED <<fam, up>>
       [] OTHER -> Return(a) /\ UNCHANGED fam
  /\ UNCHANGED <<file, want, save, todo, sets, crashes, torn>>

\* Another actor has truncated the file and not yet written it.
Writing(a) == \E b \in Actors \ {a} : pc[b] = "write"

\* Mutant: the file is opened without O_TRUNC.
TruncateNot(a) ==
  /\ pc[a] = "truncate"
  /\ file' = [file EXCEPT !.exists = TRUE]
  /\ torn' = (torn \/ Writing(a))
  /\ At(a, "write") /\ Alone(a, TRUE)
  /\ UNCHANGED <<chain, want, save, fam, todo, up, bounds>>

\* writeTTLValue: os.WriteFile truncates and writes.
Truncate(a) ==
  /\ pc[a] = "truncate"
  /\ file' = [exists |-> TRUE, text |-> <<>>]
  /\ torn' = (torn \/ Writing(a))
  /\ At(a, "write") /\ Alone(a, TRUE)
  /\ UNCHANGED <<chain, want, save, fam, todo, up, bounds>>

WriteText(a) ==
  /\ pc[a] = "write"
  /\ file' = [file EXCEPT !.text = Overlay(@, Text(want[a]))]
  /\ Return(a) /\ Alone(a, TRUE)
  /\ UNCHANGED <<chain, want, save, fam, todo, bounds, torn>>

WriteFails(a) ==
  /\ pc[a] \in {"truncate", "write"} /\ faults < MaxFaults
  /\ faults' = faults + 1
  /\ Return(a) /\ Alone(a, FALSE)
  /\ UNCHANGED <<chain, file, want, save, fam, todo, sets, crashes, torn>>

\* The service dies: its goroutines stop where they are.
Crash ==
  /\ crashes < MaxCrashes /\ crashes' = crashes + 1
  /\ pc' = [a \in Actors |-> IF a \in Commands THEN pc[a] ELSE "idle"]
  /\ todo' = [a \in Actors |-> IF a \in Commands THEN todo[a] ELSE EmptyBag]
  /\ clean' = [a \in Actors |-> FALSE]
  /\ up' = FALSE
  /\ UNCHANGED <<chain, file, want, save, fam, sets, faults, torn>>

\* The device restarts: the chains are back to what others put there.
Reboot ==
  /\ crashes < MaxCrashes /\ crashes' = crashes + 1
  /\ pc' = [a \in Actors |-> "idle"]
  /\ todo' = [a \in Actors |-> EmptyBag]
  /\ clean' = [a \in Actors |-> FALSE]
  /\ chain' = [f \in Families |-> SetToBag(Others)]
  /\ up' = FALSE
  /\ UNCHANGED <<file, want, save, fam, sets, faults, torn>>

Apply(a) ==
  \/ List(a) \/ ListFails(a) \/ Delete(a) \/ DeleteFails(a) \/ Removed(a)
  \/ Insert(a) \/ Truncate(a) \/ WriteText(a) \/ WriteFails(a)

Next ==
  \/ Start \/ Crash \/ Reboot
  \/ \E s \in Setters, v \in Values : SetTTL(s, v)
  \/ \E c \in Commands : TTLCommand(c)
  \/ \E a \in Actors : Apply(a)

Spec == Init /\ [][Next]_vars
-----------------------------------------------------------------------------
(***************************************************************************)
(* Properties.                                                             *)
(***************************************************************************)
Step == {"idle", "list", "delete", "insert", "truncate", "write"}

\* Every variable keeps its type.
TypeOK ==
  /\ DOMAIN chain = Families
  /\ \A f \in Families : IsABag(chain[f]) /\ DOMAIN chain[f] \subseteq 1 .. 255 \union Others
  /\ file \in [exists : BOOLEAN, text : Seq(0 .. Newline)]
  /\ pc \in [Actors -> Step] /\ want \in [Actors -> 0 .. 255]
  /\ save \in [Actors -> BOOLEAN] /\ clean \in [Actors -> BOOLEAN]
  /\ fam \in [Actors -> Families] /\ DOMAIN todo = Actors
  /\ \A a \in Actors : IsABag(todo[a]) /\ DOMAIN todo[a] \subseteq 1 .. 255 \union Others
  /\ up \in BOOLEAN /\ torn \in BOOLEAN
  /\ sets \in 0 .. MaxSets /\ faults \in 0 .. MaxFaults /\ crashes \in 0 .. MaxCrashes

\* Rules of others that lack a mark: nobody may take them for rules of the TTL.
Spared == {o \in Others : Carries[o] # Marks}

\* The chains are those of others and one rule for v, or none for 0.
Settled(v) ==
  \A f \in Families : chain[f] = SetToBag(Spared \union (IF v = 0 THEN {} ELSE {v}))

\* Whatever earlier operations, crashes and failures left behind, one that
\* nobody disturbs and in which no command fails leaves in both families its
\* own rule once, or none for 0, beside every rule of others that lacks a
\* mark, and its value in the file.  (A rule of somebody else that has all
\* the marks, and maybe a match of its own, is deleted like an own one.)
UndisturbedSetSettles ==
  [][\A a \in Setters \union Commands :
       ~Idle(a) /\ Idle(a)' /\ clean'[a] => Settled(want[a])' /\ Saved' = want[a]]_vars

\* The rules of a bag, equal ones told apart by a number.
Copies(B) == UNION {{r} \X (1 .. B[r]) : r \in DOMAIN B}

\* The rules the actors have inserted.
OwnRules(f) == Restrict(chain[f], DOMAIN chain[f] \ Others)

\* As long as no command fails rules do not pile up: operations that overlap
\* can miss each other's rules, but there are no more rules than actors.
NoPilingUp ==
  faults = 0 => \A f \in Families : Cardinality(Copies(OwnRules(f))) <= Cardinality(Actors)

\* Neither failing writes nor crashes between truncation and write make the
\* file show a value nobody asked for: it is unreadable, or holds a requested
\* one, or the 0 it is initialised with.  Only two writers at once can, whose
\* values then mix.
FileIsRequested == ~torn => Saved \in Values \union {-1, 0, Legacy}
=============================================================================
