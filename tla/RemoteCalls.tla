----------------------------- MODULE RemoteCalls -----------------------------
(***************************************************************************)
(* What the API channel promises a page about its calls, and no more: a    *)
(* call is settled once, by the answer of an execution or by giving up,    *)
(* and is executed at most once.  A call that was given up may have been   *)
(* executed, or be executed later: the page cannot tell.                   *)
(***************************************************************************)
EXTENDS Naturals

CONSTANT Calls

VARIABLES
  outcome,   \* of each call: "none" (not issued), "open", "resolved", "rejected"
  executed   \* how often the service has executed each call

vars == <<outcome, executed>>

Init ==
  /\ outcome = [c \in Calls |-> "none"]
  /\ executed = [c \in Calls |-> 0]

Issue(c) ==
  /\ outcome[c] = "none"
  /\ outcome' = [outcome EXCEPT ![c] = "open"]
  /\ UNCHANGED executed

Execute(c) ==
  /\ outcome[c] # "none" /\ executed[c] = 0
  /\ executed' = [executed EXCEPT ![c] = 1]
  /\ UNCHANGED outcome

Answer(c) ==
  /\ outcome[c] = "open" /\ executed[c] = 1
  /\ outcome' = [outcome EXCEPT ![c] = "resolved"]
  /\ UNCHANGED executed

\* The calls of a connection are given up together.
GiveUp(lost) ==
  /\ \A c \in lost : outcome[c] = "open"
  /\ outcome' = [c \in Calls |-> IF c \in lost THEN "rejected" ELSE outcome[c]]
  /\ UNCHANGED executed

Next ==
  \/ \E c \in Calls : Issue(c) \/ Execute(c) \/ Answer(c)
  \/ \E lost \in SUBSET Calls : GiveUp(lost)

Spec == Init /\ [][Next]_vars
=============================================================================
