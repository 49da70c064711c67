------------------------------ MODULE SerialPort ------------------------------
(***************************************************************************)
(* What the transport promises whoever runs a transaction, and no more:    *)
(* whatever process it is in, a caller has the modem to itself until its   *)
(* transaction returns; what it gets is the answer to what it wrote,       *)
(* unless before that somebody's answer was not waited for to its end; and *)
(* the modem takes the body of an SMS at most once, within the transaction *)
(* it belongs to or late.  A transaction may be refused before it has the  *)
(* port, it may be given up, and the callers in the service die together.  *)
(***************************************************************************)
EXTENDS Naturals

CONSTANTS
  Callers,
  ServiceCallers,  \* those that are goroutines of the service
  Nobody,
  MaxTx,           \* bound on the number of transactions
  Answer           \* answers of the modem, with the transaction they are to

VARIABLES
  asked,     \* transactions asked for so far
  request,   \* the transaction each caller has asked for, or 0
  user,      \* who has the port
  returned,  \* what each transaction has returned
  bodies,    \* SMS bodies the modem took, by transaction
  late       \* some answer was not waited for

vars == <<asked, request, user, returned, bodies, late>>

Init ==
  /\ asked = 0
  /\ request = [cl \in Callers |-> 0]
  /\ user = Nobody
  /\ returned = [t \in 1 .. MaxTx |-> {}]
  /\ bodies = [t \in 1 .. MaxTx |-> 0]
  /\ late = FALSE

Ask(cl) ==
  /\ request[cl] = 0 /\ asked < MaxTx
  /\ asked' = asked + 1
  /\ request' = [request EXCEPT ![cl] = asked + 1]
  /\ UNCHANGED <<user, returned, bodies, late>>

Take(cl) ==
  /\ request[cl] # 0 /\ user = Nobody
  /\ user' = cl
  /\ UNCHANGED <<asked, request, returned, bodies, late>>

Refuse(cl) ==
  /\ request[cl] # 0 /\ user # cl
  /\ request' = [request EXCEPT ![cl] = 0]
  /\ UNCHANGED <<asked, user, returned, bodies, late>>

Leave(cl) ==
  /\ user = cl /\ user' = Nobody
  /\ request' = [request EXCEPT ![cl] = 0]

Return(cl) ==
  /\ Leave(cl)
  /\ \E answers \in (SUBSET Answer) \ {{}} :
       /\ late \/ \A a \in answers : a.tx = request[cl]
       /\ returned' = [returned EXCEPT ![request[cl]] = answers]
  /\ UNCHANGED <<asked, bodies, late>>

GiveUp(cl) ==
  /\ Leave(cl)
  /\ late' \in {late, TRUE}
  /\ UNCHANGED <<asked, returned, bodies>>

\* The caller tries again, although an answer to its first try may come.
TryAgain(cl) ==
  /\ user = cl
  /\ late' = TRUE
  /\ UNCHANGED <<asked, request, user, returned, bodies>>

TakeBody(t) ==
  /\ t <= asked /\ bodies[t] = 0
  /\ late \/ (user # Nobody /\ request[user] = t)
  /\ bodies' = [bodies EXCEPT ![t] = 1]
  /\ UNCHANGED <<asked, request, user, returned, late>>

ServiceDies ==
  /\ request' = [cl \in Callers |-> IF cl \in ServiceCallers THEN 0 ELSE request[cl]]
  /\ user' = IF user \in ServiceCallers THEN Nobody ELSE user
  /\ late' = TRUE
  /\ UNCHANGED <<asked, returned, bodies>>

Next ==
  \/ \E cl \in Callers :
       Ask(cl) \/ Take(cl) \/ Refuse(cl) \/ Return(cl) \/ GiveUp(cl) \/ TryAgain(cl)
  \/ \E t \in 1 .. MaxTx : TakeBody(t)
  \/ ServiceDies

Spec == Init /\ [][Next]_vars
=============================================================================
