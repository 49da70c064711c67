-------------------------- MODULE ApiChannelProofs --------------------------
(***************************************************************************)
(* Proofs about ApiChannel, for any number of calls, sockets and breaks:   *)
(* no promise is orphaned, a call fails with its own socket only, and the  *)
(* channel implements RemoteCalls (at most one execution of a call, and an *)
(* answer only of that execution).                                         *)
(***************************************************************************)
EXTENDS ApiChannel, TLAPS

USE ChannelAssumption DEF NoSocket

\* The service's steps do not touch the browser's variables.
LEMMA ServiceApart ==
  ASSUME NEW s \in Sockets, ServiceStep(s) \/ ServerEnds(s) \/ Break(s)
  PROVE  UNCHANGED browserVars
  BY DEF ServiceStep, Read, Handle, ServerEnds, Break

-----------------------------------------------------------------------------
(***************************************************************************)
(* Types of the browser, and no orphans.                                   *)
(***************************************************************************)
BrowserInv == BrowserOK /\ NoOrphan

LEMMA BrowserInit == Init => BrowserInv
  BY DEF Init, BrowserInv, BrowserOK, NoOrphan, Sockets, Calls

LEMMA BrowserStepInv ==
  ASSUME BrowserInv, [Next]_vars
  PROVE  BrowserInv'
<1> USE DEF BrowserInv
<1> 0 \notin Sockets
  BY DEF Sockets
<1>1. ASSUME NEW c \in Calls, Request(c) PROVE BrowserInv'
  <2>1. CASE Send(c)
    BY <1>1, <2>1 DEF Request, Send, Issue, WsOpen, BrowserOK, NoOrphan
  <2>2. CASE Join(c)
    BY <1>1, <2>2 DEF Request, Join, Issue, BrowserOK, NoOrphan
  <2>3. CASE Dial(c)
    BY <1>1, <2>3 DEF Request, Dial, Issue, BrowserOK, NoOrphan
  <2> QED BY <1>1, <2>1, <2>2, <2>3 DEF Request
<1>2. ASSUME NEW s \in Sockets, OnOpen(s) PROVE BrowserInv'
  BY <1>2 DEF OnOpen, Waiting, BrowserOK, NoOrphan
<1>3. ASSUME NEW s \in Sockets, OnError(s) PROVE BrowserInv'
  BY <1>3 DEF OnError, Reject, Pending, Waiting, BrowserOK, NoOrphan
<1>4. ASSUME NEW s \in Sockets, OnClose(s) PROVE BrowserInv'
  BY <1>4 DEF OnClose, Reject, Pending, BrowserOK, NoOrphan
<1>5. ASSUME NEW s \in Sockets, OnMessage(s) PROVE BrowserInv'
  BY <1>5 DEF OnMessage, BrowserOK, NoOrphan
<1>6. CASE UNCHANGED browserVars
  BY <1>6 DEF browserVars, BrowserOK, NoOrphan
<1> QED
  BY <1>1, <1>2, <1>3, <1>4, <1>5, <1>6, ServiceApart DEF Next, BrowserStep, vars

\* Every promise of a call waits for an event that settles it: a socket being
\* opened, or an open one whose end rejects all calls without an answer.
THEOREM NoOrphanCorrect == Spec => []NoOrphan
<1>1. Spec => []BrowserInv
  BY BrowserInit, BrowserStepInv, PTL DEF Spec
<1>2. BrowserInv => NoOrphan
  BY DEF BrowserInv
<1> QED BY <1>1, <1>2, PTL

-----------------------------------------------------------------------------
(***************************************************************************)
(* Until a rejection handler issues a call the page has one socket, so a   *)
(* call fails with its own.                                                *)
(***************************************************************************)
OneSocket ==
  ~retried =>
    \A s \in Sockets :
      /\ socket[s] \in {"connecting", "open", "failing"} => s = ws
      /\ socket[s] = "connecting" => connectPromise = s

LEMMA OneSocketStep ==
  ASSUME BrowserInv, OneSocket, [Next]_vars
  PROVE  OneSocket'
<1> USE DEF BrowserInv
<1> 0 \notin Sockets
  BY DEF Sockets
<1>1. ASSUME NEW c \in Calls, Request(c) PROVE OneSocket'
  <2>1. CASE Send(c) \/ Join(c)
    BY <1>1, <2>1 DEF Request, Send, Join, OneSocket, BrowserOK
  <2>2. CASE Dial(c)
    <3>1. CASE Quiet
      <4>1. ~retried => \A s \in Sockets : socket[s] \in {"unused", "closed"}
        BY <2>2, <3>1 DEF Dial, WsOpen, Quiet, OneSocket, BrowserOK
      <4> QED BY <1>1, <2>2, <4>1 DEF Request, Dial, OneSocket, BrowserOK
    <3>2. CASE ~Quiet
      BY <1>1, <3>2 DEF Request, OneSocket, BrowserOK
    <3> QED BY <3>1, <3>2
  <2> QED BY <1>1, <2>1, <2>2 DEF Request
<1>2. ASSUME NEW s \in Sockets, BrowserStep(s) PROVE OneSocket'
  <2>1. /\ UNCHANGED retried /\ ws' \in {ws, 0}
        /\ socket' = [socket EXCEPT ![s] = socket'[s]]
        /\ socket[s] \in {"connecting", "open", "failing"}
        /\ socket'[s] # "connecting" \/ UNCHANGED <<ws, connectPromise, socket>>
        /\ ws' # ws => ws = s /\ socket'[s] = "closed"
    BY <1>2 DEF BrowserStep, OnOpen, OnError, OnClose, OnMessage, BrowserOK
  <2> QED BY <2>1 DEF OneSocket, BrowserOK
<1>3. CASE UNCHANGED browserVars
  BY <1>3 DEF browserVars, OneSocket
<1> QED
  BY <1>1, <1>2, <1>3, ServiceApart DEF Next, vars

LEMMA OwnFailureStep ==
  ASSUME BrowserInv, OneSocket, [Next]_vars,
         NEW c \in Calls, ~retried, call[c] = "pending", call'[c] = "rejected"
  PROVE  socket'[via[c]] \in {"failing", "closed"}
<1> USE DEF BrowserInv
<1>1. PICK s \in Sockets : OnError(s) \/ OnClose(s)
  <2>1. ASSUME NEW d \in Calls, Request(d) PROVE FALSE
    BY <2>1 DEF Request, Send, Join, Dial, Issue, BrowserOK
  <2>2. ASSUME NEW s \in Sockets, OnOpen(s) \/ OnMessage(s) PROVE FALSE
    BY <2>2 DEF OnOpen, OnMessage, BrowserOK
  <2>3. CASE UNCHANGED browserVars
    BY <2>3 DEF browserVars
  <2> QED BY <2>1, <2>2, <2>3, ServiceApart DEF Next, BrowserStep, vars
<1>2. s = ws /\ via[c] = ws
  BY <1>1 DEF OnError, OnClose, OneSocket, NoOrphan, BrowserOK
<1> QED BY <1>1, <1>2 DEF OnError, OnClose, BrowserOK

\* A call is rejected because of the socket it was sent on, as long as no
\* rejection handler has issued calls.
THEOREM OwnFailureCorrect == Spec => OwnFailure
<1>1. Init => OneSocket
  BY DEF Init, OneSocket
<1>2. Spec => [](BrowserInv /\ OneSocket)
  BY <1>1, BrowserInit, BrowserStepInv, OneSocketStep, PTL DEF Spec
<1>3. BrowserInv /\ OneSocket /\ [Next]_vars =>
        [\A c \in Calls :
           ~retried /\ call[c] = "pending" /\ call'[c] = "rejected"
             => socket'[via[c]] \in {"failing", "closed"}]_vars
  BY OwnFailureStep
<1> QED BY <1>2, <1>3, PTL DEF Spec, OwnFailure

-----------------------------------------------------------------------------
(***************************************************************************)
(* Types of the service, and the place of every call: on its way up, being *)
(* executed or on its way down, on the socket it was sent on and in one of *)
(* the three at most.                                                      *)
(***************************************************************************)
LEMMA ServiceTypeStep ==
  ASSUME BrowserInv, ServiceOK, [Next]_vars
  PROVE  ServiceOK'
<1> USE DEF ServiceOK
<1>1. ASSUME NEW c \in Calls, Request(c) PROVE ServiceOK'
  <2>1. UNCHANGED <<down, serving, broken, executed>>
    BY <1>1 DEF Request
  <2>2. up' = up \/ up' = [up EXCEPT ![ws] = @ \union {c}]
    BY <1>1 DEF Request, Send, Join, Dial
  <2> QED BY <2>1, <2>2
<1>2. ASSUME NEW s \in Sockets, BrowserStep(s) PROVE ServiceOK'
  BY <1>2 DEF BrowserStep, OnOpen, OnError, OnClose, OnMessage, Waiting, serviceVars
<1>3. ASSUME NEW s \in Sockets, ServiceStep(s) PROVE ServiceOK'
  BY <1>3 DEF ServiceStep, Read, Handle
<1>4. ASSUME NEW s \in Sockets, ServerEnds(s) \/ Break(s) PROVE ServiceOK'
  BY <1>4 DEF ServerEnds, Break, serviceVars
<1>5. CASE UNCHANGED vars
  BY <1>5 DEF vars, serviceVars
<1> QED BY <1>1, <1>2, <1>3, <1>4, <1>5 DEF Next

ChannelInv == BrowserInv /\ ServiceOK

LEMMA ChannelInvHolds == Spec => []ChannelInv
<1>1. Init => ChannelInv
  BY BrowserInit DEF Init, ChannelInv, ServiceOK
<1>2. ChannelInv /\ [Next]_vars => ChannelInv'
  BY BrowserStepInv, ServiceTypeStep DEF ChannelInv
<1> QED BY <1>1, <1>2, PTL DEF Spec

\* The types of the browser and of the service.
THEOREM TypeCorrect == Spec => []TypeOK
<1>1. ChannelInv => TypeOK
  BY DEF ChannelInv, BrowserInv, TypeOK
<1> QED BY <1>1, ChannelInvHolds, PTL

\* A call that was sent and is not executed yet.
Underway(c, s) ==
  via[c] = s /\ executed[c] = 0 /\ call[c] \in {"pending", "rejected"}

Placed ==
  /\ \A c \in Calls :
       /\ executed[c] \in {0, 1}
       /\ call[c] \in {"new", "connecting"} => executed[c] = 0
       /\ call[c] = "resolved" => executed[c] = 1
  /\ \A s \in Sockets : \A c \in Calls :
       /\ c \in up[s] => Underway(c, s) /\ serving[s] # c
       /\ serving[s] = c => Underway(c, s)
       /\ c \in down[s] => executed[c] = 1

LEMMA PlacedStep ==
  ASSUME ChannelInv, Placed, [Next]_vars
  PROVE  Placed'
<1> USE DEF ChannelInv, BrowserInv, Underway
<1> 0 \notin Calls /\ 0 \notin Sockets
  BY DEF Calls, Sockets
<1>1. ASSUME NEW c \in Calls, Request(c) PROVE Placed'
  <2>1. /\ call[c] = "new" /\ executed[c] = 0
        /\ \A s \in Sockets : c \notin up[s] /\ serving[s] # c
        /\ UNCHANGED <<down, serving, executed>>
    BY <1>1 DEF Request, Placed
  <2>2. CASE Send(c)
    BY <2>1, <2>2 DEF Send, WsOpen, Issue, Placed, BrowserOK, ServiceOK
  <2>3. CASE Join(c) \/ Dial(c)
    BY <2>1, <2>3 DEF Join, Dial, Issue, Placed, BrowserOK, ServiceOK
  <2> QED BY <1>1, <2>2, <2>3 DEF Request
<1>2. ASSUME NEW s \in Sockets, OnOpen(s) PROVE Placed'
  BY <1>2 DEF OnOpen, Waiting, Placed, BrowserOK, ServiceOK
<1>3. ASSUME NEW s \in Sockets, OnError(s) PROVE Placed'
  BY <1>3 DEF OnError, Reject, Pending, Waiting, Placed, BrowserOK, ServiceOK, serviceVars
<1>4. ASSUME NEW s \in Sockets, OnClose(s) PROVE Placed'
  BY <1>4 DEF OnClose, Reject, Pending, Placed, BrowserOK, ServiceOK
<1>5. ASSUME NEW s \in Sockets, OnMessage(s) PROVE Placed'
  BY <1>5 DEF OnMessage, IsFirst, Placed, BrowserOK, ServiceOK
<1>6. ASSUME NEW s \in Sockets, Read(s) PROVE Placed'
  BY <1>6 DEF Read, IsFirst, browserVars, Placed, ServiceOK
<1>7. ASSUME NEW s \in Sockets, Handle(s) PROVE Placed'
  BY <1>7 DEF Handle, browserVars, Placed, ServiceOK
<1>8. ASSUME NEW s \in Sockets, ServerEnds(s) PROVE Placed'
  BY <1>8 DEF ServerEnds, browserVars, Placed, ServiceOK
<1>9. ASSUME NEW s \in Sockets, Break(s) PROVE Placed'
  BY <1>9 DEF Break, browserVars, serviceVars, Placed
<1>10. CASE UNCHANGED vars
  BY <1>10 DEF vars, browserVars, serviceVars, Placed
<1> QED
  BY <1>1, <1>2, <1>3, <1>4, <1>5, <1>6, <1>7, <1>8, <1>9, <1>10
     DEF Next, BrowserStep, ServiceStep

-----------------------------------------------------------------------------
(***************************************************************************)
(* The channel implements RemoteCalls.                                     *)
(***************************************************************************)
\* A step that gives up the calls of lost.
LEMMA GivenUp ==
  ASSUME NEW lost \in SUBSET Calls, Reject(lost), UNCHANGED executed,
         \A c \in lost : call[c] \in {"connecting", "pending"}
  PROVE  Promised!Next
<1>1. /\ \A c \in lost : Outcome[c] = "open"
      /\ Outcome' = [c \in Calls |-> IF c \in lost THEN "rejected" ELSE Outcome[c]]
  BY DEF Outcome, Reject
<1>2. Promised!GiveUp(lost)
  BY <1>1 DEF Promised!GiveUp, Outcome
<1> QED BY <1>2 DEF Promised!Next

LEMMA RemoteCallsNext ==
  ASSUME ChannelInv, Placed, [Next]_vars
  PROVE  [Promised!Next]_Promised!vars
<1> USE DEF ChannelInv, BrowserInv
<1> 0 \notin Calls
  BY DEF Calls
<1>1. ASSUME UNCHANGED <<Outcome, executed>> PROVE [Promised!Next]_Promised!vars
  BY <1>1 DEF Outcome, Promised!vars
<1>2. ASSUME NEW c \in Calls, Request(c) PROVE [Promised!Next]_Promised!vars
  <2>1. /\ call[c] = "new" /\ UNCHANGED executed
        /\ call' = [call EXCEPT ![c] = "pending"] \/ call' = [call EXCEPT ![c] = "connecting"]
    BY <1>2 DEF Request, Send, Join, Dial, Issue
  <2>2. Outcome[c] = "none" /\ Outcome' = [Outcome EXCEPT ![c] = "open"]
    BY <2>1 DEF Outcome, BrowserOK
  <2>3. Promised!Issue(c)
    BY <2>1, <2>2 DEF Promised!Issue, Outcome
  <2> QED BY <2>3 DEF Promised!Next
<1>3. ASSUME NEW s \in Sockets, OnOpen(s) PROVE [Promised!Next]_Promised!vars
  <2>1. Outcome' = Outcome
    BY <1>3 DEF OnOpen, Waiting, Outcome, BrowserOK
  <2> QED BY <1>1, <1>3, <2>1 DEF OnOpen
<1>4. ASSUME NEW s \in Sockets, OnError(s) \/ OnClose(s)
      PROVE [Promised!Next]_Promised!vars
  <2>1. /\ UNCHANGED executed
        /\ Reject(Pending) \/ Reject(Pending \union Waiting(s))
    BY <1>4 DEF OnError, OnClose, serviceVars
  <2> QED BY <2>1, GivenUp DEF Pending, Waiting
<1>5. ASSUME NEW s \in Sockets, OnMessage(s) PROVE [Promised!Next]_Promised!vars
  <2>1. PICK c \in Calls :
          /\ c \in down[s] /\ UNCHANGED executed
          /\ call' = IF call[c] = "pending" THEN [call EXCEPT ![c] = "resolved"] ELSE call
    BY <1>5 DEF OnMessage, IsFirst
  <2>2. CASE call[c] # "pending"
    <3>1. Outcome' = Outcome
      BY <2>1, <2>2 DEF Outcome
    <3> QED BY <1>1, <2>1, <3>1
  <2>3. CASE call[c] = "pending"
    <3>1. Outcome[c] = "open" /\ Outcome' = [Outcome EXCEPT ![c] = "resolved"]
      BY <2>1, <2>3 DEF Outcome, BrowserOK
    <3>2. Promised!Answer(c)
      BY <2>1, <3>1 DEF Promised!Answer, Placed, Outcome
    <3> QED BY <3>2 DEF Promised!Next
  <2> QED BY <2>2, <2>3
<1>6. ASSUME NEW s \in Sockets, Handle(s) PROVE [Promised!Next]_Promised!vars
  <2> DEFINE c == serving[s]
  <2>1. /\ c \in Calls /\ executed[c] = 0 /\ UNCHANGED call
        /\ call[c] \in {"pending", "rejected"}
        /\ executed' = [executed EXCEPT ![c] = @ + 1]
    BY <1>6 DEF Handle, browserVars, Placed, Underway, ServiceOK
  <2>2. /\ executed' = [executed EXCEPT ![c] = 1]
        /\ Outcome[c] # "none" /\ Outcome' = Outcome
    <3>1. executed[c] + 1 = 1
      BY <2>1
    <3>2. CASE call[c] = "pending"
      BY <2>1, <3>1, <3>2 DEF Outcome
    <3>3. CASE call[c] = "rejected"
      <4>1. Outcome[c] = call[c]
        BY <2>1, <3>3 DEF Outcome
      <4> QED BY <2>1, <3>1, <3>3, <4>1 DEF Outcome
    <3> QED BY <2>1, <3>2, <3>3
  <2>3. Promised!Execute(c)
    BY <2>1, <2>2 DEF Promised!Execute, Outcome
  <2> QED BY <2>1, <2>3 DEF Promised!Next
<1>7. ASSUME UNCHANGED <<browserVars, executed>> PROVE [Promised!Next]_Promised!vars
  <2>1. Outcome' = Outcome
    BY <1>7 DEF browserVars, Outcome
  <2> QED BY <1>1, <1>7, <2>1
<1>8. ASSUME NEW s \in Sockets, Read(s) \/ ServerEnds(s) \/ Break(s)
      PROVE [Promised!Next]_Promised!vars
  BY <1>7, <1>8 DEF Read, ServerEnds, Break, serviceVars
<1>9. CASE UNCHANGED vars
  BY <1>7, <1>9 DEF vars, serviceVars
<1> QED
  BY <1>2, <1>3, <1>4, <1>5, <1>6, <1>8, <1>9 DEF Next, BrowserStep, ServiceStep

\* Refinement: however sockets break and are replaced, a call is executed at
\* most once, is resolved by its execution only, and is settled once.
THEOREM ImplementsRemoteCalls == Spec => PromisedSpec
<1>1. Init => Placed
  <2>1. 0 \notin Calls
    BY DEF Calls
  <2> QED BY <2>1 DEF Init, Placed
<1>2. Spec => [](ChannelInv /\ Placed)
  BY <1>1, ChannelInvHolds, PlacedStep, PTL DEF Spec
<1>3. Init => Promised!Init
  BY DEF Init, Promised!Init, Outcome
<1> QED
  BY <1>2, <1>3, RemoteCallsNext, PTL DEF Spec, PromisedSpec, Promised!Spec
=============================================================================
