----------------------------- MODULE ApiChannel -----------------------------
(***************************************************************************)
(* The channel between a page and the service: SimpleAdmin.Api in the      *)
(* browser (simpleadmin-core.js) and the loop of a WebSocket in the        *)
(* service (api_websocket.go).                                             *)
(*                                                                         *)
(* All calls of a page share one socket.  A call that finds none open      *)
(* waits on a promise for the one being opened, or opens one.  Answers are *)
(* matched by the id of the call, an error or the end of a socket rejects  *)
(* all calls that wait for an answer.  The service has a goroutine per     *)
(* socket that reads a call, runs its handler and writes the answer before *)
(* it reads the next.  A socket may break, with calls and answers on it;   *)
(* both sides find out later, each for itself.                             *)
(*                                                                         *)
(* The browser runs one event at a time, but a socket that fails has two,  *)
(* error and close, and between them the code that waited for a rejected   *)
(* promise runs and may issue a call (the SMS page does: it goes on to     *)
(* send after the failure of its first call).  A socket is "failing" then. *)
(*                                                                         *)
(* Abstractions.  A call is its number; its answer is whatever a handler   *)
(* returns.  A page's calls reach a socket, and are answered, in the order *)
(* of their numbers, so what is on the way is a set of which the smallest  *)
(* comes first.  Nothing in the service calls the broadcast of events.     *)
(***************************************************************************)
EXTENDS Naturals, FiniteSets

CONSTANTS
  MaxCalls,    \* bound on the calls of the page
  MaxSockets,  \* bound on the sockets it opens
  MaxBreaks    \* bound on the sockets that break while in use

ASSUME ChannelAssumption ==
  MaxCalls \in Nat /\ MaxSockets \in Nat /\ MaxBreaks \in Nat

VARIABLES
  ws,              \* the socket the page uses, or NoSocket
  connectPromise,  \* the socket whose opening it waits for, or NoSocket
  socket,          \* state of each socket in the browser
  call,            \* state of each call's promise
  via,             \* the socket a call waits for or was sent on
  handlers,        \* rejection handlers run between error and close
  up, down,        \* calls and answers on the way
  serving,         \* the call whose handler a socket's goroutine runs, or 0
  broken,          \* sockets on which nothing arrives any more
  executed,        \* how often each call was executed
  retried          \* history: some call was issued by a rejection handler

browserVars == <<ws, connectPromise, socket, call, via, handlers, retried>>
serviceVars == <<up, down, serving, executed>>
vars == <<browserVars, serviceVars, broken>>
-----------------------------------------------------------------------------
Calls    == 1 .. MaxCalls
Sockets  == 1 .. MaxSockets
NoSocket == 0

IsFirst(c, S) == c \in S /\ \A d \in S : c <= d

\* No socket is between its error and its close event.
Quiet == \A s \in Sockets : socket[s] # "failing"

Pending    == {c \in Calls : call[c] = "pending"}
Waiting(s) == {c \in Calls : call[c] = "connecting" /\ via[c] = s}

Reject(lost) == call' = [c \in Calls |-> IF c \in lost THEN "rejected" ELSE call[c]]

Init ==
  /\ ws = NoSocket /\ connectPromise = NoSocket
  /\ socket = [s \in Sockets |-> "unused"]
  /\ call = [c \in Calls |-> "new"] /\ via = [c \in Calls |-> NoSocket]
  /\ handlers = FALSE /\ retried = FALSE
  /\ up = [s \in Sockets |-> {}] /\ down = [s \in Sockets |-> {}]
  /\ serving = [s \in Sockets |-> 0]
  /\ broken = {} /\ executed = [c \in Calls |-> 0]

(***************************************************************************)
(* The browser.                                                            *)
(***************************************************************************)
WsOpen == ws # NoSocket /\ socket[ws] = "open"

Issue(c, state, s) ==
  /\ call' = [call EXCEPT ![c] = state]
  /\ via' = [via EXCEPT ![c] = s]

\* request on an open socket.
Send(c) ==
  /\ WsOpen
  /\ Issue(c, "pending", ws)
  /\ up' = [up EXCEPT ![ws] = @ \union {c}]
  /\ UNCHANGED <<ws, connectPromise, socket>>

\* connect returns the promise of the socket being opened.
Join(c) ==
  /\ ~WsOpen /\ connectPromise # NoSocket
  /\ Issue(c, "connecting", connectPromise)
  /\ UNCHANGED <<ws, connectPromise, socket, up>>

\* Mutant: connect does not look for a promise.
DialAlways(c) ==
  /\ ~WsOpen
  /\ \E s \in Sockets :
       /\ socket[s] = "unused" /\ \A t \in 1 .. s - 1 : socket[t] # "unused"
       /\ socket' = [socket EXCEPT ![s] = "connecting"]
       /\ ws' = s /\ connectPromise' = s
       /\ Issue(c, "connecting", s)
  /\ UNCHANGED up

\* connect opens a socket.
Dial(c) ==
  /\ ~WsOpen /\ connectPromise = NoSocket
  /\ \E s \in Sockets :
       /\ socket[s] = "unused" /\ \A t \in 1 .. s - 1 : socket[t] # "unused"
       /\ socket' = [socket EXCEPT ![s] = "connecting"]
       /\ ws' = s /\ connectPromise' = s
       /\ Issue(c, "connecting", s)
  /\ UNCHANGED up

Request(c) ==
  /\ call[c] = "new" /\ \A d \in 1 .. c - 1 : call[d] # "new"
  /\ Quiet \/ handlers
  /\ Send(c) \/ Join(c) \/ Dial(c)
  /\ retried' = (retried \/ ~Quiet)
  /\ UNCHANGED <<handlers, down, serving, broken, executed>>

\* onopen: the calls that waited are sent.
OnOpen(s) ==
  /\ Quiet /\ socket[s] = "connecting" /\ s \notin broken
  /\ socket' = [socket EXCEPT ![s] = "open"]
  /\ connectPromise' = NoSocket
  /\ call' = [c \in Calls |-> IF c \in Waiting(s) THEN "pending" ELSE call[c]]
  /\ up' = [up EXCEPT ![s] = @ \union Waiting(s)]
  /\ UNCHANGED <<ws, via, handlers, retried, down, serving, broken, executed>>

\* Mutant: the promise of the socket is not rejected.
OnErrorForgets(s) ==
  /\ Quiet
  /\ socket[s] = "connecting" \/ (socket[s] = "open" /\ s \in broken)
  /\ socket' = [socket EXCEPT ![s] = "failing"]
  /\ connectPromise' = NoSocket
  /\ Reject(Pending) /\ handlers' = (Pending # {})
  /\ UNCHANGED <<ws, via, retried, serviceVars, broken>>

\* onerror: a socket that could not be opened, or has broken.
OnError(s) ==
  LET lost == Pending \union Waiting(s) IN
  /\ Quiet
  /\ socket[s] = "connecting" \/ (socket[s] = "open" /\ s \in broken)
  /\ socket' = [socket EXCEPT ![s] = "failing"]
  /\ connectPromise' = NoSocket
  /\ Reject(lost) /\ handlers' = (lost # {})
  /\ UNCHANGED <<ws, via, retried, serviceVars, broken>>

\* Mutants: a socket that is not the page's rejects nothing; the page keeps a
\* closed socket.
OnCloseOwn(s) ==
  /\ socket[s] = "failing" \/ (Quiet /\ socket[s] = "open" /\ s \in broken)
  /\ socket' = [socket EXCEPT ![s] = "closed"]
  /\ ws' = IF ws = s THEN NoSocket ELSE ws
  /\ connectPromise' = NoSocket
  /\ IF ws = s THEN Reject(Pending) ELSE UNCHANGED call
  /\ handlers' = FALSE
  /\ down' = [down EXCEPT ![s] = {}]
  /\ UNCHANGED <<via, retried, up, serving, executed, broken>>

OnCloseKeeps(s) ==
  /\ socket[s] = "failing" \/ (Quiet /\ socket[s] = "open" /\ s \in broken)
  /\ socket' = [socket EXCEPT ![s] = "closed"]
  /\ connectPromise' = NoSocket
  /\ Reject(Pending) /\ handlers' = FALSE
  /\ down' = [down EXCEPT ![s] = {}]
  /\ UNCHANGED <<ws, via, retried, up, serving, executed, broken>>

\* onclose follows an error, and comes alone when the service closed.
OnClose(s) ==
  /\ socket[s] = "failing" \/ (Quiet /\ socket[s] = "open" /\ s \in broken)
  /\ socket' = [socket EXCEPT ![s] = "closed"]
  /\ ws' = IF ws = s THEN NoSocket ELSE ws
  /\ connectPromise' = NoSocket
  /\ Reject(Pending) /\ handlers' = FALSE
  /\ down' = [down EXCEPT ![s] = {}]
  /\ UNCHANGED <<via, retried, up, serving, executed, broken>>

\* onmessage: an answer nobody waits for is ignored.
OnMessage(s) ==
  \E c \in Calls :
    /\ Quiet /\ socket[s] = "open" /\ IsFirst(c, down[s])
    /\ call' = IF call[c] = "pending" THEN [call EXCEPT ![c] = "resolved"] ELSE call
    /\ down' = [down EXCEPT ![s] = @ \ {c}]
    /\ UNCHANGED <<ws, connectPromise, socket, via, handlers, retried, up,
                   serving, executed, broken>>

(***************************************************************************)
(* The service, and the connection.                                        *)
(***************************************************************************)
\* readClientFrame, when the goroutine of the socket has nothing to do.
Read(s) ==
  \E c \in Calls :
    /\ serving[s] = 0 /\ IsFirst(c, up[s])
    /\ serving' = [serving EXCEPT ![s] = c]
    /\ up' = [up EXCEPT ![s] = @ \ {c}]
    /\ UNCHANGED <<browserVars, down, executed, broken>>

\* Mutant: a call whose answer could not be written is executed again.
HandleAgain(s) ==
  LET c == serving[s] IN
  /\ c # 0
  /\ executed' = [executed EXCEPT ![c] = @ + 1]
  /\ serving' = IF s \in broken /\ executed[c] = 0 THEN serving
                ELSE [serving EXCEPT ![s] = 0]
  /\ down' = IF s \in broken THEN down ELSE [down EXCEPT ![s] = @ \union {c}]
  /\ UNCHANGED <<browserVars, up, broken>>

\* dispatchAPIWebSocketRequest runs the handler, and its answer is written.
Handle(s) ==
  LET c == serving[s] IN
  /\ c # 0
  /\ executed' = [executed EXCEPT ![c] = @ + 1]
  /\ serving' = [serving EXCEPT ![s] = 0]
  /\ down' = IF s \in broken THEN down ELSE [down EXCEPT ![s] = @ \union {c}]
  /\ UNCHANGED <<browserVars, up, broken>>

\* The goroutine's read or write fails, or the service died: what it had not
\* executed is lost.
ServerEnds(s) ==
  /\ s \in broken /\ (up[s] # {} \/ serving[s] # 0)
  /\ up' = [up EXCEPT ![s] = {}]
  /\ serving' = [serving EXCEPT ![s] = 0]
  /\ UNCHANGED <<browserVars, down, executed, broken>>

\* A connection breaks; answers on their way may still arrive, or some of them.
Break(s) ==
  /\ socket[s] \in {"connecting", "open"} /\ s \notin broken
  /\ Cardinality(broken) < MaxBreaks
  /\ broken' = broken \union {s}
  /\ UNCHANGED <<browserVars, serviceVars>>
-----------------------------------------------------------------------------
BrowserStep(s) == OnOpen(s) \/ OnError(s) \/ OnClose(s) \/ OnMessage(s)

ServiceStep(s) == Read(s) \/ Handle(s)

Next ==
  \/ \E c \in Calls : Request(c)
  \/ \E s \in Sockets :
       BrowserStep(s) \/ ServiceStep(s) \/ ServerEnds(s) \/ Break(s)

Spec == Init /\ [][Next]_vars

\* The browser handles its events, handlers of the service end, opening a
\* socket ends one way or the other and a broken one is noticed.
FairSpec ==
  /\ Spec
  /\ \A s \in Sockets : WF_vars(BrowserStep(s)) /\ WF_vars(ServiceStep(s))
-----------------------------------------------------------------------------
(***************************************************************************)
(* Properties.                                                             *)
(***************************************************************************)
BrowserOK ==
  /\ ws \in Sockets \union {NoSocket} /\ connectPromise \in Sockets \union {NoSocket}
  /\ socket \in [Sockets -> {"unused", "connecting", "open", "failing", "closed"}]
  /\ call \in [Calls -> {"new", "connecting", "pending", "resolved", "rejected"}]
  /\ via \in [Calls -> Sockets \union {NoSocket}]
  /\ handlers \in BOOLEAN /\ retried \in BOOLEAN
  /\ ws # NoSocket => socket[ws] \in {"connecting", "open", "failing"}

ServiceOK ==
  /\ up \in [Sockets -> SUBSET Calls] /\ down \in [Sockets -> SUBSET Calls]
  /\ serving \in [Sockets -> Calls \union {0}]
  /\ broken \subseteq Sockets /\ executed \in [Calls -> Nat]

\* Every variable keeps its type; the page's socket is one that is not closed.
TypeOK == BrowserOK /\ ServiceOK

\* No promise is orphaned: a call that waits for a socket waits for one that is
\* still being opened, a call that waits for an answer was sent on a socket
\* whose end has still to be noticed, and so will reject it; whichever socket
\* the page uses meanwhile.
NoOrphan ==
  /\ connectPromise # NoSocket => socket[connectPromise] = "connecting"
  /\ \A c \in Calls :
       /\ call[c] = "connecting" => via[c] # NoSocket /\ socket[via[c]] = "connecting"
       /\ call[c] = "pending" => via[c] # NoSocket /\ socket[via[c]] = "open"

\* A call is rejected because of its own socket, and not because another one
\* failed, unless a rejection handler has issued calls: such a call can leave
\* the page with two sockets.
OwnFailure ==
  [][\A c \in Calls :
       ~retried /\ call[c] = "pending" /\ call'[c] = "rejected"
         => socket'[via[c]] \in {"failing", "closed"}]_vars

\* Every call is settled in the end, without a timer of its own.
EverySettles ==
  \A c \in Calls : call[c] # "new" ~> call[c] \in {"resolved", "rejected"}

\* What a page sees of its calls.
Outcome == [c \in Calls |-> CASE call[c] = "new" -> "none"
                              [] call[c] \in {"connecting", "pending"} -> "open"
                              [] OTHER -> call[c]]

Promised == INSTANCE RemoteCalls WITH outcome <- Outcome

\* The channel implements RemoteCalls: however sockets break and are replaced,
\* a call is executed at most once and is resolved only by its execution.
PromisedSpec == Promised!Spec
=============================================================================
