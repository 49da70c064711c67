---------------------------- MODULE ATCacheProofs ----------------------------
(***************************************************************************)
(* Theorems about ATCache, for every set of commands, clients and overflow *)
(* goroutines and every capacity of the queue.                             *)
(***************************************************************************)
EXTENDS ATCache, FiniteSetTheorems, TLAPS

-----------------------------------------------------------------------------
(* Records: what the updates in the actions do to them. *)

LEMMA Records ==
  /\ Idle \in RunnerState /\ Idle.pc = "idle" /\ NoReq \in Request
  /\ \A v \in 0 .. MaxVersion : Ok(v) \in Answer
  /\ Failed \in Answer
  /\ \A c \in Commands : [pc |-> "gate", cmd |-> c, answer |-> Blank] \in RunnerState
BY ConstantsAssumption
DEF Idle, RunnerState, NoReq, Request, Blank, Ok, Failed, Answer

LEMMA RunnerFields ==
  ASSUME NEW x \in RunnerState
  PROVE  /\ x.cmd \in Commands \union {NoCommand}
         /\ x.answer \in Answer \union {Blank}
         /\ x.pc \in {"idle", "gate", "exec", "store", "invalidate"}
BY DEF RunnerState

LEMMA RunnerStepTo ==
  ASSUME NEW x \in RunnerState, NEW p \in {"exec", "invalidate"}
  PROVE  /\ [x EXCEPT !.pc = p] \in RunnerState
         /\ [x EXCEPT !.pc = p].pc = p
         /\ [x EXCEPT !.pc = p].cmd = x.cmd
         /\ [x EXCEPT !.pc = p].answer = x.answer
BY DEF RunnerState

LEMMA RunnerAnswer ==
  ASSUME NEW x \in RunnerState, NEW a \in Answer
  PROVE  /\ [x EXCEPT !.pc = "store", !.answer = a] \in RunnerState
         /\ [x EXCEPT !.pc = "store", !.answer = a].pc = "store"
         /\ [x EXCEPT !.pc = "store", !.answer = a].cmd = x.cmd
         /\ [x EXCEPT !.pc = "store", !.answer = a].answer = a
BY DEF RunnerState

LEMMA RequestUpdates ==
  ASSUME NEW x \in Request
  PROVE  /\ [x EXCEPT !.force = FALSE] \in Request
         /\ [x EXCEPT !.block = FALSE] \in Request
         /\ [x EXCEPT !.force = FALSE].cmd = x.cmd
         /\ [x EXCEPT !.block = FALSE].cmd = x.cmd
         /\ [x EXCEPT !.force = FALSE].block = x.block
         /\ x.block \in BOOLEAN /\ x.force \in BOOLEAN
BY DEF Request

-----------------------------------------------------------------------------
(* Type correctness. *)

LEMMA InitTypeOK == Init => TypeOK
<1> SUFFICES ASSUME Init PROVE TypeOK
  OBVIOUS
<1> USE ConstantsAssumption, Records DEF Init
<1>1. QueueOK
  <2>1. queue \in Seq(Commands) /\ Len(queue) <= QueueCap
    OBVIOUS
  <2> QED BY <2>1 DEF QueueOK
<1>2. ClientsOK
  BY DEF ClientsOK, FetchStep
<1>3. EntriesOK
  BY DEF EntriesOK
<1>4. RefreshOK
  <2>1. due \in 0 .. MaxDue /\ modem \in 0 .. MaxVersion
    OBVIOUS
  <2>2. warmed \in BOOLEAN /\ booting \in BOOLEAN
    OBVIOUS
  <2> QED BY <2>1, <2>2 DEF RefreshOK
<1> QED BY <1>1, <1>2, <1>3, <1>4 DEF TypeOK

LEMMA ReplyType ==
  ASSUME EntriesOK, NEW c \in Commands, NEW b
  PROVE  ResponseOrPending(c, b) \in Answer \union {Blank, Pending}
BY DEF EntriesOK, ResponseOrPending

\* Sending a command keeps the queue within its capacity and starts at most
\* one idle overflow goroutine.
LEMMA DispatchType ==
  ASSUME QueueOK, NEW c \in Commands, Dispatch(c)
  PROVE  QueueOK'
<1>1. CASE Len(queue) < QueueCap /\ queue' = Append(queue, c) /\ UNCHANGED runner
  BY <1>1, ConstantsAssumption DEF QueueOK
<1>2. ASSUME NEW s \in Spills, UNCHANGED queue,
             runner' = [runner EXCEPT ![s] = [pc |-> "gate", cmd |-> c,
             answer |-> Blank]]
      PROVE  QueueOK'
  BY <1>2, Records DEF QueueOK, Runners
<1> QED BY <1>1, <1>2 DEF Dispatch

\* A step of a runner to another runner state that keeps its command.
LEMMA RunnerType ==
  ASSUME QueueOK, UNCHANGED queue, NEW r \in Runners, NEW x \in RunnerState,
         runner' = [runner EXCEPT ![r] = x], x.pc = "idle" \/ x.cmd \in Commands
  PROVE  QueueOK'
BY DEF QueueOK

LEMMA EnqueuedType ==
  ASSUME ClientsOK, NEW cl \in Clients, pc[cl] = "enqueue",
         NEW to \in FetchStep, Enqueued(cl, to), UNCHANGED reply,
         \/ UNCHANGED waiters
         \/ /\ req[cl].block /\ to \in {"wait", "send"}
            /\ waiters' = [waiters EXCEPT ![req[cl].cmd] = @ \union {cl}]
  PROVE  ClientsOK'
<1>1. req[cl].cmd \in Commands /\ req[cl] \in Request
  BY DEF ClientsOK
<1>2. /\ req' = [req EXCEPT ![cl] = [@ EXCEPT !.force = FALSE]]
      /\ req' \in [Clients -> Request]
      /\ \A x \in Clients : req'[x].cmd = req[x].cmd /\ req'[x].block = req[x].block
  BY <1>1, RequestUpdates DEF Enqueued, ClientsOK
<1>3. pc' \in [Clients -> FetchStep]
      /\ \A x \in Clients : pc'[x] = IF x = cl THEN to ELSE pc[x]
  BY DEF Enqueued, ClientsOK
<1>4. /\ waiters' \in [Commands -> SUBSET Clients]
      /\ \A c \in Commands, x \in Clients :
           x \in waiters'[c] => \/ x \in waiters[c]
                                \/ /\ x = cl /\ c = req[cl].cmd
                                   /\ req[cl].block /\ to \in {"wait", "send"}
  BY <1>1 DEF ClientsOK
<1>5. \A x \in Clients : pc'[x] # "idle" => req'[x].cmd \in Commands
  BY <1>1, <1>2, <1>3 DEF ClientsOK
<1>6. \A c \in Commands : \A x \in waiters[c] :
        x # cl /\ x \in Clients /\ req[x].cmd = c /\ req[x].block /\ pc[x] \in {"send",
        "wait"}
  BY DEF ClientsOK
<1>7. \A c \in Commands : \A x \in waiters'[c] :
        req'[x].cmd = c /\ req'[x].block /\ pc'[x] \in {"send", "wait"}
  BY <1>1, <1>2, <1>3, <1>4, <1>6 DEF ClientsOK
<1>8. reply' \in [Clients -> Answer \union {Blank, Pending}]
  BY DEF ClientsOK
<1> QED BY <1>2, <1>3, <1>4, <1>5, <1>7, <1>8 DEF ClientsOK

LEMMA ClientTypes ==
  ASSUME TypeOK, NEW cl \in Clients, ClientStep(cl)
  PROVE  TypeOK'
<1> USE DEF TypeOK
<1>1. ASSUME NEW c \in Commands, NEW f \in BOOLEAN, NEW w \in BOOLEAN,
             FetchStart(cl, c, f, w)
      PROVE  TypeOK'
  <2>1. ClientsOK'
    <3>1. req' \in [Clients -> Request]
      BY <1>1 DEF FetchStart, Request, ClientsOK, Ready
    <3>2. reply' \in [Clients -> Answer \union {Blank, Pending}]
      BY <1>1, ReplyType DEF FetchStart, ClientsOK, Ready
    <3>3. pc' \in [Clients -> FetchStep]
      BY <1>1 DEF FetchStart, FetchStep, ClientsOK, Ready
    <3>4. \A x \in Clients : pc'[x] # "idle" => req'[x].cmd \in Commands
      BY <1>1 DEF FetchStart, ClientsOK, Ready
    <3>5. \A k \in Commands : \A x \in waiters[k] : x # cl
      BY <1>1 DEF FetchStart, ClientsOK, Ready
    <3> QED BY <1>1, <3>1, <3>2, <3>3, <3>4, <3>5 DEF FetchStart, entryVars, ClientsOK,
       Ready
  <2> QED BY <1>1, <2>1 DEF FetchStart, entryVars, refreshVars, EntriesOK, QueueOK,
     RefreshOK, Ready
<1>2. CASE Enqueue(cl)
  <2>1. pc[cl] = "enqueue" /\ req[cl].cmd \in Commands /\ req[cl].block \in BOOLEAN
    BY <1>2, RequestUpdates DEF Enqueue, EnqueueJoin, EnqueueFresh, EnqueueRun,
       ClientsOK,
       NeedsRun, MarkRunning, AddWaiter
  <2>2. {AfterEnqueue(cl), "woken", "return", "send"} \subseteq FetchStep
        /\ (req[cl].block => AfterEnqueue(cl) = "wait")
    BY DEF AfterEnqueue, FetchStep
  <2>3. CASE EnqueueJoin(cl)
    <3>1. ClientsOK'
      BY <2>1, <2>2, <2>3, EnqueuedType DEF EnqueueJoin, AddWaiter
    <3> QED BY <2>3, <3>1 DEF EnqueueJoin, refreshVars, EntriesOK, QueueOK, RefreshOK,
       AddWaiter
  <2>4. CASE EnqueueFresh(cl)
    <3>1. ClientsOK'
      BY <2>1, <2>2, <2>4, EnqueuedType DEF EnqueueFresh, entryVars
    <3> QED BY <2>4, <3>1 DEF EnqueueFresh, entryVars, refreshVars, EntriesOK, QueueOK,
       RefreshOK
  <2>5. CASE EnqueueRun(cl)
    <3>1. ClientsOK'
      BY <2>1, <2>2, <2>5, EnqueuedType DEF EnqueueRun, NeedsRun, MarkRunning, AddWaiter
    <3>2. EntriesOK'
      BY <2>1, <2>5 DEF EnqueueRun, EntriesOK, NeedsRun, MarkRunning, AddWaiter
    <3> QED BY <2>5, <3>1, <3>2 DEF EnqueueRun, refreshVars, QueueOK, RefreshOK,
       NeedsRun, MarkRunning, AddWaiter
  <2> QED BY <1>2, <2>3, <2>4, <2>5 DEF Enqueue
<1>3. CASE Send(cl)
  <2>1. QueueOK'
    BY <1>3, DispatchType DEF Send, ClientsOK
  <2>2. ClientsOK'
    BY <1>3 DEF Send, entryVars, ClientsOK, AfterEnqueue, FetchStep
  <2> QED BY <1>3, <2>1, <2>2 DEF Send, entryVars, refreshVars, EntriesOK, RefreshOK
<1>4. CASE Timeout(cl)
  <2>1. ClientsOK'
    <3>1. pc' \in [Clients -> FetchStep] /\ waiters' \in [Commands -> SUBSET Clients]
      BY <1>4 DEF Timeout, ClientsOK, FetchStep
    <3>2. \A c \in Commands : \A x \in waiters'[c] : x \in waiters[c] /\ x # cl
      BY <1>4 DEF Timeout, ClientsOK
    <3> QED BY <1>4, <3>1, <3>2 DEF Timeout, ClientsOK
  <2> QED BY <1>4, <2>1 DEF Timeout, refreshVars, EntriesOK, QueueOK, RefreshOK
<1>5. CASE Resnapshot(cl)
  <2>1. ResponseOrPending(req[cl].cmd, req[cl].cmd \in running)
          \in Answer \union {Blank, Pending}
    BY <1>5, ReplyType DEF Resnapshot, ClientsOK
  <2>2. req' \in [Clients -> Request] /\ \A x \in Clients : req'[x].cmd = req[x].cmd
    <3>1. req' = [req EXCEPT ![cl] = [@ EXCEPT !.block = FALSE]] /\ req[cl] \in Request
      BY <1>5 DEF Resnapshot, ClientsOK
    <3> QED BY <3>1, RequestUpdates DEF ClientsOK
  <2>3. \A c \in Commands : \A x \in waiters[c] : x # cl
    BY <1>5 DEF Resnapshot, ClientsOK
  <2>4. ClientsOK'
    BY <1>5, <2>1, <2>2, <2>3 DEF Resnapshot, ClientsOK, FetchStep, entryVars
  <2> QED BY <1>5, <2>4 DEF Resnapshot, entryVars, refreshVars, EntriesOK, QueueOK,
     RefreshOK
<1>6. CASE Return(cl)
  <2>1. \A c \in Commands : \A x \in waiters[c] : x # cl
    BY <1>6 DEF Return, ClientsOK
  <2>2. ClientsOK'
    BY <1>6, <2>1, Records DEF Return, ClientsOK, FetchStep, entryVars
  <2> QED BY <1>6, <2>2 DEF Return, entryVars, refreshVars, EntriesOK, QueueOK,
     RefreshOK
<1> QED BY <1>1, <1>2, <1>3, <1>4, <1>5, <1>6 DEF ClientStep

LEMMA RunnerTypes ==
  ASSUME TypeOK, NEW r \in Runners, RunnerStep(r)
  PROVE  TypeOK'
<1> USE DEF TypeOK
<1>0. /\ runner[r] \in RunnerState
      /\ runner[r].cmd \in Commands
  BY DEF RunnerStep, Gate, Execute, Store, InvalidateReadCache, QueueOK,
     Ready, WokenBy, WaitersTaken, StampsInvalidated
<1>1. CASE Gate(r)
  <2>1. QueueOK'
    <3> DEFINE x == [runner[r] EXCEPT !.pc = "exec"]
    <3>1. runner' = [runner EXCEPT ![r] = x]
      BY <1>1 DEF Gate, Ready
    <3> QED BY <1>0, <1>1, <3>1, RunnerStepTo, RunnerType DEF Gate, Ready
  <2> QED BY <1>1, <2>1 DEF Gate, entryVars, clientVars, refreshVars,
             EntriesOK, ClientsOK, RefreshOK, Ready
<1>2. CASE Execute(r)
  <2>1. modem' \in 0 .. MaxVersion
    BY <1>2, ConstantsAssumption DEF Execute, RefreshOK
  <2>2. PICK a \in Answer :
          runner' = [runner EXCEPT ![r].pc = "store", ![r].answer = a]
    BY <1>2, <2>1, Records DEF Execute
  <2>3. QueueOK'
    <3> DEFINE x == [runner[r] EXCEPT !.pc = "store", !.answer = a]
    <3>1. runner' = [runner EXCEPT ![r] = x]
      BY <2>2 DEF QueueOK
    <3> QED BY <1>0, <1>2, <3>1, RunnerAnswer, RunnerType DEF Execute
  <2> QED BY <1>2, <2>1, <2>3 DEF Execute, entryVars, clientVars, refreshVars,
             EntriesOK, ClientsOK, RefreshOK
<1>3. CASE Store(r)
  <2>1. EntriesOK'
    BY <1>0, <1>3, RunnerFields DEF Store, EntriesOK, WokenBy, WaitersTaken
  <2>2. QueueOK'
    <3> DEFINE x == IF runner[r].cmd \in Actions
                    THEN [runner[r] EXCEPT !.pc = "invalidate"] ELSE Idle
    <3>1. runner' = [runner EXCEPT ![r] = x] /\ UNCHANGED queue
      BY <1>3 DEF Store, WokenBy, WaitersTaken
    <3>2. x \in RunnerState /\ (x.pc = "idle" \/ x.cmd \in Commands)
      BY <1>0, RunnerStepTo, Records
    <3> QED BY <3>1, <3>2, RunnerType
  <2>3. ClientsOK'
    BY <1>0, <1>3 DEF Store, ClientsOK, FetchStep, WokenBy, WaitersTaken
  <2> QED BY <1>3, <2>1, <2>2, <2>3 DEF Store, refreshVars, RefreshOK, WokenBy,
     WaitersTaken
<1>4. CASE InvalidateReadCache(r)
  <2>1. QueueOK'
    BY <1>4, Records, RunnerType DEF InvalidateReadCache, StampsInvalidated
  <2>2. EntriesOK'
    BY <1>4 DEF InvalidateReadCache, EntriesOK, StampsInvalidated
  <2>3. RefreshOK'
    <3>1. due' \in 0 .. MaxDue
      BY <1>4, ConstantsAssumption DEF InvalidateReadCache, RefreshOK, StampsInvalidated
    <3> QED BY <1>4, <3>1 DEF InvalidateReadCache, RefreshOK, StampsInvalidated
  <2> QED BY <1>4, <2>1, <2>2, <2>3 DEF InvalidateReadCache, clientVars, ClientsOK,
     StampsInvalidated
<1> QED BY <1>1, <1>2, <1>3, <1>4 DEF RunnerStep

LEMMA RefreshTypes == TypeOK /\ RefreshStep => TypeOK'
<1> SUFFICES ASSUME TypeOK, RefreshStep PROVE TypeOK'
  OBVIOUS
<1> USE DEF TypeOK
<1>1. CachedReadCommandsNeedingRefresh \subseteq Commands
  BY DEF CachedReadCommandsNeedingRefresh, EntriesOK
<1>2. CASE PeriodicRefresh \/ InitialRefresh
  <2>1. RefreshOK'
    BY <1>1, <1>2, ConstantsAssumption DEF PeriodicRefresh, InitialRefresh, Commands,
       RefreshOK
  <2>2. UNCHANGED <<entryVars, queue, runner, clientVars>>
    BY <1>2 DEF PeriodicRefresh, InitialRefresh
  <2> QED BY <2>1, <2>2 DEF entryVars, clientVars, EntriesOK, QueueOK, ClientsOK
<1>3. CASE DelayedRefresh
  <2>1. due' \in 0 .. MaxDue
    BY <1>3, ConstantsAssumption DEF DelayedRefresh, RefreshOK
  <2> QED BY <1>1, <1>3, <2>1 DEF DelayedRefresh, entryVars, clientVars,
             EntriesOK, QueueOK, ClientsOK, RefreshOK
<1>4. CASE RefreshSend
  <2>1. QueueOK'
    BY <1>4, DispatchType DEF RefreshSend, RefreshOK
  <2> QED BY <1>4, <2>1 DEF RefreshSend, entryVars, clientVars, EntriesOK, ClientsOK,
     RefreshOK
<1>5. ASSUME NEW c \in Commands, RefreshEnqueue(c) PROVE TypeOK'
  BY <1>5 DEF RefreshEnqueue, clientVars, EntriesOK, QueueOK, ClientsOK, RefreshOK,
     NeedsRun, MarkRunning
<1> QED BY <1>2, <1>3, <1>4, <1>5 DEF RefreshStep

LEMMA NextTypeOK == TypeOK /\ [Next]_vars => TypeOK'
<1> SUFFICES ASSUME TypeOK, [Next]_vars PROVE TypeOK'
  OBVIOUS
<1> USE DEF TypeOK
<1>1. CASE Take
  <2>1. Head(queue) \in Commands /\ Tail(queue) \in Seq(Commands)
        /\ Len(Tail(queue)) <= QueueCap
    BY <1>1, ConstantsAssumption DEF Take, QueueOK
  <2>2. QueueOK'
    BY <1>1, <2>1, Records DEF Take, Runners, QueueOK
  <2> QED BY <1>1, <2>2 DEF Take, entryVars, clientVars, refreshVars,
             EntriesOK, ClientsOK, RefreshOK
<1>2. ASSUME NEW c \in Commands, Age(c) PROVE TypeOK'
  BY <1>2 DEF Age, clientVars, refreshVars, EntriesOK, QueueOK, ClientsOK, RefreshOK
<1>3. CASE BootEnd
  BY <1>3 DEF BootEnd, entryVars, clientVars, refreshVars,
     EntriesOK, QueueOK, ClientsOK, RefreshOK
<1>4. CASE UNCHANGED vars
  BY <1>4 DEF vars, entryVars, clientVars, refreshVars,
     EntriesOK, QueueOK, ClientsOK, RefreshOK
<1> QED
  BY <1>1, <1>2, <1>3, <1>4, ClientTypes, RunnerTypes, RefreshTypes DEF Next

\* Type correctness: every variable of the cache keeps its type, and a client
\* on the waiter list of an entry is inside a Fetch of that entry.
THEOREM TypeCorrect == Spec => []TypeOK
BY InitTypeOK, NextTypeOK, PTL DEF Spec

-----------------------------------------------------------------------------
(***************************************************************************)
(* Single flight.  The running flag of a command is inductive only together*)
(* with all the places its execution can be: no two places hold the same   *)
(* command, each of them holds a running one, and each running command is  *)
(* in one of them.                                                         *)
(***************************************************************************)
QueueFlight ==
  /\ \A i, j \in 1 .. Len(queue) : queue[i] = queue[j] => i = j
  /\ \A c \in Commands, i \in 1 .. Len(queue) : queue[i] = c =>
       /\ c \in running /\ sending # c
       /\ \A r \in Runners : ~OnRunner(r, c)
       /\ \A cl \in Clients : ~FromClient(cl, c)

RunnerFlight ==
  \A c \in Commands, r \in Runners : OnRunner(r, c) =>
    /\ c \in running /\ sending # c
    /\ \A cl \in Clients : ~FromClient(cl, c)
    /\ \A q \in Runners : OnRunner(q, c) => q = r

SenderFlight ==
  /\ sending # NoCommand => sending \in running
  /\ \A c \in Commands, cl \in Clients : FromClient(cl, c) =>
       /\ c \in running /\ sending # c
       /\ \A x \in Clients : FromClient(x, c) => x = cl

RunningHeld ==
  \A c \in running :
    \/ \E i \in 1 .. Len(queue) : queue[i] = c
    \/ \E r \in Runners : OnRunner(r, c)
    \/ \E cl \in Clients : FromClient(cl, c)
    \/ sending = c

FlightInv == QueueFlight /\ RunnerFlight /\ SenderFlight /\ RunningHeld

\* Nothing moves.
LEMMA FlightSame ==
  ASSUME FlightInv, UNCHANGED <<running, queue, sending>>,
         \A c \in Commands, r \in Runners : OnRunner(r, c)' <=> OnRunner(r, c),
         \A c \in Commands, cl \in Clients : FromClient(cl, c)' <=> FromClient(cl, c),
         TypeOK
  PROVE  FlightInv'
<1>1. running \subseteq Commands /\ \A i \in 1 .. Len(queue) : queue[i] \in Commands
  BY DEF TypeOK, EntriesOK, QueueOK
<1>2. QueueFlight'
  BY <1>1 DEF FlightInv, QueueFlight
<1>3. RunnerFlight'
  BY DEF FlightInv, RunnerFlight
<1>4. SenderFlight'
  BY DEF FlightInv, SenderFlight
<1>5. RunningHeld'
  BY <1>1 DEF FlightInv, RunningHeld
<1> QED BY <1>2, <1>3, <1>4, <1>5 DEF FlightInv

\* A command that was not running becomes so, in the hands of one sender.
LEMMA FlightStart ==
  ASSUME TypeOK, FlightInv, NEW c \in Commands, c \notin running,
         running' = running \union {c}, UNCHANGED <<queue, runner>>,
         \/ /\ UNCHANGED <<pc, req>> /\ sending = NoCommand /\ sending' = c
         \/ /\ UNCHANGED sending
            /\ \E cl \in Clients : \A d \in Commands, x \in Clients :
                 FromClient(x, d)' <=> FromClient(x, d) \/ (x = cl /\ d = c)
  PROVE  FlightInv'
<1>1. /\ running \subseteq Commands /\ sending \in Commands \union {NoCommand}
      /\ \A i \in 1 .. Len(queue) : queue[i] \in Commands
      /\ NoCommand \notin Commands
  BY ConstantsAssumption DEF TypeOK, EntriesOK, QueueOK, RefreshOK
<1>2. /\ \A i \in 1 .. Len(queue) : queue[i] # c
      /\ \A r \in Runners : ~OnRunner(r, c)
      /\ \A x \in Clients : ~FromClient(x, c)
      /\ sending # c
  BY <1>1 DEF FlightInv, QueueFlight, RunnerFlight, SenderFlight
<1>3. \A d \in Commands, r \in Runners : OnRunner(r, d)' <=> OnRunner(r, d)
  BY DEF OnRunner
<1>4. \A d \in Commands, x \in Clients : d # c => (FromClient(x, d)' <=> FromClient(x,
   d))
  BY DEF FromClient
<1>5. \A x, y \in Clients : FromClient(x, c)' /\ FromClient(y, c)' => x = y
  BY <1>2 DEF FromClient
<1>6. \A d \in Commands : d # c => (sending' = d <=> sending = d)
  BY <1>1
<1>7. \/ sending' = c /\ \A x \in Clients : ~FromClient(x, c)'
      \/ sending' # c /\ \E x \in Clients : FromClient(x, c)'
  BY <1>2 DEF FromClient
<1>8. QueueFlight'
  BY <1>1, <1>2, <1>3, <1>4, <1>6 DEF FlightInv, QueueFlight
<1>9. RunnerFlight'
  BY <1>1, <1>2, <1>3, <1>4, <1>6 DEF FlightInv, RunnerFlight
<1>10. SenderFlight'
  BY <1>1, <1>2, <1>4, <1>5, <1>6, <1>7 DEF FlightInv, SenderFlight
<1>11. RunningHeld'
  <2> SUFFICES ASSUME NEW d \in running'
               PROVE  \/ \E i \in 1 .. Len(queue) : queue[i] = d
                      \/ \E r \in Runners : OnRunner(r, d)'
                      \/ \E x \in Clients : FromClient(x, d)'
                      \/ sending' = d
    BY DEF RunningHeld
  <2>1. CASE d = c
    BY <1>7, <2>1
  <2>2. CASE d # c
    <3>1. d \in running /\ d \in Commands
      BY <1>1, <2>2
    <3>2. CASE \E i \in 1 .. Len(queue) : queue[i] = d
      BY <3>2
    <3>3. CASE \E r \in Runners : OnRunner(r, d)
      BY <1>3, <3>1, <3>3
    <3>4. CASE \E x \in Clients : FromClient(x, d)
      BY <1>4, <2>2, <3>1, <3>4
    <3>5. CASE sending = d
      BY <1>6, <2>2, <3>1, <3>5
    <3> QED BY <3>1, <3>2, <3>3, <3>4, <3>5 DEF FlightInv, RunningHeld
  <2> QED BY <2>1, <2>2
<1> QED BY <1>8, <1>9, <1>10, <1>11 DEF FlightInv

\* The sender passes the command on, to the queue or to an idle runner.
LEMMA FlightSend ==
  ASSUME TypeOK, FlightInv, NEW c \in Commands, c \in running, UNCHANGED running,
         \A i \in 1 .. Len(queue) : queue[i] # c,
         \A r \in Runners : ~OnRunner(r, c),
         \A x \in Clients : ~FromClient(x, c)', sending' # c,
         sending' \in Commands \union {NoCommand},
         \A d \in Commands \ {c}, x \in Clients : FromClient(x, d)' <=> FromClient(x,
         d),
         \A d \in Commands \ {c} : sending' = d <=> sending = d,
         Dispatch(c)
  PROVE  FlightInv'
<1>1. /\ running \subseteq Commands /\ NoCommand \notin Commands
      /\ queue \in Seq(Commands) /\ runner \in [Runners -> RunnerState]
      /\ \A i \in 1 .. Len(queue) : queue[i] \in Commands \ {c}
  BY ConstantsAssumption DEF TypeOK, EntriesOK, QueueOK
<1>2. CASE queue' = Append(queue, c) /\ UNCHANGED runner
  <2>1. /\ Len(queue') = Len(queue) + 1 /\ Len(queue) \in Nat
        /\ \A i \in 1 .. Len(queue) : queue'[i] = queue[i]
        /\ queue'[Len(queue) + 1] = c
    BY <1>1, <1>2
  <2>2. \A i \in 1 .. Len(queue') : i \in 1 .. Len(queue) \/ i = Len(queue) + 1
    BY <2>1
  <2>3. \A d \in Commands, r \in Runners : OnRunner(r, d)' <=> OnRunner(r, d)
    BY <1>2 DEF OnRunner
  <2>4. QueueFlight'
    BY <1>1, <2>1, <2>2, <2>3 DEF FlightInv, QueueFlight
  <2>5. RunnerFlight'
    BY <2>3 DEF FlightInv, RunnerFlight
  <2>6. SenderFlight'
    BY <1>1 DEF FlightInv, SenderFlight
  <2>7. RunningHeld'
    <3> SUFFICES ASSUME NEW d \in running
                 PROVE  \/ \E i \in 1 .. Len(queue') : queue'[i] = d
                        \/ \E r \in Runners : OnRunner(r, d)'
                        \/ \E x \in Clients : FromClient(x, d)'
                        \/ sending' = d
      BY DEF RunningHeld
    <3>1. CASE d = c
      BY <2>1, <3>1
    <3>2. CASE d # c /\ \E i \in 1 .. Len(queue) : queue[i] = d
      BY <2>1, <3>2
    <3> QED BY <1>1, <2>3, <3>1, <3>2 DEF FlightInv, RunningHeld
  <2> QED BY <2>4, <2>5, <2>6, <2>7 DEF FlightInv
<1>3. ASSUME UNCHANGED queue, NEW s \in Spills, runner[s].pc = "idle",
             runner' = [runner EXCEPT ![s] = [pc |-> "gate", cmd |-> c,
             answer |-> Blank]]
      PROVE  FlightInv'
  <2>1. s \in Runners /\ \A d \in Commands : ~OnRunner(s, d)
    BY <1>3 DEF OnRunner, Runners
  <2>2. \A d \in Commands, r \in Runners :
          OnRunner(r, d)' <=> OnRunner(r, d) \/ (r = s /\ d = c)
    BY <1>1, <1>3, <2>1 DEF OnRunner
  <2>3. QueueFlight'
    BY <1>1, <1>3, <2>2 DEF FlightInv, QueueFlight
  <2>4. RunnerFlight'
    BY <1>1, <2>2 DEF FlightInv, RunnerFlight
  <2>5. SenderFlight'
    BY <1>1 DEF FlightInv, SenderFlight
  <2>6. RunningHeld'
    <3> SUFFICES ASSUME NEW d \in running
                 PROVE  \/ \E i \in 1 .. Len(queue) : queue[i] = d
                        \/ \E r \in Runners : OnRunner(r, d)'
                        \/ \E x \in Clients : FromClient(x, d)'
                        \/ sending' = d
      BY <1>3 DEF RunningHeld
    <3>1. CASE d = c
      BY <2>1, <2>2, <3>1
    <3>2. CASE d # c
      BY <1>1, <2>2, <3>2 DEF FlightInv, RunningHeld
    <3> QED BY <3>1, <3>2
  <2> QED BY <2>3, <2>4, <2>5, <2>6 DEF FlightInv
<1> QED BY <1>2, <1>3 DEF Dispatch

\* The worker takes the head of the queue.
LEMMA FlightTake == TypeOK /\ FlightInv /\ Take => FlightInv'
<1> SUFFICES ASSUME TypeOK, FlightInv, Take PROVE FlightInv'
  OBVIOUS
<1> DEFINE c == queue[1]
<1>1. /\ running \subseteq Commands /\ queue \in Seq(Commands)
      /\ runner \in [Runners -> RunnerState] /\ Worker \in Runners
      /\ \A i \in 1 .. Len(queue) : queue[i] \in Commands
  BY DEF TypeOK, EntriesOK, QueueOK, Runners
<1>2. /\ Len(queue) \in Nat /\ Len(queue) > 0 /\ c \in Commands /\ Head(queue) = c
      /\ Len(queue') = Len(queue) - 1
      /\ \A i \in 1 .. Len(queue') : i + 1 \in 1 .. Len(queue) /\ queue'[i] = queue[i + 1]
  BY <1>1 DEF Take
<1>3. \A d \in Commands : ~OnRunner(Worker, d)
  BY DEF Take, OnRunner
<1>4. \A d \in Commands, r \in Runners :
        OnRunner(r, d)' <=> OnRunner(r, d) \/ (r = Worker /\ d = c)
  BY <1>1, <1>2, <1>3 DEF Take, OnRunner
<1>5. \A d \in Commands, x \in Clients : FromClient(x, d)' <=> FromClient(x, d)
  BY DEF Take, clientVars, FromClient
<1>6. UNCHANGED <<running, sending>>
  BY DEF Take, entryVars, refreshVars
<1>7. /\ c \in running /\ sending # c /\ \A x \in Clients : ~FromClient(x, c)
      /\ \A r \in Runners : ~OnRunner(r, c)
      /\ \A i \in 1 .. Len(queue') : queue'[i] # c
  BY <1>2 DEF FlightInv, QueueFlight
<1>8. QueueFlight'
  <2>1. \A i, j \in 1 .. Len(queue') : queue'[i] = queue'[j] => i = j
    BY <1>2 DEF FlightInv, QueueFlight
  <2>2. ASSUME NEW d \in Commands, NEW i \in 1 .. Len(queue'), queue'[i] = d
        PROVE  /\ d \in running' /\ sending' # d
               /\ \A r \in Runners : ~OnRunner(r, d)'
               /\ \A x \in Clients : ~FromClient(x, d)'
    <3>1. d # c /\ queue[i + 1] = d /\ i + 1 \in 1 .. Len(queue)
      BY <1>2, <1>7, <2>2
    <3>2. /\ d \in running /\ sending # d
          /\ \A r \in Runners : ~OnRunner(r, d)
          /\ \A x \in Clients : ~FromClient(x, d)
      BY <3>1 DEF FlightInv, QueueFlight
    <3> QED BY <1>4, <1>5, <1>6, <3>1, <3>2
  <2> QED BY <2>1, <2>2 DEF QueueFlight
<1>9. RunnerFlight'
  BY <1>3, <1>4, <1>5, <1>6, <1>7 DEF FlightInv, RunnerFlight
<1>10. SenderFlight'
  BY <1>5, <1>6 DEF FlightInv, SenderFlight
<1>11. RunningHeld'
  <2> SUFFICES ASSUME NEW d \in running
               PROVE  \/ \E i \in 1 .. Len(queue') : queue'[i] = d
                      \/ \E r \in Runners : OnRunner(r, d)'
                      \/ \E x \in Clients : FromClient(x, d)'
                      \/ sending = d
    BY <1>6 DEF RunningHeld
  <2>1. CASE \E i \in 1 .. Len(queue) : queue[i] = d
    <3> PICK i \in 1 .. Len(queue) : queue[i] = d
      BY <2>1
    <3>1. CASE i = 1
      BY <1>1, <1>2, <1>4, <3>1
    <3>2. CASE i # 1
      <4>1. i - 1 \in 1 .. Len(queue') /\ (i - 1) + 1 = i
        BY <1>2, <3>2
      <4> QED BY <1>2, <4>1
    <3> QED BY <3>1, <3>2
  <2> QED BY <1>1, <1>4, <1>5, <2>1 DEF FlightInv, RunningHeld
<1> QED BY <1>8, <1>9, <1>10, <1>11 DEF FlightInv

\* run's critical section clears the flag of the command the runner held.
LEMMA FlightStore ==
  ASSUME TypeOK, FlightInv, NEW r \in Runners, Store(r)
  PROVE  FlightInv'
<1> DEFINE c == runner[r].cmd
<1>1. /\ running \subseteq Commands /\ c \in Commands
      /\ runner \in [Runners -> RunnerState] /\ runner[r] \in RunnerState
      /\ pc \in [Clients -> FetchStep]
      /\ \A i \in 1 .. Len(queue) : queue[i] \in Commands
  BY DEF TypeOK, EntriesOK, QueueOK, ClientsOK, Store, WokenBy, WaitersTaken
<1>2. OnRunner(r, c) /\ \A d \in Commands : OnRunner(r, d) => d = c
  BY DEF Store, OnRunner, WokenBy, WaitersTaken
<1>3. \A d \in Commands, q \in Runners : OnRunner(q, d)' <=> OnRunner(q, d) /\ q # r
  <2>1. runner'[r].pc \in {"idle", "invalidate"}
    BY <1>1, RunnerStepTo, Records DEF Store, WokenBy, WaitersTaken
  <2>2. \A q \in Runners : q # r => runner'[q] = runner[q]
    BY <1>1 DEF Store, WokenBy, WaitersTaken
  <2> QED BY <2>1, <2>2 DEF OnRunner
<1>4. /\ sending # c /\ \A x \in Clients : ~FromClient(x, c)
      /\ \A q \in Runners : OnRunner(q, c) => q = r
      /\ \A i \in 1 .. Len(queue) : queue[i] # c
  BY <1>1, <1>2 DEF FlightInv, RunnerFlight, QueueFlight
<1>5. \A d \in Commands, x \in Clients : FromClient(x, d)' <=> FromClient(x, d)
  <2>1. \A x \in waiters[c] : pc[x] = "send" => FromClient(x, c)
    BY <1>1 DEF TypeOK, ClientsOK, FromClient
  <2>2. \A x \in Clients : pc'[x] = "send" <=> pc[x] = "send"
    BY <1>1, <1>4, <2>1 DEF Store, WokenBy, WaitersTaken
  <2> QED BY <2>2 DEF FromClient, Store, WokenBy, WaitersTaken
<1>6. running' = running \ {c} /\ UNCHANGED <<queue, sending>>
  BY DEF Store, refreshVars, WokenBy, WaitersTaken
<1>7. QueueFlight'
  BY <1>1, <1>3, <1>4, <1>5, <1>6 DEF FlightInv, QueueFlight
<1>8. RunnerFlight'
  BY <1>1, <1>2, <1>3, <1>4, <1>5, <1>6 DEF FlightInv, RunnerFlight
<1>9. SenderFlight'
  BY <1>1, <1>4, <1>5, <1>6 DEF FlightInv, SenderFlight
<1>10. RunningHeld'
  BY <1>1, <1>2, <1>3, <1>5, <1>6 DEF FlightInv, RunningHeld
<1> QED BY <1>7, <1>8, <1>9, <1>10 DEF FlightInv

LEMMA FlightNext == TypeOK /\ FlightInv /\ [Next]_vars => FlightInv'
<1> SUFFICES ASSUME TypeOK, FlightInv, [Next]_vars PROVE FlightInv'
  OBVIOUS
<1>0. /\ pc \in [Clients -> FetchStep] /\ req \in [Clients -> Request]
      /\ runner \in [Runners -> RunnerState] /\ NoCommand \notin Commands
      /\ running \subseteq Commands /\ sending \in Commands \union {NoCommand}
      /\ \A i \in 1 .. Len(queue) : queue[i] \in Commands
  BY ConstantsAssumption DEF TypeOK, EntriesOK, QueueOK, ClientsOK, RefreshOK
\* Steps of a client that do not start or hand over an execution.
<1>1. ASSUME NEW cl \in Clients, UNCHANGED <<running, queue, sending, runner>>,
             pc[cl] # "send",
             \A x \in Clients \ {cl} : pc'[x] = pc[x] /\ req'[x] = req[x],
             pc'[cl] # "send"
      PROVE  FlightInv'
  <2>1. \A d \in Commands, r \in Runners : OnRunner(r, d)' <=> OnRunner(r, d)
    BY <1>1 DEF OnRunner
  <2>2. \A d \in Commands, x \in Clients : FromClient(x, d)' <=> FromClient(x, d)
    BY <1>1 DEF FromClient
  <2> QED BY <1>1, <2>1, <2>2, FlightSame
<1>2. ASSUME NEW cl \in Clients, EnqueueRun(cl) PROVE FlightInv'
  <2> DEFINE c == req[cl].cmd
  <2>1. c \in Commands /\ req[cl] \in Request
    BY <1>2 DEF TypeOK, ClientsOK, EnqueueRun, NeedsRun, MarkRunning, AddWaiter
  <2>2. \A x \in Clients : req'[x].cmd = req[x].cmd
    <3>1. req' = [req EXCEPT ![cl] = [@ EXCEPT !.force = FALSE]]
      BY <1>2 DEF EnqueueRun, Enqueued, NeedsRun, MarkRunning, AddWaiter
    <3> QED BY <1>0, <2>1, <3>1, RequestUpdates
  <2>3. \A d \in Commands, x \in Clients :
          FromClient(x, d)' <=> FromClient(x, d) \/ (x = cl /\ d = c)
    BY <1>0, <1>2, <2>2 DEF EnqueueRun, Enqueued, FromClient, NeedsRun, MarkRunning,
       AddWaiter
  <2>4. /\ c \notin running /\ running' = running \union {c}
        /\ UNCHANGED <<queue, runner, sending>>
    BY <1>2 DEF EnqueueRun, refreshVars, NeedsRun, MarkRunning, AddWaiter
  <2>5. PICK d \in Commands : d = c
    BY <2>1
  <2> HIDE DEF c
  <2> QED BY <2>3, <2>4, <2>5, FlightStart
<1>3. ASSUME NEW cl \in Clients, Send(cl) PROVE FlightInv'
  <2> DEFINE c == req[cl].cmd
  <2>1. c \in Commands /\ FromClient(cl, c)
    BY <1>3 DEF TypeOK, ClientsOK, Send, FromClient
  <2>2. /\ c \in running /\ sending # c
        /\ \A x \in Clients : FromClient(x, c) => x = cl
        /\ \A r \in Runners : ~OnRunner(r, c)
        /\ \A i \in 1 .. Len(queue) : queue[i] # c
    BY <1>0, <2>1 DEF FlightInv, SenderFlight, RunnerFlight, QueueFlight
  <2>3. \A d \in Commands, x \in Clients : FromClient(x, d)' <=> FromClient(x,
     d) /\ x # cl
    BY <1>0, <1>3 DEF Send, FromClient, AfterEnqueue
  <2>4. UNCHANGED <<running, sending>> /\ Dispatch(c)
    BY <1>3 DEF Send, entryVars, refreshVars
  <2>5. \A d \in Commands : d # c => (FromClient(cl, d) <=> FALSE)
    BY DEF FromClient
  <2>6. PICK d \in Commands : d = c
    BY <2>1
  <2> HIDE DEF c
  <2>7. Dispatch(d)
    BY <2>4, <2>6
  <2> QED BY <1>0, <2>2, <2>3, <2>4, <2>5, <2>6, <2>7, FlightSend
<1>4. ASSUME NEW cl \in Clients, ClientStep(cl) PROVE FlightInv'
  <2>1. ASSUME NEW c \in Commands, NEW f \in BOOLEAN, NEW w \in BOOLEAN,
               FetchStart(cl, c, f, w)
        PROVE  FlightInv'
    BY <1>0, <1>1, <2>1 DEF FetchStart, entryVars, refreshVars, Ready
  <2>2. CASE EnqueueJoin(cl)
    BY <1>0, <1>1, <2>2 DEF EnqueueJoin, Enqueued, AfterEnqueue, refreshVars, AddWaiter
  <2>3. CASE EnqueueFresh(cl)
    BY <1>0, <1>1, <2>3 DEF EnqueueFresh, Enqueued, entryVars, refreshVars
  <2>4. CASE Timeout(cl)
    BY <1>0, <1>1, <2>4 DEF Timeout, refreshVars
  <2>5. CASE Resnapshot(cl)
    BY <1>0, <1>1, <2>5 DEF Resnapshot, entryVars, refreshVars
  <2>6. CASE Return(cl)
    BY <1>0, <1>1, <2>6 DEF Return, entryVars, refreshVars
  <2> QED BY <1>2, <1>3, <1>4, <2>1, <2>2, <2>3, <2>4, <2>5, <2>6 DEF ClientStep,
     Enqueue
\* Everything else: no step but Store touches what these steps are about.
<1>5. ASSUME UNCHANGED <<running, queue, sending, pc, req>>,
             \A d \in Commands, r \in Runners : OnRunner(r, d)' <=> OnRunner(r, d)
      PROVE  FlightInv'
  <2>1. \A d \in Commands, x \in Clients : FromClient(x, d)' <=> FromClient(x, d)
    BY <1>5 DEF FromClient
  <2> QED BY <1>5, <2>1, FlightSame
<1>6. ASSUME NEW r \in Runners, RunnerStep(r) PROVE FlightInv'
  <2>0. runner[r] \in RunnerState
    BY <1>0
  <2>1. CASE Gate(r)
    <3>1. runner'[r].pc = "exec" /\ runner'[r].cmd = runner[r].cmd
          /\ \A q \in Runners : q # r => runner'[q] = runner[q]
      BY <1>0, <2>0, <2>1, RunnerStepTo DEF Gate, Ready
    <3>2. \A d \in Commands, q \in Runners : OnRunner(q, d)' <=> OnRunner(q, d)
      BY <2>1, <3>1 DEF Gate, OnRunner, Ready
    <3> QED BY <1>5, <2>1, <3>2 DEF Gate, entryVars, clientVars, refreshVars, Ready
  <2>2. CASE Execute(r)
    <3>1. runner'[r].pc = "store" /\ runner'[r].cmd = runner[r].cmd
          /\ \A q \in Runners : q # r => runner'[q] = runner[q]
      BY <1>0, <2>0, <2>2 DEF Execute, RunnerState
    <3>2. \A d \in Commands, q \in Runners : OnRunner(q, d)' <=> OnRunner(q, d)
      BY <2>2, <3>1 DEF Execute, OnRunner
    <3> QED BY <1>5, <2>2, <3>2 DEF Execute, entryVars, clientVars, refreshVars
  <2>3. CASE Store(r)
    BY <2>3, FlightStore
  <2>4. CASE InvalidateReadCache(r)
    <3>1. runner'[r].pc = "idle" /\ \A q \in Runners : q # r => runner'[q] = runner[q]
      BY <1>0, <2>4, Records DEF InvalidateReadCache, StampsInvalidated
    <3>2. \A d \in Commands, q \in Runners : OnRunner(q, d)' <=> OnRunner(q, d)
      BY <2>4, <3>1 DEF InvalidateReadCache, OnRunner, StampsInvalidated
    <3> QED BY <1>5, <2>4, <3>2 DEF InvalidateReadCache, clientVars, StampsInvalidated
  <2> QED BY <1>6, <2>1, <2>2, <2>3, <2>4 DEF RunnerStep
<1>7. CASE RefreshStep
  <2>1. ASSUME UNCHANGED <<running, queue, sending, runner, pc, req>> PROVE FlightInv'
    BY <1>5, <2>1 DEF OnRunner
  <2>2. CASE PeriodicRefresh \/ DelayedRefresh \/ InitialRefresh
    BY <2>1, <2>2 DEF PeriodicRefresh, DelayedRefresh, InitialRefresh, entryVars,
       clientVars
  <2>3. CASE RefreshSend
    <3>1. sending \in Commands /\ sending' = NoCommand /\ UNCHANGED <<running, pc, req>>
      BY <1>0, <2>3 DEF RefreshSend, entryVars, clientVars
    <3>2. \A d \in Commands, x \in Clients : FromClient(x, d)' <=> FromClient(x, d)
      BY <3>1 DEF FromClient
    <3>3. /\ sending \in running
          /\ \A x \in Clients : ~FromClient(x, sending)
          /\ \A r \in Runners : ~OnRunner(r, sending)
          /\ \A i \in 1 .. Len(queue) : queue[i] # sending
      BY <1>0, <3>1 DEF FlightInv, SenderFlight, RunnerFlight, QueueFlight
    <3>4. PICK d \in Commands : d = sending
      BY <3>1
    <3>5. Dispatch(d)
      BY <2>3, <3>4 DEF RefreshSend
    <3> QED BY <1>0, <3>1, <3>2, <3>3, <3>4, <3>5, FlightSend
  <2>4. ASSUME NEW c \in Commands, RefreshEnqueue(c) PROVE FlightInv'
    <3>1. CASE c \in running \/ stamp[c] = "fresh"
      BY <2>1, <2>4, <3>1 DEF RefreshEnqueue, clientVars, NeedsRun, MarkRunning
    <3>2. CASE ~(c \in running \/ stamp[c] = "fresh")
      BY <2>4, <3>2, FlightStart DEF RefreshEnqueue, clientVars, NeedsRun, MarkRunning
    <3> QED BY <3>1, <3>2
  <2> QED BY <1>7, <2>2, <2>3, <2>4 DEF RefreshStep
<1>8. ASSUME UNCHANGED <<running, queue, sending, runner, pc, req>> PROVE FlightInv'
  BY <1>5, <1>8 DEF OnRunner
<1>9. ASSUME NEW c \in Commands, Age(c) PROVE FlightInv'
  BY <1>8, <1>9 DEF Age, clientVars, refreshVars
<1>10. CASE BootEnd
  BY <1>8, <1>10 DEF BootEnd, entryVars, clientVars, refreshVars
<1>11. CASE UNCHANGED vars
  BY <1>8, <1>11 DEF vars, entryVars, clientVars, refreshVars
<1> QED
  BY <1>4, <1>6, <1>7, <1>9, <1>10, <1>11, FlightTake DEF Next

LEMMA InitFlight == Init => FlightInv
BY ConstantsAssumption
DEF Init, Idle, FlightInv, QueueFlight, RunnerFlight, SenderFlight, RunningHeld,
    OnRunner, FromClient

LEMMA FlightSingle == TypeOK /\ FlightInv => SingleFlight
<1> SUFFICES ASSUME TypeOK, FlightInv, NEW c \in Commands
             PROVE  /\ c \in running <=> Holders(c) # {}
                    /\ \A x, y \in Holders(c) : x = y
  BY DEF SingleFlight
<1>0. DOMAIN queue = 1 .. Len(queue)
  BY DEF TypeOK, QueueOK
<1>1. CASE c \in running
  <2>1. Holders(c) # {}
    BY <1>0, <1>1 DEF FlightInv, RunningHeld, Holders
  <2>2. ASSUME NEW x \in Holders(c), NEW y \in Holders(c) PROVE x = y
    BY <1>0, <2>2 DEF FlightInv, QueueFlight, RunnerFlight, SenderFlight, Holders
  <2> QED BY <1>1, <2>1, <2>2
<1>2. CASE c \notin running
  BY <1>0, <1>2, ConstantsAssumption
  DEF FlightInv, QueueFlight, RunnerFlight, SenderFlight, Holders
<1> QED BY <1>1, <1>2

\* Single flight, for every number of clients, commands and overflow
\* goroutines: the running flag set by enqueue stands for exactly one execution
\* between there and run, so a command never runs twice at a time and a flag
\* never stays set with nobody left to clear it.
THEOREM SingleFlightCorrect == Spec => []SingleFlight
<1>1. Init => TypeOK /\ FlightInv
  BY InitTypeOK, InitFlight
<1>2. TypeOK /\ FlightInv /\ [Next]_vars => (TypeOK /\ FlightInv)'
  BY NextTypeOK, FlightNext
<1>3. TypeOK /\ FlightInv => SingleFlight
  BY FlightSingle
<1> QED BY <1>1, <1>2, <1>3, PTL DEF Spec

-----------------------------------------------------------------------------
(***************************************************************************)
(* Waiters.  A client that blocks joins the list under the mutex that also *)
(* guards the running flag, before it sends; WaitersCovered is inductive   *)
(* once FlightInv says that a command about to be sent is still running.   *)
(***************************************************************************)
LEMMA InitWaiters == Init => WaitersCovered
BY DEF Init, WaitersCovered, Blocked

\* The lists, the flags and everything Blocked looks at stay.
LEMMA WaitersSame ==
  ASSUME WaitersCovered, UNCHANGED waiters, running \subseteq running',
         \A x \in Clients : /\ Blocked(x)' <=> Blocked(x)
                            /\ Blocked(x) => req'[x].cmd = req[x].cmd
  PROVE  WaitersCovered'
BY DEF WaitersCovered

LEMMA WaitersEnqueued ==
  ASSUME TypeOK, WaitersCovered, NEW cl \in Clients, pc[cl] = "enqueue",
         NEW to, Enqueued(cl, to), running \subseteq running', to # "enqueue",
         \/ UNCHANGED waiters /\ ~(to = "wait" \/ (to = "send" /\ req[cl].block))
         \/ /\ to = "wait" \/ (to = "send" /\ req[cl].block)
            /\ req[cl].cmd \in running'
            /\ waiters' = [waiters EXCEPT ![req[cl].cmd] = @ \union {cl}]
  PROVE  WaitersCovered'
<1>1. /\ pc \in [Clients -> FetchStep] /\ req \in [Clients -> Request]
      /\ waiters \in [Commands -> SUBSET Clients] /\ req[cl].cmd \in Commands
  BY DEF TypeOK, ClientsOK
<1>2. \A x \in Clients : req'[x].cmd = req[x].cmd /\ req'[x].block = req[x].block
  <2>1. req' = [req EXCEPT ![cl] = [@ EXCEPT !.force = FALSE]] /\ req[cl] \in Request
    BY <1>1 DEF Enqueued
  <2> QED BY <1>1, <2>1, RequestUpdates
<1>3. pc'[cl] = to /\ \A x \in Clients : x # cl => pc'[x] = pc[x]
  BY <1>1 DEF Enqueued
<1>4. ~Blocked(cl) /\ \A x \in Clients : x # cl => (Blocked(x)' <=> Blocked(x))
  BY <1>2, <1>3 DEF Blocked
<1>5. Blocked(cl)' <=> (to = "wait" \/ (to = "send" /\ req[cl].block))
  BY <1>2, <1>3 DEF Blocked
<1> QED BY <1>1, <1>2, <1>4, <1>5 DEF WaitersCovered

LEMMA WaitersNext == TypeOK /\ FlightInv /\ WaitersCovered /\ [Next]_vars => WaitersCovered'
<1> SUFFICES ASSUME TypeOK, FlightInv, WaitersCovered, [Next]_vars PROVE WaitersCovered'
  OBVIOUS
<1>0. /\ pc \in [Clients -> FetchStep] /\ req \in [Clients -> Request]
      /\ waiters \in [Commands -> SUBSET Clients]
  BY DEF TypeOK, ClientsOK
\* A step of a client that is not blocked before or after it.
<1>1. ASSUME NEW cl \in Clients, ~Blocked(cl), pc'[cl] \notin {"send", "wait"},
             UNCHANGED <<waiters, running>>,
             \A x \in Clients \ {cl} : pc'[x] = pc[x] /\ req'[x] = req[x]
      PROVE  WaitersCovered'
  BY <1>1, WaitersSame DEF Blocked
\* A step of another goroutine that leaves clients and flags alone.
<1>2. ASSUME UNCHANGED <<waiters, pc, req>>, running \subseteq running'
      PROVE  WaitersCovered'
  BY <1>2, WaitersSame DEF Blocked
<1>3. ASSUME NEW cl \in Clients, ClientStep(cl) PROVE WaitersCovered'
  <2>1. ASSUME NEW c \in Commands, NEW f \in BOOLEAN, NEW w \in BOOLEAN,
               FetchStart(cl, c, f, w)
        PROVE  WaitersCovered'
    BY <1>0, <1>1, <2>1 DEF FetchStart, Blocked, entryVars, Ready
  <2>2. CASE EnqueueJoin(cl)
    BY <2>2, WaitersEnqueued DEF EnqueueJoin, AfterEnqueue, AddWaiter
  <2>3. CASE EnqueueFresh(cl)
    BY <2>3, WaitersEnqueued DEF EnqueueFresh, entryVars
  <2>4. CASE EnqueueRun(cl)
    BY <2>4, WaitersEnqueued DEF EnqueueRun, NeedsRun, MarkRunning, AddWaiter
  <2>5. CASE Send(cl)
    <3>1. \A x \in Clients : Blocked(x)' <=> Blocked(x)
      BY <1>0, <2>5 DEF Send, Blocked, AfterEnqueue
    <3> QED BY <2>5, <3>1, WaitersSame DEF Send, entryVars
  <2>6. CASE Timeout(cl)
    <3>1. Blocked(cl) /\ ~Blocked(cl)' /\ req' = req
          /\ \A x \in Clients : x # cl => (Blocked(x)' <=> Blocked(x))
      BY <1>0, <2>6 DEF Timeout, Blocked
    <3>2. running' = running /\ req[cl].cmd \in Commands
          /\ waiters' = [waiters EXCEPT ![req[cl].cmd] = @ \ {cl}]
      BY <2>6 DEF Timeout, TypeOK, ClientsOK
    <3> QED BY <1>0, <3>1, <3>2 DEF WaitersCovered
  <2>7. CASE Resnapshot(cl)
    BY <1>0, <1>1, <2>7 DEF Resnapshot, Blocked, entryVars
  <2>8. CASE Return(cl)
    BY <1>0, <1>1, <2>8 DEF Return, Blocked, entryVars
  <2> QED BY <1>3, <2>1, <2>2, <2>3, <2>4, <2>5, <2>6, <2>7, <2>8 DEF ClientStep,
     Enqueue
<1>4. ASSUME NEW r \in Runners, RunnerStep(r) PROVE WaitersCovered'
  <2>1. CASE Gate(r)
    BY <1>2, <2>1 DEF Gate, entryVars, clientVars, Ready
  <2>2. CASE Execute(r)
    BY <1>2, <2>2 DEF Execute, entryVars, clientVars
  <2>3. CASE Store(r)
    <3> DEFINE c == runner[r].cmd
    <3>1. /\ c \in Commands /\ OnRunner(r, c)
          /\ waiters' = [waiters EXCEPT ![c] = {}] /\ running' = running \ {c}
          /\ req' = req
          /\ pc' = [x \in Clients |-> IF x \in waiters[c] THEN "woken" ELSE pc[x]]
      BY <2>3 DEF Store, OnRunner, TypeOK, QueueOK, WokenBy, WaitersTaken
    <3>2. \A x \in Clients : Blocked(x)' <=> Blocked(x) /\ x \notin waiters[c]
      BY <3>1 DEF Blocked
    <3>3. \A x \in Clients : x \in waiters[c] <=> Blocked(x) /\ req[x].cmd = c
      BY <3>1 DEF WaitersCovered
    <3> QED BY <1>0, <3>1, <3>2, <3>3 DEF WaitersCovered
  <2>4. CASE InvalidateReadCache(r)
    BY <1>2, <2>4 DEF InvalidateReadCache, clientVars, StampsInvalidated
  <2> QED BY <1>4, <2>1, <2>2, <2>3, <2>4 DEF RunnerStep
<1>5. CASE RefreshStep
  <2>1. ASSUME NEW c \in Commands, RefreshEnqueue(c) PROVE WaitersCovered'
    BY <1>2, <2>1 DEF RefreshEnqueue, clientVars, NeedsRun, MarkRunning
  <2>2. CASE PeriodicRefresh \/ DelayedRefresh \/ InitialRefresh \/ RefreshSend
    BY <1>2, <2>2 DEF PeriodicRefresh, DelayedRefresh, InitialRefresh, RefreshSend,
       entryVars, clientVars
  <2> QED BY <1>5, <2>1, <2>2 DEF RefreshStep
<1>6. CASE Take \/ (\E c \in Commands : Age(c)) \/ BootEnd \/ UNCHANGED vars
  BY <1>2, <1>6 DEF Take, Age, BootEnd, vars, entryVars, clientVars
<1> QED BY <1>3, <1>4, <1>5, <1>6 DEF Next

\* No lost wakeup: whoever blocks in Fetch is on the waiter list of an entry
\* that is still running, so the Store that clears the flag will wake it.
THEOREM WaitersCoveredCorrect == Spec => []WaitersCovered
<1>1. Init => TypeOK /\ FlightInv /\ WaitersCovered
  BY InitTypeOK, InitFlight, InitWaiters
<1>2. TypeOK /\ FlightInv /\ WaitersCovered /\ [Next]_vars
        => (TypeOK /\ FlightInv /\ WaitersCovered)'
  BY NextTypeOK, FlightNext, WaitersNext
<1> QED BY <1>1, <1>2, PTL DEF Spec

-----------------------------------------------------------------------------
(***************************************************************************)
(* The cache implements RequestCoalescer: EnqueueRun and RefreshEnqueue    *)
(* start an execution, EnqueueJoin joins it, Timeout gives up, Store       *)
(* completes it, and every other step is a stutter.                        *)
(***************************************************************************)
LEMMA CoalescerInit == Init => Coalescer!Init
BY DEF Init, Coalescer!Init, WaitingFor, Blocked

LEMMA CoalescerStutter ==
  ASSUME UNCHANGED running,
         \A x \in Clients : /\ Blocked(x)' <=> Blocked(x)
                            /\ Blocked(x) => req'[x].cmd = req[x].cmd
  PROVE  UNCHANGED Coalescer!vars
BY DEF Coalescer!vars, WaitingFor

\* enqueue, with the reasons for which a client may be blocked after it.
LEMMA CoalescerEnqueued ==
  ASSUME TypeOK, NEW cl \in Clients, pc[cl] = "enqueue", NEW to,
         to # "enqueue", Enqueued(cl, to)
  PROVE  /\ req[cl].cmd \in Commands /\ WaitingFor[cl] = NoCommand
         /\ WaitingFor' = IF to = "wait" \/ (to = "send" /\ req[cl].block)
                          THEN [WaitingFor EXCEPT ![cl] = req[cl].cmd]
                          ELSE WaitingFor
<1>1. /\ pc \in [Clients -> FetchStep] /\ req \in [Clients -> Request]
      /\ req[cl].cmd \in Commands
  BY DEF TypeOK, ClientsOK
<1>2. \A x \in Clients : req'[x].cmd = req[x].cmd /\ req'[x].block = req[x].block
  <2>1. req' = [req EXCEPT ![cl] = [@ EXCEPT !.force = FALSE]] /\ req[cl] \in Request
    BY <1>1 DEF Enqueued
  <2> QED BY <1>1, <2>1, RequestUpdates
<1>3. pc'[cl] = to /\ \A x \in Clients : x # cl => pc'[x] = pc[x]
  BY <1>1 DEF Enqueued
<1>4. /\ \A x \in Clients : x # cl => (Blocked(x)' <=> Blocked(x))
      /\ Blocked(cl)' <=> (to = "wait" \/ (to = "send" /\ req[cl].block))
  BY <1>2, <1>3 DEF Blocked
<1>5. ~Blocked(cl)
  BY DEF Blocked
<1> QED BY <1>1, <1>2, <1>4, <1>5 DEF WaitingFor

LEMMA CoalescerClient ==
  ASSUME TypeOK, NEW cl \in Clients, ClientStep(cl)
  PROVE  [Coalescer!Next]_Coalescer!vars
<1>0. pc \in [Clients -> FetchStep] /\ req \in [Clients -> Request]
  BY DEF TypeOK, ClientsOK
<1>1. ASSUME ~Blocked(cl), pc'[cl] \notin {"send", "wait"}, UNCHANGED running,
             \A x \in Clients \ {cl} : pc'[x] = pc[x] /\ req'[x] = req[x]
      PROVE  UNCHANGED Coalescer!vars
  BY <1>1, CoalescerStutter DEF Blocked
<1>2. ASSUME NEW c \in Commands, NEW f \in BOOLEAN, NEW w \in BOOLEAN,
             FetchStart(cl, c, f, w)
      PROVE  UNCHANGED Coalescer!vars
  BY <1>0, <1>1, <1>2 DEF FetchStart, Blocked, entryVars, Ready
<1>3. CASE EnqueueJoin(cl)
  <2> DEFINE k == req[cl].cmd
  <2>1. /\ k \in Commands /\ k \in running /\ UNCHANGED running
        /\ WaitingFor[cl] = NoCommand
        /\ \/ WaitingFor' = [WaitingFor EXCEPT ![cl] = k]
           \/ UNCHANGED WaitingFor
    BY <1>3, CoalescerEnqueued DEF EnqueueJoin, AfterEnqueue, AddWaiter
  <2>2. CASE WaitingFor' = [WaitingFor EXCEPT ![cl] = k]
    BY <2>1, <2>2 DEF Coalescer!Next, Coalescer!Join
  <2>3. CASE UNCHANGED WaitingFor
    BY <2>1, <2>3 DEF Coalescer!vars
  <2> QED BY <2>1, <2>2, <2>3
<1>4. CASE EnqueueFresh(cl)
  <2>1. UNCHANGED <<running, WaitingFor>>
    BY <1>4, CoalescerEnqueued DEF EnqueueFresh, entryVars
  <2> QED BY <2>1 DEF Coalescer!vars
<1>5. CASE EnqueueRun(cl)
  <2> DEFINE k == req[cl].cmd
  <2>1. /\ k \in Commands /\ k \notin running /\ running' = running \union {k}
        /\ WaitingFor[cl] = NoCommand
        /\ \/ WaitingFor' = [WaitingFor EXCEPT ![cl] = k]
           \/ UNCHANGED WaitingFor
    BY <1>5, CoalescerEnqueued DEF EnqueueRun, NeedsRun, MarkRunning, AddWaiter
  <2>2. Coalescer!Start(k)
    BY <2>1 DEF Coalescer!Start
  <2> QED BY <2>1, <2>2 DEF Coalescer!Next
<1>6. CASE Send(cl)
  <2>1. \A x \in Clients : Blocked(x)' <=> Blocked(x)
    BY <1>0, <1>6 DEF Send, Blocked, AfterEnqueue
  <2> QED BY <1>6, <2>1, CoalescerStutter DEF Send, entryVars
<1>7. CASE Timeout(cl)
  <2>1. Blocked(cl) /\ ~Blocked(cl)' /\ req' = req /\ running' = running
        /\ \A x \in Clients : x # cl => (Blocked(x)' <=> Blocked(x))
    BY <1>0, <1>7 DEF Timeout, Blocked
  <2>2. req[cl].cmd \in Commands /\ NoCommand \notin Commands
    BY <1>7, ConstantsAssumption DEF Timeout, TypeOK, ClientsOK
  <2>3. Coalescer!GiveUp(cl)
    BY <2>1, <2>2 DEF Coalescer!GiveUp, WaitingFor
  <2> QED BY <2>3 DEF Coalescer!Next
<1>8. CASE Resnapshot(cl)
  BY <1>0, <1>1, <1>8 DEF Resnapshot, Blocked, entryVars
<1>9. CASE Return(cl)
  BY <1>0, <1>1, <1>9 DEF Return, Blocked, entryVars
<1> QED BY <1>2, <1>3, <1>4, <1>5, <1>6, <1>7, <1>8, <1>9 DEF ClientStep, Enqueue

LEMMA CoalescerRunner ==
  ASSUME TypeOK, FlightInv, WaitersCovered, NEW r \in Runners, RunnerStep(r)
  PROVE  [Coalescer!Next]_Coalescer!vars
<1>1. CASE Gate(r) \/ Execute(r) \/ InvalidateReadCache(r)
  <2>1. UNCHANGED <<running, pc, req>>
    BY <1>1 DEF Gate, Execute, InvalidateReadCache, entryVars, clientVars, Ready,
       StampsInvalidated
  <2> QED BY <2>1, CoalescerStutter DEF Blocked
<1>2. CASE Store(r)
  <2> DEFINE c == runner[r].cmd
  <2>1. /\ c \in Commands /\ OnRunner(r, c) /\ running' = running \ {c} /\ req' = req
        /\ pc' = [x \in Clients |-> IF x \in waiters[c] THEN "woken" ELSE pc[x]]
    BY <1>2 DEF Store, OnRunner, TypeOK, QueueOK, WokenBy, WaitersTaken
  <2>2. c \in running /\ NoCommand \notin Commands
    BY <2>1, ConstantsAssumption DEF FlightInv, RunnerFlight
  <2>3. \A x \in Clients : x \in waiters[c] <=> Blocked(x) /\ req[x].cmd = c
    BY <2>1 DEF WaitersCovered
  <2>4. \A x \in Clients : Blocked(x)' <=> Blocked(x) /\ x \notin waiters[c]
    BY <2>1 DEF Blocked
  <2>5. WaitingFor' = [x \in Clients |-> IF WaitingFor[x] = c THEN NoCommand ELSE WaitingFor[x]]
    BY <2>1, <2>2, <2>3, <2>4 DEF WaitingFor
  <2>6. Coalescer!Complete(c)
    BY <2>1, <2>2, <2>5 DEF Coalescer!Complete
  <2> QED BY <2>1, <2>6 DEF Coalescer!Next
<1> QED BY <1>1, <1>2 DEF RunnerStep

LEMMA CoalescerNext ==
  TypeOK /\ FlightInv /\ WaitersCovered /\ [Next]_vars => [Coalescer!Next]_Coalescer!vars
<1> SUFFICES ASSUME TypeOK, FlightInv, WaitersCovered, [Next]_vars
             PROVE  [Coalescer!Next]_Coalescer!vars
  OBVIOUS
<1>1. ASSUME UNCHANGED <<running, pc, req>> PROVE UNCHANGED Coalescer!vars
  BY <1>1, CoalescerStutter DEF Blocked
<1>2. ASSUME NEW c \in Commands, RefreshEnqueue(c) PROVE [Coalescer!Next]_Coalescer!vars
  <2>1. CASE UNCHANGED running
    BY <1>1, <1>2, <2>1 DEF RefreshEnqueue, clientVars, NeedsRun, MarkRunning
  <2>2. CASE c \notin running /\ running' = running \union {c}
    <3>1. UNCHANGED WaitingFor
      BY <1>2 DEF RefreshEnqueue, clientVars, WaitingFor, Blocked, NeedsRun, MarkRunning
    <3> QED BY <2>2, <3>1 DEF Coalescer!Next, Coalescer!Start
  <2> QED BY <1>2, <2>1, <2>2 DEF RefreshEnqueue, NeedsRun, MarkRunning
<1>3. CASE PeriodicRefresh \/ DelayedRefresh \/ InitialRefresh \/ RefreshSend
  BY <1>1, <1>3 DEF PeriodicRefresh, DelayedRefresh, InitialRefresh, RefreshSend,
     entryVars, clientVars
<1>4. CASE Take \/ (\E c \in Commands : Age(c)) \/ BootEnd \/ UNCHANGED vars
  BY <1>1, <1>4 DEF Take, Age, BootEnd, vars, entryVars, clientVars
<1> QED
  BY <1>2, <1>3, <1>4, CoalescerClient, CoalescerRunner DEF Next, RefreshStep

\* Refinement: every behaviour of the cache, its waiter lists and its queue is
\* a behaviour of the single-flight promise, so a caller waits for nothing but
\* an execution in flight, and the end of it releases all who wait at once.
THEOREM ImplementsCoalescer == Spec => Coalescer!Spec
<1>1. Init => TypeOK /\ FlightInv /\ WaitersCovered
  BY InitTypeOK, InitFlight, InitWaiters
<1>2. TypeOK /\ FlightInv /\ WaitersCovered /\ [Next]_vars
        => (TypeOK /\ FlightInv /\ WaitersCovered)'
  BY NextTypeOK, FlightNext, WaitersNext
<1> QED BY <1>1, <1>2, CoalescerInit, CoalescerNext, PTL DEF Spec, Coalescer!Spec

-----------------------------------------------------------------------------
(***************************************************************************)
(* The boot grace period.  Fetch decides whether to block when it starts,  *)
(* the worker whether to wait when it takes the command: the period only   *)
(* ever ends, so neither decision is overtaken.                            *)
(***************************************************************************)
BlockedBypass ==
  \A cl \in Clients : /\ pc[cl] \in {"wait", "woken"} => req[cl].block
                      /\ booting /\ req[cl].block => Bypass(req[cl].cmd)

LEMMA InitBoot == Init => BootProtection /\ BlockedBypass
BY DEF Init, Idle, NoReq, BootProtection, BlockedBypass

LEMMA BootProtectionNext == TypeOK /\ BootProtection /\ [Next]_vars => BootProtection'
<1> SUFFICES ASSUME TypeOK, BootProtection, [Next]_vars PROVE BootProtection'
  OBVIOUS
<1>0. runner \in [Runners -> RunnerState] /\ Worker \in Runners /\ Spills \subseteq Runners
  BY DEF TypeOK, QueueOK, Runners
<1>1. ASSUME UNCHANGED runner, booting' => booting PROVE BootProtection'
  BY <1>1 DEF BootProtection
<1>2. ASSUME NEW c \in Commands, Dispatch(c), UNCHANGED booting PROVE BootProtection'
  BY <1>0, <1>2 DEF Dispatch, BootProtection
<1>3. CASE Take
  BY <1>0, <1>3 DEF Take, BootProtection
<1>4. ASSUME NEW cl \in Clients, ClientStep(cl) PROVE BootProtection'
  <2>1. CASE Send(cl)
    BY <1>2, <2>1 DEF Send, TypeOK, ClientsOK
  <2>2. CASE ~Send(cl)
    <3>1. UNCHANGED <<runner, booting>>
      BY <1>4, <2>2 DEF ClientStep, Enqueue, FetchStart, EnqueueJoin, EnqueueFresh,
         EnqueueRun, Timeout, Resnapshot, Return, NeedsRun, MarkRunning, AddWaiter,
         Ready
    <3> QED BY <1>1, <3>1
  <2> QED BY <2>1, <2>2
<1>5. ASSUME NEW r \in Runners, RunnerStep(r) PROVE BootProtection'
  <2>1. UNCHANGED booting /\ \A q \in Runners : q # r => runner'[q] = runner[q]
    BY <1>0, <1>5 DEF RunnerStep, Gate, Execute, Store, InvalidateReadCache,
       refreshVars,
       Ready, WokenBy, WaitersTaken, StampsInvalidated
  <2>2. /\ runner'[r].pc \in {"exec", "store"} => runner'[r].cmd = runner[r].cmd
        /\ runner'[r].pc = "exec" => Bypass(runner[r].cmd) \/ ~booting
        /\ runner'[r].pc = "store" => runner[r].pc = "exec"
    <3>1. CASE Gate(r) \/ Execute(r)
      BY <1>0, <3>1 DEF Gate, Execute, RunnerState, Ready
    <3>2. CASE Store(r) \/ InvalidateReadCache(r)
      BY <1>0, <3>2, RunnerStepTo, Records DEF Store, InvalidateReadCache, WokenBy,
         WaitersTaken, StampsInvalidated
    <3> QED BY <1>5, <3>1, <3>2 DEF RunnerStep
  <2> QED BY <2>1, <2>2 DEF BootProtection
<1>6. CASE RefreshStep
  <2>1. CASE RefreshSend
    BY <1>2, <2>1 DEF RefreshSend, TypeOK, RefreshOK
  <2>2. CASE ~RefreshSend
    BY <1>1, <1>6, <2>2 DEF RefreshStep, PeriodicRefresh, DelayedRefresh,
       InitialRefresh, RefreshEnqueue, NeedsRun, MarkRunning
  <2> QED BY <2>1, <2>2
<1>7. CASE (\E c \in Commands : Age(c)) \/ BootEnd \/ UNCHANGED vars
  BY <1>1, <1>7 DEF Age, BootEnd, vars
<1> QED BY <1>3, <1>4, <1>5, <1>6, <1>7 DEF Next

LEMMA BlockedBypassNext == TypeOK /\ BlockedBypass /\ [Next]_vars => BlockedBypass'
<1> SUFFICES ASSUME TypeOK, BlockedBypass, [Next]_vars PROVE BlockedBypass'
  OBVIOUS
<1>0. /\ pc \in [Clients -> FetchStep] /\ req \in [Clients -> Request]
      /\ waiters \in [Commands -> SUBSET Clients]
  BY DEF TypeOK, ClientsOK
<1>1. ASSUME UNCHANGED <<pc, req>>, booting' => booting PROVE BlockedBypass'
  BY <1>1 DEF BlockedBypass
<1>2. ASSUME NEW cl \in Clients, ClientStep(cl) PROVE BlockedBypass'
  <2>1. ASSUME NEW c \in Commands, NEW f \in BOOLEAN, NEW w \in BOOLEAN,
               FetchStart(cl, c, f, w)
        PROVE  BlockedBypass'
    <3>1. /\ pc'[cl] \in {"enqueue", "return"} /\ UNCHANGED booting
          /\ req'[cl].cmd = c /\ (booting /\ req'[cl].block => Bypass(c))
          /\ \A x \in Clients : x # cl => pc'[x] = pc[x] /\ req'[x] = req[x]
      BY <1>0, <2>1 DEF FetchStart, Ready
    <3> QED BY <3>1 DEF BlockedBypass
  <2>2. ASSUME NEW to \in FetchStep, Enqueued(cl, to), UNCHANGED booting,
               to \in {"wait", "woken"} => req[cl].block
        PROVE  BlockedBypass'
    <3>1. req' = [req EXCEPT ![cl] = [@ EXCEPT !.force = FALSE]] /\ req[cl] \in Request
      BY <1>0, <2>2 DEF Enqueued
    <3>2. \A x \in Clients : req'[x].cmd = req[x].cmd /\ req'[x].block = req[x].block
      BY <1>0, <3>1, RequestUpdates
    <3>3. pc'[cl] = to /\ \A x \in Clients : x # cl => pc'[x] = pc[x]
      BY <1>0, <2>2 DEF Enqueued
    <3> QED BY <2>2, <3>2, <3>3 DEF BlockedBypass
  <2>3. CASE Enqueue(cl)
    BY <2>2, <2>3 DEF Enqueue, EnqueueJoin, EnqueueFresh, EnqueueRun, AfterEnqueue,
       FetchStep,
       NeedsRun, MarkRunning, AddWaiter
  <2>4. CASE Send(cl) \/ Timeout(cl)
    <3>1. /\ UNCHANGED <<req, booting>>
          /\ pc'[cl] \in {"wait", "woken"} => req[cl].block
          /\ \A x \in Clients : x # cl => pc'[x] = pc[x]
      BY <1>0, <2>4 DEF Send, Timeout, AfterEnqueue, BlockedBypass
    <3> QED BY <3>1 DEF BlockedBypass
  <2>5. CASE Resnapshot(cl) \/ Return(cl)
    <3>1. /\ UNCHANGED booting /\ pc'[cl] \in {"idle", "return"} /\ ~req'[cl].block
          /\ \A x \in Clients : x # cl => pc'[x] = pc[x] /\ req'[x] = req[x]
      BY <1>0, <2>5 DEF Resnapshot, Return, NoReq, Request
    <3> QED BY <3>1 DEF BlockedBypass
  <2> QED BY <1>2, <2>1, <2>3, <2>4, <2>5 DEF ClientStep
<1>3. ASSUME NEW r \in Runners, Store(r) PROVE BlockedBypass'
  <2>1. \A x \in waiters[runner[r].cmd] : x \in Clients /\ req[x].block
    BY <1>3 DEF Store, TypeOK, ClientsOK, QueueOK, WokenBy, WaitersTaken
  <2> QED BY <1>0, <1>3, <2>1 DEF Store, BlockedBypass, WokenBy, WaitersTaken
<1>4. ASSUME NEW r \in Runners, RunnerStep(r) PROVE BlockedBypass'
  BY <1>1, <1>3, <1>4 DEF RunnerStep, Gate, Execute, InvalidateReadCache, clientVars,
     Ready, StampsInvalidated
<1>5. CASE Take \/ RefreshStep \/ (\E c \in Commands : Age(c)) \/ BootEnd \/ UNCHANGED vars
  BY <1>1, <1>5 DEF Take, RefreshStep, PeriodicRefresh, DelayedRefresh, InitialRefresh,
     RefreshSend, RefreshEnqueue, Age, BootEnd, vars, clientVars, NeedsRun, MarkRunning
<1> QED BY <1>2, <1>4, <1>5 DEF Next

\* The boot grace period holds whichever goroutine runs a read: until it has
\* ended no read that does not bypass it is at the AT port, and no page request
\* waits for such a read (at_cache.go, README.md:625).
THEOREM BootGraceCorrect == Spec => []BootGrace
<1>1. BootProtection /\ BlockedBypass => BootGrace
  BY DEF BlockedBypass, NoPageHangsAtBoot, BootGrace
<1> QED BY <1>1, InitBoot, InitTypeOK, NextTypeOK, BootProtectionNext, BlockedBypassNext, PTL DEF Spec

-----------------------------------------------------------------------------
(***************************************************************************)
(* Coherence.  When the queue is at least as deep as there are commands,   *)
(* the worker runs every command, and then an entry that shows a time      *)
(* stamp shows what the modem says.                                        *)
(***************************************************************************)

\* A queue of distinct commands that lacks one of them is not full.
LEMMA QueueHasRoom ==
  ASSUME NEW S, IsFiniteSet(S), NEW q \in Seq(S), NEW c \in S,
         \A i, j \in 1 .. Len(q) : q[i] = q[j] => i = j,
         \A i \in 1 .. Len(q) : q[i] # c
  PROVE  Len(q) < Cardinality(S)
<1> DEFINE T == S \ {c}
           D == 1 .. Len(q)
<1>1. /\ IsFiniteSet(T) /\ Cardinality(T) = Cardinality(S) - 1
      /\ Cardinality(S) \in Nat
  BY FS_RemoveElement, FS_CardinalityType
<1>2. Len(q) \in Nat /\ q \in [D -> T]
  OBVIOUS
<1>3. q \in Injection(D, T)
  BY <1>2 DEF Injection, IsInjective
<1>4. Cardinality(D) <= Cardinality(T)
  BY <1>1, <1>3, FS_Injection
<1>5. Cardinality(D) = Len(q)
  BY <1>2, FS_Interval
<1> QED BY <1>1, <1>2, <1>4, <1>5

-----------------------------------------------------------------------------
DeepQueue == IsFiniteSet(Commands) /\ Cardinality(Commands) <= QueueCap

\* Whoever sends finds a place in the queue.
LEMMA DispatchQueues ==
  ASSUME DeepQueue, TypeOK, FlightInv, NEW c \in Commands, Dispatch(c),
         \A i \in 1 .. Len(queue) : queue[i] # c
  PROVE  UNCHANGED runner
<1>1. queue \in Seq(Commands) /\ QueueCap \in Nat
      /\ \A i, j \in 1 .. Len(queue) : queue[i] = queue[j] => i = j
  BY ConstantsAssumption DEF TypeOK, QueueOK, FlightInv, QueueFlight
<1>2. Len(queue) < Cardinality(Commands)
  BY <1>1, QueueHasRoom DEF DeepQueue
<1>3. Len(queue) < QueueCap
  BY <1>1, <1>2, FS_CardinalityType DEF DeepQueue
<1> QED BY <1>1, <1>3 DEF Dispatch

LEMMA OverflowNext ==
  ASSUME DeepQueue, TypeOK, FlightInv, NoOverflow, [Next]_vars
  PROVE  NoOverflow'
<1>0. /\ runner \in [Runners -> RunnerState] /\ Worker \notin Spills
      /\ Spills \subseteq Runners
  BY ConstantsAssumption DEF TypeOK, QueueOK, Runners
<1>1. ASSUME NEW cl \in Clients, ClientStep(cl) PROVE UNCHANGED runner
  <2>1. CASE Send(cl)
    <3>1. /\ FromClient(cl, req[cl].cmd) /\ req[cl].cmd \in Commands
          /\ Dispatch(req[cl].cmd)
      BY <2>1 DEF Send, FromClient, TypeOK, ClientsOK
    <3>2. \A i \in 1 .. Len(queue) : queue[i] # req[cl].cmd
      BY <3>1 DEF FlightInv, QueueFlight
    <3> QED BY <3>1, <3>2, DispatchQueues
  <2>2. CASE ~Send(cl)
    BY <1>1, <2>2 DEF ClientStep, Enqueue, FetchStart, EnqueueJoin, EnqueueFresh,
       EnqueueRun, Timeout, Resnapshot, Return, NeedsRun, MarkRunning, AddWaiter, Ready
  <2> QED BY <2>1, <2>2
<1>2. CASE RefreshStep
  <2>1. CASE RefreshSend
    <3>1. sending \in Commands /\ Dispatch(sending)
      BY <2>1 DEF RefreshSend, TypeOK, RefreshOK
    <3>2. \A i \in 1 .. Len(queue) : queue[i] # sending
      BY <3>1 DEF FlightInv, QueueFlight
    <3>3. UNCHANGED runner
      BY <3>1, <3>2, DispatchQueues
    <3> QED BY <3>3 DEF NoOverflow
  <2>2. CASE ~RefreshSend
    <3>1. UNCHANGED runner
      BY <1>2, <2>2 DEF RefreshStep, PeriodicRefresh, DelayedRefresh, InitialRefresh,
         RefreshEnqueue, NeedsRun, MarkRunning
    <3> QED BY <3>1 DEF NoOverflow
  <2> QED BY <2>1, <2>2
<1>3. CASE Take
  BY <1>0, <1>3 DEF Take, NoOverflow
<1>4. ASSUME NEW r \in Runners, RunnerStep(r) PROVE NoOverflow'
  <2>1. r \notin Spills
    BY <1>4 DEF NoOverflow, RunnerStep, Gate, Execute, Store, InvalidateReadCache,
       Ready, WokenBy, WaitersTaken, StampsInvalidated
  <2>2. \A s \in Spills : runner'[s] = runner[s]
    BY <1>0, <1>4, <2>1 DEF RunnerStep, Gate, Execute, Store, InvalidateReadCache,
       Ready, WokenBy, WaitersTaken, StampsInvalidated
  <2> QED BY <2>2 DEF NoOverflow
<1>5. CASE (\E c \in Commands : Age(c)) \/ BootEnd \/ UNCHANGED vars
  BY <1>5 DEF Age, BootEnd, vars, NoOverflow
<1> QED BY <1>1, <1>2, <1>3, <1>4, <1>5 DEF Next, NoOverflow

\* Overflow goroutines are never needed while there are no more commands than
\* places in the queue, whatever the number of clients.
THEOREM NoOverflowCorrect == DeepQueue => (Spec => []NoOverflow)
<1> SUFFICES ASSUME DeepQueue PROVE Spec => []NoOverflow
  OBVIOUS
<1>1. Init => NoOverflow
  BY DEF Init, Idle, NoOverflow, Runners
<1>2. TypeOK /\ FlightInv /\ NoOverflow /\ [Next]_vars => NoOverflow'
  BY OverflowNext
<1> QED BY <1>1, <1>2, InitTypeOK, NextTypeOK, InitFlight, FlightNext, PTL DEF Spec

-----------------------------------------------------------------------------
\* The answer the worker holds for a read is what the modem says now: nothing
\* but the worker reaches the modem.
AnswerCurrent ==
  runner[Worker].pc = "store" /\ runner[Worker].cmd \notin Actions
    /\ runner[Worker].answer.kind = "ok"
    => runner[Worker].answer.ver = modem

CoherentInv == AnswerCurrent /\ CoherentWhenSettled

\* Steps that touch neither the modem nor a value.
LEMMA CoherentSame ==
  ASSUME CoherentInv, UNCHANGED <<modem, value, runner>>, running \subseteq running',
         \A c \in Commands : stamp[c] = "never" => stamp'[c] = "never"
  PROVE  CoherentInv'
BY DEF CoherentInv, AnswerCurrent, CoherentWhenSettled, ActionSettling

LEMMA CoherentNext ==
  ASSUME TypeOK, FlightInv, NoOverflow, NoOverflow', CoherentInv, [Next]_vars
  PROVE  CoherentInv'
<1>0. /\ runner \in [Runners -> RunnerState] /\ Worker \in Runners
      /\ runner[Worker] \in RunnerState
      /\ stamp \in [Commands -> {"never", "fresh", "expired"}]
      /\ value \in [Commands -> Answer \union {Blank}]
      /\ \A r \in Runners : runner[r].pc # "idle" => r = Worker /\ runner[r].cmd \in Commands
  BY DEF TypeOK, QueueOK, EntriesOK, Runners, NoOverflow
\* The runner of any action that has not settled is the worker.
<1>1. ActionSettling <=> /\ runner[Worker].cmd \in Actions
                         /\ runner[Worker].pc \in {"store", "invalidate"}
  BY <1>0 DEF ActionSettling
<1>2. (ActionSettling <=> /\ runner[Worker].cmd \in Actions
                          /\ runner[Worker].pc \in {"store", "invalidate"})'
  BY DEF ActionSettling, Runners, NoOverflow
<1>3. ASSUME NEW cl \in Clients, ClientStep(cl) PROVE CoherentInv'
  <2>1. CASE Send(cl)
    <3>1. UNCHANGED <<modem, value, stamp, running>> /\ runner'[Worker] = runner[Worker]
      BY <1>0, <2>1, ConstantsAssumption DEF Send, Dispatch, entryVars
    <3> QED BY <1>1, <1>2, <3>1 DEF CoherentInv, AnswerCurrent, CoherentWhenSettled
  <2>2. CASE ~Send(cl)
    <3>1. UNCHANGED <<modem, value, runner, stamp>> /\ running \subseteq running'
      BY <1>3, <2>2 DEF ClientStep, Enqueue, FetchStart, EnqueueJoin, EnqueueFresh,
         EnqueueRun, Timeout, Resnapshot, Return, entryVars,
         NeedsRun, MarkRunning, AddWaiter, Ready
    <3> QED BY <3>1, CoherentSame
  <2> QED BY <2>1, <2>2
<1>4. CASE RefreshStep
  <2>1. CASE RefreshSend
    <3>1. UNCHANGED <<modem, value, stamp, running>> /\ runner'[Worker] = runner[Worker]
      BY <1>0, <2>1, ConstantsAssumption DEF RefreshSend, Dispatch, entryVars
    <3> QED BY <1>1, <1>2, <3>1 DEF CoherentInv, AnswerCurrent, CoherentWhenSettled
  <2>2. CASE ~RefreshSend
    <3>1. UNCHANGED <<modem, value, runner, stamp>> /\ running \subseteq running'
      BY <1>4, <2>2 DEF RefreshStep, PeriodicRefresh, DelayedRefresh, InitialRefresh,
         RefreshEnqueue, entryVars, NeedsRun, MarkRunning
    <3> QED BY <3>1, CoherentSame
  <2> QED BY <2>1, <2>2
<1>5. CASE Take
  <2>1. UNCHANGED <<modem, value, stamp, running>> /\ runner'[Worker].pc = "gate"
        /\ runner[Worker].pc = "idle"
    BY <1>0, <1>5 DEF Take, entryVars
  <2> QED BY <1>1, <1>2, <2>1 DEF CoherentInv, AnswerCurrent, CoherentWhenSettled
<1>6. ASSUME NEW r \in Runners, RunnerStep(r) PROVE CoherentInv'
  <2>0. r = Worker /\ runner[Worker].cmd \in Commands
    BY <1>0, <1>6 DEF RunnerStep, Gate, Execute, Store, InvalidateReadCache,
       Ready, WokenBy, WaitersTaken, StampsInvalidated
  <2>1. CASE Gate(r)
    <3>1. UNCHANGED <<modem, value, stamp, running>> /\ runner'[Worker].pc = "exec"
          /\ runner[Worker].pc = "gate"
      BY <1>0, <2>0, <2>1 DEF Gate, entryVars, RunnerState, Ready
    <3> QED BY <1>1, <1>2, <3>1 DEF CoherentInv, AnswerCurrent, CoherentWhenSettled
  <2>2. CASE Execute(r)
    <3>1. /\ UNCHANGED <<value, stamp, running>>
          /\ runner[Worker].pc = "exec" /\ runner'[Worker].pc = "store"
          /\ runner'[Worker].cmd = runner[Worker].cmd
          /\ runner'[Worker].answer \in {Ok(modem'), Failed}
          /\ runner[Worker].cmd \notin Actions => modem' = modem
      BY <1>0, <2>0, <2>2 DEF Execute, RunnerState, entryVars
    <3>2. AnswerCurrent'
      BY <3>1 DEF AnswerCurrent, Ok, Failed
    <3>3. CoherentWhenSettled'
      BY <1>1, <1>2, <3>1 DEF CoherentInv, CoherentWhenSettled
    <3> QED BY <3>2, <3>3 DEF CoherentInv
  <2>3. CASE Store(r)
    <3> DEFINE c == runner[Worker].cmd
    <3>1. /\ UNCHANGED modem /\ c \in Commands /\ runner[Worker].pc = "store"
          /\ running' = running \ {c}
          /\ value' = [value EXCEPT ![c] = runner[Worker].answer]
          /\ \A d \in Commands : d # c => stamp'[d] = stamp[d]
      BY <1>0, <2>0, <2>3 DEF Store, WokenBy, WaitersTaken
    <3>2. CASE c \in Actions
      <4>1. runner'[Worker].pc = "invalidate" /\ runner'[Worker].cmd = c
        BY <1>0, <2>0, <2>3, <3>2, RunnerStepTo DEF Store, WokenBy, WaitersTaken
      <4> QED BY <1>2, <3>2, <4>1 DEF CoherentInv, AnswerCurrent, CoherentWhenSettled
    <3>3. CASE c \notin Actions
      <4>1. runner'[Worker].pc = "idle"
        BY <1>0, <2>0, <2>3, <3>3, Records DEF Store, WokenBy, WaitersTaken
      <4>2. AnswerCurrent'
        BY <4>1 DEF AnswerCurrent
      <4>3. ASSUME NEW d \in Commands \ (Actions \union running'),
                   stamp'[d] # "never", value'[d].kind = "ok"
            PROVE  value'[d].ver = modem
        <5>1. CASE d = c
          BY <1>0, <3>1, <3>3, <4>3, <5>1 DEF CoherentInv, AnswerCurrent
        <5>2. CASE d # c
          BY <1>0, <1>1, <3>1, <3>3, <4>3, <5>2 DEF CoherentInv, CoherentWhenSettled
        <5> QED BY <5>1, <5>2
      <4>4. CoherentWhenSettled'
        BY <3>1, <4>3 DEF CoherentWhenSettled
      <4> QED BY <4>2, <4>4 DEF CoherentInv
    <3> QED BY <3>2, <3>3
  <2>4. CASE InvalidateReadCache(r)
    <3>1. runner'[Worker].pc = "idle"
      BY <1>0, <2>0, <2>4, Records DEF InvalidateReadCache, StampsInvalidated
    <3>2. running' = running
          /\ \A d \in Commands \ (Actions \union running) : stamp'[d] = "never"
      BY <2>4 DEF InvalidateReadCache, StampsInvalidated
    <3> QED BY <3>1, <3>2 DEF CoherentInv, AnswerCurrent, CoherentWhenSettled
  <2> QED BY <1>6, <2>1, <2>2, <2>3, <2>4 DEF RunnerStep
<1>7. ASSUME NEW c \in Commands, Age(c) PROVE CoherentInv'
  <2>1. UNCHANGED <<modem, value, runner, running>>
        /\ \A d \in Commands : stamp[d] = "never" => stamp'[d] = "never"
    BY <1>0, <1>7 DEF Age
  <2> QED BY <2>1, CoherentSame
<1>8. CASE BootEnd \/ UNCHANGED vars
  <2>1. UNCHANGED <<modem, value, runner, running, stamp>>
    BY <1>8 DEF BootEnd, vars, entryVars
  <2> QED BY <2>1, CoherentSame
<1> QED BY <1>3, <1>4, <1>5, <1>6, <1>7, <1>8 DEF Next

\* Coherence, for any number of commands the queue has places for: once an
\* action has settled, every entry that is not being refreshed either has no
\* time stamp or shows what the modem answers now.
THEOREM CoherentWhenSettledCorrect == DeepQueue => (Spec => []CoherentWhenSettled)
<1> SUFFICES ASSUME DeepQueue PROVE Spec => []CoherentWhenSettled
  OBVIOUS
<1>1. Init => NoOverflow /\ CoherentInv
  BY ConstantsAssumption
  DEF Init, Idle, NoOverflow, Runners, CoherentInv, AnswerCurrent, CoherentWhenSettled
<1>2. TypeOK /\ FlightInv /\ NoOverflow /\ [Next]_vars => NoOverflow'
  BY OverflowNext
<1>3. TypeOK /\ FlightInv /\ NoOverflow /\ NoOverflow' /\ CoherentInv /\ [Next]_vars
        => CoherentInv'
  BY CoherentNext
<1>4. CoherentInv => CoherentWhenSettled
  BY DEF CoherentInv
<1> QED
  BY <1>1, <1>2, <1>3, <1>4, InitTypeOK, NextTypeOK, InitFlight, FlightNext,
     PTL DEF Spec
=============================================================================
