------------------------------- MODULE ATCache -------------------------------
(***************************************************************************)
(* The AT command cache and its background queue (at_cache.go).            *)
(*                                                                         *)
(* Every page of the administration interface reads the modem through      *)
(* Fetch: a goroutine per request looks at the cached entry of a command,  *)
(* may mark the entry running and send the command to a bounded queue, and *)
(* may wait on a channel for the answer.  One worker takes commands from   *)
(* the queue; when the queue is full, the sender starts an overflow        *)
(* goroutine that runs the command beside the worker.  Commands that       *)
(* change the modem ("actions") invalidate the cached reads after they     *)
(* ran, and a delayed goroutine then refreshes them.  A periodic goroutine *)
(* refreshes expired reads, and reads are held back while the module boots.*)
(*                                                                         *)
(* Abstractions.  The modem's configuration is a version number: an action *)
(* may move it on, a read returns the version it saw.  An age (3 s, 30 s,  *)
(* 60 s, 10 min) is the step Age(c), which may happen whenever an entry is *)
(* fresh.  A done channel that nobody receives from is not kept.  The      *)
(* goroutines that refresh entries share one set of commands still to be   *)
(* enqueued.  One transaction with the modem is one step: native_serial.go *)
(* serialises transactions with a file lock and a mutex per device.        *)
(***************************************************************************)
EXTENDS Naturals, Sequences, FiniteSets

CONSTANTS
  Reads,        \* ordinary cached reads (pages' status commands)
  Models,       \* AT+CGMM: bypasses the boot delay, never refreshed
  SMSLists,     \* the CMGL list: never refreshed in the background
  Actions,      \* commands isATActionCommand accepts
  FirstRead,    \* the dashboard command the start-up warms
  NoCommand,    \* the command of an idle runner
  Clients,      \* goroutines that call Fetch
  Worker,       \* the goroutine that serves the queue
  Spills,       \* ids for overflow goroutines (bounds how many exist at once)
  QueueCap,     \* capacity of the queue, 64 in the code
  MaxVersion,   \* bound on the number of changes of the modem
  MaxDue        \* bound on the delayed refreshes pending at once: more than
                \* MaxDue that are asleep together count as MaxDue

Commands == Reads \union Models \union SMSLists \union Actions
Runners  == {Worker} \union Spills

ASSUME ConstantsAssumption ==
  /\ FirstRead \in Reads
  /\ NoCommand \notin Commands
  /\ Worker \notin Spills
  /\ Actions \intersect (Reads \union Models \union SMSLists) = {}
  /\ QueueCap \in Nat \ {0}
  /\ MaxVersion \in Nat
  /\ MaxDue \in Nat \ {0}

VARIABLES
  known,        \* commands that have an entry in the map
  running,      \* entries whose running flag is set
  stamp,        \* updatedAt of each entry: "never" (zero), "fresh", "expired"
  value,        \* response and errorText of each entry
  waiters,      \* clients whose done channel the entry holds
  queue,        \* the channel of commands
  runner,       \* the worker and the overflow goroutines
  pc,           \* where each client is in Fetch
  req,          \* the arguments of each client's Fetch
  reply,        \* what each client's Fetch would return now
  todo,         \* commands a refreshing goroutine has still to enqueue
  sending,      \* the command a refreshing goroutine is about to send
  due,          \* delayed refreshes that are still sleeping
  warmed,       \* the start-up refresh was done
  booting,      \* the boot grace period has not ended
  modem         \* version of the modem's configuration

entryVars   == <<known, running, stamp, value, waiters>>
clientVars  == <<pc, req, reply>>
refreshVars == <<todo, sending, due, warmed>>
vars == <<entryVars, queue, runner, clientVars, refreshVars, booting, modem>>
-----------------------------------------------------------------------------
\* Command classes.
Suppressed == Models \union SMSLists
Bypass(c)  == c \in Actions \union Models

\* Mutant: commands are never held back.
AlwaysReady(c) == TRUE

\* May a command go to the modem: reads have to wait out the boot delay.
Ready(c) == Bypass(c) \/ ~booting

\* Answers: a response, an error text, or what Fetch says without either.
Answer == [kind : {"ok", "error"}, ver : 0 .. MaxVersion]
Blank   == [kind |-> "blank",   ver |-> 0]
Pending == [kind |-> "pending", ver |-> 0]
Failed  == [kind |-> "error",   ver |-> 0]
Ok(v)   == [kind |-> "ok",      ver |-> v]

\* A goroutine that runs commands: before and after the boot delay, holding an
\* answer, and (after an action) about to invalidate the cache.
RunnerState ==
  [pc : {"idle", "gate", "exec", "store", "invalidate"},
   cmd : Commands \union {NoCommand}, answer : Answer \union {Blank}]

\* Where a client is in Fetch.
FetchStep == {"idle", "enqueue", "send", "wait", "woken", "return"}

Idle   == [pc |-> "idle", cmd |-> NoCommand, answer |-> Blank]
NoReq  == [cmd |-> NoCommand, force |-> FALSE, block |-> FALSE]

\* What Fetch still has to know: force until enqueue looked at it, block (wait
\* for the done channel) until the wait is over.
Request == [cmd : Commands \union {NoCommand}, force : BOOLEAN, block : BOOLEAN]

\* responseOrPending on a snapshot of the entry of c.
ResponseOrPending(c, isRunning) ==
  IF stamp[c] # "never" \/ value[c].kind = "error" THEN value[c]
  ELSE IF isRunning THEN Pending ELSE Blank

\* Client cl has got past pc and is now at the step named to.
Enqueued(cl, to) ==
  /\ pc' = [pc EXCEPT ![cl] = to]
  /\ req' = [req EXCEPT ![cl].force = FALSE]

\* Mutants: enqueue does not look at the running flag, does not put the new
\* entry into the map.
NeedsRunBlind(c, force) == force \/ stamp[c] # "fresh"
MarkRunningUnlisted(c)  == running' = running \union {c} /\ UNCHANGED known

\* enqueue's decision, and what it does under the lock when it starts a run.
NeedsRun(c, force) == c \notin running /\ (force \/ stamp[c] # "fresh")

MarkRunning(c) ==
  /\ known' = known \union {c}
  /\ running' = running \union {c}

AddWaiter(cl) ==
  waiters' = IF req[cl].block THEN [waiters EXCEPT ![req[cl].cmd] = @ \union {cl}]
                              ELSE waiters

\* After the send or the join, the client blocks or has its reply.
AfterEnqueue(cl) == IF req[cl].block THEN "wait" ELSE "return"
-----------------------------------------------------------------------------
Init ==
  /\ known = {} /\ running = {}
  /\ stamp = [c \in Commands |-> "never"]
  /\ value = [c \in Commands |-> Blank]
  /\ waiters = [c \in Commands |-> {}]
  /\ queue = <<>>
  /\ runner = [r \in Runners |-> Idle]
  /\ pc = [cl \in Clients |-> "idle"]
  /\ req = [cl \in Clients |-> NoReq]
  /\ reply = [cl \in Clients |-> Blank]
  /\ todo = {} /\ sending = NoCommand /\ due = 0 /\ warmed = FALSE
  /\ booting \in BOOLEAN
  /\ modem = 0

(***************************************************************************)
(* Fetch, on a client goroutine.                                           *)
(***************************************************************************)
\* The first snapshot, the choice whether the command must run, and whether
\* to wait for it: a read submitted during the boot delay never waits.
FetchStart(cl, c, force, wait) ==
  LET mustRun == force \/ c \in Actions \/ stamp[c] # "fresh"
      block   == mustRun /\ wait /\ Ready(c)
  IN
  /\ pc[cl] = "idle"
  /\ req' = [req EXCEPT ![cl] =
               [cmd |-> c, force |-> force \/ c \in Actions, block |-> block]]
  /\ reply' = [reply EXCEPT ![cl] =
               IF block THEN Blank ELSE ResponseOrPending(c, TRUE)]
  /\ pc' = [pc EXCEPT ![cl] = IF mustRun THEN "enqueue" ELSE "return"]
  /\ UNCHANGED <<entryVars, queue, runner, refreshVars, booting, modem>>

\* enqueue: the entry is already running, the caller joins its waiters.
EnqueueJoin(cl) ==
  /\ pc[cl] = "enqueue" /\ req[cl].cmd \in running
  /\ Enqueued(cl, AfterEnqueue(cl))
  /\ AddWaiter(cl)
  /\ UNCHANGED <<known, running, stamp, value, queue, runner, reply,
                 refreshVars, booting, modem>>

\* Mutant: enqueue returns the done channel of a fresh entry without closing it.
EnqueueFreshOpen(cl) ==
  LET c == req[cl].cmd IN
  /\ pc[cl] = "enqueue" /\ c \notin running
  /\ ~req[cl].force /\ stamp[c] = "fresh"
  /\ Enqueued(cl, AfterEnqueue(cl))
  /\ UNCHANGED <<entryVars, queue, runner, reply, refreshVars, booting, modem>>

\* enqueue: another caller refreshed the entry meanwhile, done is closed.
EnqueueFresh(cl) ==
  LET c == req[cl].cmd IN
  /\ pc[cl] = "enqueue" /\ c \notin running
  /\ ~req[cl].force /\ stamp[c] = "fresh"
  /\ Enqueued(cl, IF req[cl].block THEN "woken" ELSE "return")
  /\ UNCHANGED <<entryVars, queue, runner, reply, refreshVars, booting, modem>>

\* enqueue: mark the entry running; the queue is written after the unlock.
EnqueueRun(cl) ==
  /\ pc[cl] = "enqueue" /\ NeedsRun(req[cl].cmd, req[cl].force)
  /\ Enqueued(cl, "send")
  /\ MarkRunning(req[cl].cmd)
  /\ AddWaiter(cl)
  /\ UNCHANGED <<stamp, value, queue, runner, reply, refreshVars, booting, modem>>

\* Send to the queue, or start an overflow goroutine when it is full.
Dispatch(c) ==
  \/ /\ Len(queue) < QueueCap
     /\ queue' = Append(queue, c)
     /\ UNCHANGED runner
  \/ /\ Len(queue) >= QueueCap
     /\ \E s \in Spills :
          /\ runner[s].pc = "idle"
          /\ runner' = [runner EXCEPT ![s] = [pc |-> "gate", cmd |-> c, answer |-> Blank]]
     /\ UNCHANGED queue

Send(cl) ==
  /\ pc[cl] = "send"
  /\ Dispatch(req[cl].cmd)
  /\ pc' = [pc EXCEPT ![cl] = AfterEnqueue(cl)]
  /\ UNCHANGED <<entryVars, req, reply, refreshVars, booting, modem>>

\* The wait gives up: it is bounded by the command's own timeout plus 2 s,
\* which the commands queued before it may use up.
Timeout(cl) ==
  /\ pc[cl] = "wait"
  /\ pc' = [pc EXCEPT ![cl] = "woken"]
  /\ waiters' = [waiters EXCEPT ![req[cl].cmd] = @ \ {cl}]
  /\ UNCHANGED <<known, running, stamp, value, queue, runner, req, reply,
                 refreshVars, booting, modem>>

\* The second snapshot, after the wait.
Resnapshot(cl) ==
  LET c == req[cl].cmd IN
  /\ pc[cl] = "woken"
  /\ reply' = [reply EXCEPT ![cl] = ResponseOrPending(c, c \in running)]
  /\ pc' = [pc EXCEPT ![cl] = "return"]
  /\ req' = [req EXCEPT ![cl].block = FALSE]
  /\ UNCHANGED <<entryVars, queue, runner, refreshVars, booting, modem>>

Return(cl) ==
  /\ pc[cl] = "return"
  /\ pc' = [pc EXCEPT ![cl] = "idle"]
  /\ req' = [req EXCEPT ![cl] = NoReq]
  /\ reply' = [reply EXCEPT ![cl] = Blank]
  /\ UNCHANGED <<entryVars, queue, runner, refreshVars, booting, modem>>

(***************************************************************************)
(* The worker and the overflow goroutines.                                 *)
(***************************************************************************)
Take ==
  /\ runner[Worker].pc = "idle" /\ queue # <<>>
  /\ runner' = [runner EXCEPT ![Worker] =
                  [pc |-> "gate", cmd |-> Head(queue), answer |-> Blank]]
  /\ queue' = Tail(queue)
  /\ UNCHANGED <<entryVars, clientVars, refreshVars, booting, modem>>

\* waitUntilReadyFor: the runner itself sleeps out the boot delay of a read.
Gate(r) ==
  /\ runner[r].pc = "gate"
  /\ Ready(runner[r].cmd)
  /\ runner' = [runner EXCEPT ![r].pc = "exec"]
  /\ UNCHANGED <<entryVars, queue, clientVars, refreshVars, booting, modem>>

\* executeCachedATCommand: the transaction may fail, and a failed action may
\* still have reached the modem.
Execute(r) ==
  /\ runner[r].pc = "exec"
  /\ modem' \in IF runner[r].cmd \in Actions /\ modem < MaxVersion
                THEN {modem, modem + 1} ELSE {modem}
  /\ \E a \in {Ok(modem'), Failed} :
       runner' = [runner EXCEPT ![r].pc = "store", ![r].answer = a]
  /\ UNCHANGED <<entryVars, queue, clientVars, refreshVars, booting>>

\* Mutant: the done channels are closed but kept.
WaitersKept(c) == waiters

\* The clients whose done channels the entry holds, and the entries without
\* those channels.
WokenBy(c)      == waiters[c]
WaitersTaken(c) == [waiters EXCEPT ![c] = {}]

\* run, first critical section: store the answer, clear running, and close
\* the done channels it took (the closing wakes clients, who need the lock).
Store(r) ==
  LET c == runner[r].cmd IN
  /\ runner[r].pc = "store"
  /\ known' = known \union {c}
  /\ value' = [value EXCEPT ![c] = runner[r].answer]
  /\ stamp' = [stamp EXCEPT ![c] = IF c \in Actions THEN "expired" ELSE "fresh"]
  /\ running' = running \ {c}
  /\ waiters' = WaitersTaken(c)
  /\ pc' = [cl \in Clients |-> IF cl \in WokenBy(c) THEN "woken" ELSE pc[cl]]
  /\ runner' = [runner EXCEPT ![r] =
                  IF c \in Actions THEN [@ EXCEPT !.pc = "invalidate"] ELSE Idle]
  /\ UNCHANGED <<queue, req, reply, refreshVars, booting, modem>>

\* Mutant: the entries are only marked stale (markReadCacheStale).
StampsStale ==
  [c \in Commands |->
     IF c \in running \union Actions \/ stamp[c] = "never" THEN stamp[c] ELSE "expired"]

\* The time stamps after invalidateReadCache: zero, but for running entries.
StampsInvalidated ==
  [c \in Commands |-> IF c \in running \union Actions THEN stamp[c] ELSE "never"]

\* run of an action, second critical section: invalidateReadCache, and the
\* goroutine that sleeps 2 s before it refreshes.
InvalidateReadCache(r) ==
  /\ runner[r].pc = "invalidate"
  /\ stamp' = StampsInvalidated
  /\ due' = IF due < MaxDue THEN due + 1 ELSE due
  /\ runner' = [runner EXCEPT ![r] = Idle]
  /\ UNCHANGED <<known, running, value, waiters, queue, clientVars, todo,
                 sending, warmed, booting, modem>>

(***************************************************************************)
(* Background refresh and the passing of time.                             *)
(***************************************************************************)
\* Mutant: the refresh looks for entries without a time stamp only.
OnlyInvalidatedNeedRefresh ==
  {c \in known \ (running \union Actions \union Suppressed) : stamp[c] = "never"}

CachedReadCommandsNeedingRefresh ==
  {c \in known \ (running \union Actions \union Suppressed) : stamp[c] # "fresh"}

PeriodicRefresh ==
  /\ ~booting
  /\ todo' = todo \union CachedReadCommandsNeedingRefresh
  /\ UNCHANGED <<entryVars, queue, runner, clientVars, sending, due, warmed,
                 booting, modem>>

DelayedRefresh ==
  /\ due > 0
  /\ due' = due - 1
  /\ todo' = todo \union CachedReadCommandsNeedingRefresh
  /\ UNCHANGED <<entryVars, queue, runner, clientVars, sending, warmed,
                 booting, modem>>

InitialRefresh ==
  /\ ~warmed /\ ~booting
  /\ warmed' = TRUE
  /\ todo' = todo \union {FirstRead}
  /\ UNCHANGED <<entryVars, queue, runner, clientVars, sending, due, booting, modem>>

\* enqueue(command, false) by a refreshing goroutine, which waits for nothing.
RefreshEnqueue(c) ==
  /\ c \in todo /\ sending = NoCommand
  /\ todo' = todo \ {c}
  /\ \/ NeedsRun(c, FALSE) /\ MarkRunning(c) /\ sending' = c
     \/ ~NeedsRun(c, FALSE) /\ UNCHANGED <<known, running, sending>>
  /\ UNCHANGED <<stamp, value, waiters, queue, runner, clientVars, due, warmed,
                 booting, modem>>

RefreshSend ==
  /\ sending # NoCommand
  /\ Dispatch(sending)
  /\ sending' = NoCommand
  /\ UNCHANGED <<entryVars, clientVars, todo, due, warmed, booting, modem>>

\* The entry of a read reaches its maximum age.
Age(c) ==
  /\ stamp[c] = "fresh"
  /\ stamp' = [stamp EXCEPT ![c] = "expired"]
  /\ UNCHANGED <<known, running, value, waiters, queue, runner, clientVars,
                 refreshVars, booting, modem>>

\* 35 s after power-on the startup delay is over for good.
BootEnd ==
  /\ booting
  /\ booting' = FALSE
  /\ UNCHANGED <<entryVars, queue, runner, clientVars, refreshVars, modem>>
-----------------------------------------------------------------------------
Enqueue(cl) == EnqueueJoin(cl) \/ EnqueueFresh(cl) \/ EnqueueRun(cl)

ClientStep(cl) ==
  \/ \E c \in Commands, force \in BOOLEAN, wait \in BOOLEAN :
       FetchStart(cl, c, force, wait)
  \/ Enqueue(cl) \/ Send(cl) \/ Timeout(cl) \/ Resnapshot(cl) \/ Return(cl)

RunnerStep(r) == Gate(r) \/ Execute(r) \/ Store(r) \/ InvalidateReadCache(r)

RefreshStep ==
  \/ PeriodicRefresh \/ DelayedRefresh \/ InitialRefresh \/ RefreshSend
  \/ \E c \in Commands : RefreshEnqueue(c)

Next ==
  \/ \E cl \in Clients : ClientStep(cl)
  \/ Take
  \/ \E r \in Runners : RunnerStep(r)
  \/ RefreshStep
  \/ \E c \in Commands : Age(c)
  \/ BootEnd

Spec == Init /\ [][Next]_vars

\* Goroutines that can go on do; a wait times out only if nothing wakes it,
\* so the timeout is left out.  Requests are free to stop coming.
Fairness ==
  /\ \A cl \in Clients :
       WF_vars(Enqueue(cl) \/ Send(cl) \/ Resnapshot(cl) \/ Return(cl))
  /\ WF_vars(Take)
  /\ \A r \in Runners : WF_vars(RunnerStep(r))
  /\ WF_vars(RefreshSend) /\ WF_vars(DelayedRefresh) /\ WF_vars(InitialRefresh)
  /\ WF_vars(PeriodicRefresh)
  /\ \A c \in Commands : WF_vars(RefreshEnqueue(c)) /\ WF_vars(Age(c))
  /\ WF_vars(BootEnd)

FairSpec == Spec /\ Fairness
-----------------------------------------------------------------------------
(***************************************************************************)
(* Properties.                                                             *)
(***************************************************************************)
EntriesOK ==
  /\ known \subseteq Commands /\ running \subseteq known
  /\ stamp \in [Commands -> {"never", "fresh", "expired"}]
  /\ value \in [Commands -> Answer \union {Blank}]

QueueOK ==
  /\ queue \in Seq(Commands) /\ Len(queue) <= QueueCap
  /\ runner \in [Runners -> RunnerState]
  /\ \A r \in Runners : runner[r].pc # "idle" => runner[r].cmd \in Commands

ClientsOK ==
  /\ pc \in [Clients -> FetchStep]
  /\ req \in [Clients -> Request]
  /\ reply \in [Clients -> Answer \union {Blank, Pending}]
  /\ waiters \in [Commands -> SUBSET Clients]
  /\ \A cl \in Clients : pc[cl] # "idle" => req[cl].cmd \in Commands
  /\ \A c \in Commands : \A cl \in waiters[c] :
       req[cl].cmd = c /\ req[cl].block /\ pc[cl] \in {"send", "wait"}

RefreshOK ==
  /\ todo \subseteq Commands /\ sending \in Commands \union {NoCommand}
  /\ due \in 0 .. MaxDue
  /\ warmed \in BOOLEAN /\ booting \in BOOLEAN
  /\ modem \in 0 .. MaxVersion

\* Every variable keeps its type; a client on a waiter list asked for that
\* entry, and a process that is not idle has a command.
TypeOK == EntriesOK /\ QueueOK /\ ClientsOK /\ RefreshOK

\* Runner r holds an execution of c; client cl is about to send c.
OnRunner(r, c)    == runner[r].pc \in {"gate", "exec", "store"} /\ runner[r].cmd = c
FromClient(cl, c) == pc[cl] = "send" /\ req[cl].cmd = c

\* The places an execution of c can be between enqueue's unlock and the
\* critical section of run that clears the flag.
Holders(c) ==
  {<<"queue", i>> : i \in {j \in DOMAIN queue : queue[j] = c}}
  \union {<<"runner", r>> : r \in {x \in Runners : OnRunner(x, c)}}
  \union {<<"client", cl>> : cl \in {x \in Clients : FromClient(x, c)}}
  \union {<<"refresh", 0>> : x \in {x \in {sending} : x = c}}

\* The running flag is exactly one execution: a command marked running is in
\* one place on its way to run's critical section (so it will be cleared), a
\* command not marked running is in none (so it never runs twice at a time).
SingleFlight ==
  \A c \in Commands :
    /\ c \in running <=> Holders(c) # {}
    /\ \A x, y \in Holders(c) : x = y

\* Client cl will receive, or is about to, from the channel it waits on.
Blocked(cl) == pc[cl] = "wait" \/ (pc[cl] = "send" /\ req[cl].block)

\* No wakeup is lost: a client blocked in Fetch is on the waiter list of an
\* entry that is running, and the list holds blocked clients only.
WaitersCovered ==
  \A cl \in Clients, c \in Commands :
    /\ cl \in waiters[c] <=> Blocked(cl) /\ req[cl].cmd = c
    /\ cl \in waiters[c] => c \in running

\* The queue is deep enough: with no more commands than the queue has places
\* the overflow goroutine of enqueue is never started, however many requests
\* there are, because a command waits in the queue once at most.
NoOverflow == \A s \in Spills : runner[s].pc = "idle"

\* Between an action's transaction and the invalidation that follows it.
ActionSettling ==
  \E r \in Runners : /\ runner[r].cmd \in Actions
                     /\ runner[r].pc \in {"store", "invalidate"}

\* invalidateReadCache does its job while the worker runs everything: once an
\* action has settled, an entry that is not being refreshed either has no
\* time stamp or holds what the modem answers now.
CoherentWhenSettled ==
  ~ActionSettling =>
    \A c \in Commands \ (Actions \union running) :
      stamp[c] # "never" /\ value[c].kind = "ok" => value[c].ver = modem

\* During the boot grace period no ordinary read reaches the AT port, whichever
\* goroutine runs it.
BootProtection ==
  booting => \A r \in Runners :
    runner[r].pc \in {"exec", "store"} => Bypass(runner[r].cmd)

\* ... and no page is left hanging on such a read.
NoPageHangsAtBoot ==
  \A cl \in Clients :
    booting /\ pc[cl] \in {"wait", "woken"} => Bypass(req[cl].cmd)

\* The boot grace period keeps what it is for (README.md:625): the two above.
BootGrace == BootProtection /\ NoPageHangsAtBoot

\* The command each client is blocked on.
WaitingFor == [cl \in Clients |-> IF Blocked(cl) THEN req[cl].cmd ELSE NoCommand]

\* What requests on one command see of each other: the cache implements the
\* single-flight promise, a caller waits for an execution in flight only.
Coalescer == INSTANCE RequestCoalescer WITH
  Keys <- Commands, Callers <- Clients, NoKey <- NoCommand,
  inflight <- running,
  waitingFor <- WaitingFor

CoalescerSpec == Coalescer!FairSpec

\* A cached read that an action made obsolete is eventually dropped or
\* replaced, whatever overtook the invalidation.
EventuallyCoherent ==
  \A c \in Reads :
    (stamp[c] # "never" /\ value[c].kind = "ok" /\ value[c].ver # modem)
      ~> (stamp[c] = "never" \/ value[c].kind # "ok" \/ value[c].ver = modem)
=============================================================================
