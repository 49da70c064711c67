----------------------------- MODULE ATTransport -----------------------------
(***************************************************************************)
(* A transaction with the modem over /dev/smd11 (main.go, native_serial.go)*)
(*                                                                         *)
(* The AT queue, the SMS sender and the `at' command line run transactions *)
(* from several goroutines and processes.  A transaction takes a lock file *)
(* shared by all processes, throws away what the port said before, writes  *)
(* its payload, and waits for a line that ends an answer.  The port is     *)
(* read by a helper process that each process starts once and keeps: its   *)
(* bytes are appended to a buffer, and a channel of capacity one signals   *)
(* that something was appended.  If nothing comes in time, or the session  *)
(* fails, the transaction is tried a second time.  An SMS transaction      *)
(* writes a command, waits for the prompt and then writes the body.        *)
(*                                                                         *)
(* Abstractions.  There is one device (the candidates are filtered to      *)
(* /dev/smd11), so the mutex per device is free whenever the lock file is  *)
(* held.  An answer is its last line and the transaction it belongs to.  A *)
(* write that fails has not delivered the end of the payload, which comes  *)
(* last.  The modem is external: it runs the payloads in order, takes any  *)
(* time to answer and may stay silent; helpers share its output.           *)
(***************************************************************************)
EXTENDS Naturals, Sequences, FiniteSets

CONSTANTS
  ServiceCallers,  \* goroutines of simpleadmin-httpd that run transactions
  CLICallers,      \* runs of `simpleadmin-httpd at', each a process of its own
  Service,         \* the process of the service
  Nobody,          \* the owner of the lock file when it is free
  MaxTx,           \* bound on the number of transactions
  MaxCrashes       \* bound on the deaths of helpers and of the service

Callers   == ServiceCallers \union CLICallers
Processes == {Service} \union CLICallers

ASSUME TransportAssumption ==
  /\ ServiceCallers \intersect CLICallers = {}
  /\ Service \notin CLICallers /\ Nobody \notin Callers
  /\ MaxTx \in Nat /\ MaxCrashes \in Nat

VARIABLES
  pc,        \* where each caller is in its transaction
  job,       \* its transaction: number, SMS or not, first or second try
  flock,     \* owner of the lock file
  reader,    \* helper of each process: "none", "up", "down"
  buffer,    \* answers in each process' reader buffer
  notify,    \* the reader's channel holds a signal
  inbox,     \* payloads written and not yet seen by the modem
  outbox,    \* answers of the modem no helper has read
  used,      \* transactions begun
  crashes,   \* deaths so far
  got,       \* history: the answers each transaction returned
  bodies,    \* history: SMS bodies the modem took, by transaction
  missed     \* history: some answer was not waited for to the end

callerVars == <<pc, job, flock, used>>
readerVars == <<reader, buffer, notify>>
modemVars  == <<inbox, outbox, bodies>>
vars == <<callerVars, readerVars, modemVars, crashes, got, missed>>
-----------------------------------------------------------------------------
Tx       == 1 .. MaxTx
Job      == [tx : 0 .. MaxTx, sms : BOOLEAN, try : 1 .. 2]
NoJob    == [tx |-> 0, sms |-> FALSE, try |-> 1]
Answer   == [tx : Tx, token : {"ok", "error", "prompt"}]
Payload  == [tx : Tx, part : {"command", "body"}, sms : BOOLEAN]

\* The steps of a transaction that hold the lock file.  "broken" waits like
\* "select", after a look that found nothing but the error of a dead helper.
Waiting == {"select", "broken", "selectBody"}
Holding == {"open", "drain", "draining", "write", "read", "body", "readBody",
            "pause"} \union Waiting
Step == Holding \union {"idle", "flock", "exit"}

ProcessOf(cl) == IF cl \in CLICallers THEN cl ELSE Service

\* The lines cl's read stops at, and whether its buffer has one of them.
Tokens(cl) == IF job[cl].sms /\ pc[cl] \in {"read", "select", "broken"}
              THEN {"prompt", "error"} ELSE {"ok", "error"}
Found(cl)  == \E a \in buffer[ProcessOf(cl)] : a.token \in Tokens(cl)

Goto(cl, step) == pc' = [pc EXCEPT ![cl] = step]

\* Mutant: an error return forgets to unlock.
FinishKeepsLock(cl) ==
  /\ pc' = [pc EXCEPT ![cl] = IF cl \in CLICallers THEN "exit" ELSE "idle"]
  /\ job' = [job EXCEPT ![cl] = NoJob]
  /\ flock' = IF job[cl].try = 2 THEN flock ELSE Nobody

\* The transaction returns: the deferred unlock runs on every path.
Finish(cl) ==
  /\ pc' = [pc EXCEPT ![cl] = IF cl \in CLICallers THEN "exit" ELSE "idle"]
  /\ job' = [job EXCEPT ![cl] = NoJob]
  /\ flock' = Nobody

\* Mutant: the second try is retried like the first.
FailUncounted(cl, retryable) ==
  \/ /\ retryable /\ Goto(cl, "pause")
     /\ UNCHANGED <<job, flock>>
  \/ ~retryable /\ Finish(cl)

\* An error of the first try that shouldTryNextATDevice accepts is retried
\* after a pause; every other error ends the transaction.
Fail(cl, retryable) ==
  \/ /\ retryable /\ job[cl].try = 1
     /\ Goto(cl, "pause")
     /\ UNCHANGED <<job, flock>>
  \/ /\ ~(retryable /\ job[cl].try = 1)
     /\ Finish(cl)
-----------------------------------------------------------------------------
Init ==
  /\ pc = [cl \in Callers |-> "idle"]
  /\ job = [cl \in Callers |-> NoJob]
  /\ flock = Nobody
  /\ reader = [p \in Processes |-> "none"]
  /\ buffer = [p \in Processes |-> {}]
  /\ notify = [p \in Processes |-> FALSE]
  /\ inbox = <<>> /\ outbox = <<>>
  /\ used = 0 /\ crashes = 0
  /\ got = [t \in Tx |-> {}]
  /\ bodies = [t \in Tx |-> 0]
  /\ missed = FALSE

\* The command line only runs AT commands.
Begin(cl, sms) ==
  /\ pc[cl] = "idle" /\ used < MaxTx
  /\ sms => cl \in ServiceCallers
  /\ used' = used + 1
  /\ job' = [job EXCEPT ![cl] = [tx |-> used + 1, sms |-> sms, try |-> 1]]
  /\ Goto(cl, "flock")
  /\ UNCHANGED <<flock, readerVars, modemVars, crashes, got, missed>>

\* Mutant: a mutex of the process where the code has a lock file.
LockProcess(cl) ==
  /\ pc[cl] = "flock"
  /\ flock = Nobody \/ ProcessOf(flock) # ProcessOf(cl)
  /\ flock' = cl
  /\ Goto(cl, "open")
  /\ UNCHANGED <<job, used, readerVars, modemVars, crashes, got, missed>>

\* lockGlobalATFile.
LockGlobal(cl) ==
  /\ pc[cl] = "flock" /\ flock = Nobody
  /\ flock' = cl
  /\ Goto(cl, "open")
  /\ UNCHANGED <<job, used, readerVars, modemVars, crashes, got, missed>>

\* The lock file cannot be opened or locked: the error is returned at once.
LockFails(cl) ==
  /\ pc[cl] = "flock"
  /\ Goto(cl, IF cl \in CLICallers THEN "exit" ELSE "idle")
  /\ job' = [job EXCEPT ![cl] = NoJob]
  /\ UNCHANGED <<flock, used, readerVars, modemVars, crashes, got, missed>>

\* openATCommandSession: the process' helper is reused, dead or alive, and
\* started if there never was one.
Open(cl) ==
  LET p == ProcessOf(cl) IN
  /\ pc[cl] = "open"
  /\ reader' = [reader EXCEPT ![p] = IF @ = "none" THEN "up" ELSE @]
  /\ Goto(cl, "drain")
  /\ UNCHANGED <<job, flock, used, buffer, notify, modemVars, crashes, got, missed>>

\* The helper cannot be started.
OpenFails(cl) ==
  /\ pc[cl] = "open" /\ reader[ProcessOf(cl)] = "none"
  /\ \E retryable \in BOOLEAN : Fail(cl, retryable)
  /\ UNCHANGED <<used, readerVars, modemVars, crashes, got, missed>>

\* drain: clear, and clear again at every signal, until the port is idle or
\* 150 ms are over.
DrainStart(cl) ==
  /\ pc[cl] = "drain"
  /\ buffer' = [buffer EXCEPT ![ProcessOf(cl)] = {}]
  /\ Goto(cl, "draining")
  /\ UNCHANGED <<job, flock, used, reader, notify, modemVars, crashes, got, missed>>

DrainMore(cl) ==
  LET p == ProcessOf(cl) IN
  /\ pc[cl] = "draining" /\ notify[p]
  /\ notify' = [notify EXCEPT ![p] = FALSE]
  /\ buffer' = [buffer EXCEPT ![p] = {}]
  /\ UNCHANGED <<callerVars, reader, modemVars, crashes, got, missed>>

DrainEnd(cl) ==
  /\ pc[cl] = "draining"
  /\ Goto(cl, "write")
  /\ UNCHANGED <<job, flock, used, readerVars, modemVars, crashes, got, missed>>

\* writePayload of the AT command, and of the SMS body after the prompt.
Write(cl) ==
  /\ pc[cl] = "write"
  /\ inbox' = Append(inbox, [tx |-> job[cl].tx, part |-> "command", sms |-> job[cl].sms])
  /\ Goto(cl, "read")
  /\ UNCHANGED <<job, flock, used, readerVars, outbox, bodies, crashes, got, missed>>

WriteBody(cl) ==
  /\ pc[cl] = "body"
  /\ inbox' = Append(inbox, [tx |-> job[cl].tx, part |-> "body", sms |-> TRUE])
  /\ Goto(cl, "readBody")
  /\ UNCHANGED <<job, flock, used, readerVars, outbox, bodies, crashes, got, missed>>

WriteFails(cl) ==
  /\ pc[cl] \in {"write", "body"}
  /\ \E retryable \in BOOLEAN : Fail(cl, retryable)
  /\ UNCHANGED <<used, readerVars, modemVars, crashes, got, missed>>

\* readUntilTokens: look at the buffer; wait if nothing in it ends the answer.
Look(cl) ==
  LET p == ProcessOf(cl) IN
  /\ pc[cl] \in {"read", "readBody"} /\ ~Found(cl)
  /\ Goto(cl, CASE pc[cl] = "readBody" -> "selectBody"
                [] pc[cl] = "read" /\ buffer[p] = {} /\ reader[p] = "down" -> "broken"
                [] OTHER -> "select")
  /\ UNCHANGED <<job, flock, used, readerVars, modemVars, crashes, got, missed>>

\* The prompt is there and no error: go on with the body.
Prompted(cl) ==
  /\ pc[cl] = "read" /\ job[cl].sms /\ Found(cl)
  /\ \A a \in buffer[ProcessOf(cl)] : a.token # "error"
  /\ Goto(cl, "body")
  /\ UNCHANGED <<job, flock, used, readerVars, modemVars, crashes, got, missed>>

\* The answer is complete: what the buffer holds is returned, and stays there.
Answered(cl) ==
  LET p == ProcessOf(cl) IN
  /\ pc[cl] \in {"read", "readBody"} /\ Found(cl)
  /\ \/ ~job[cl].sms \/ pc[cl] = "readBody"
     \/ \E a \in buffer[p] : a.token = "error"
  /\ got' = [got EXCEPT ![job[cl].tx] = buffer[p]]
  /\ Finish(cl)
  /\ UNCHANGED <<used, readerVars, modemVars, crashes, missed>>

Wakeup(cl) ==
  LET p == ProcessOf(cl) IN
  /\ pc[cl] \in Waiting /\ notify[p]
  /\ notify' = [notify EXCEPT ![p] = FALSE]
  /\ Goto(cl, IF pc[cl] = "selectBody" THEN "readBody" ELSE "read")
  /\ UNCHANGED <<job, flock, used, reader, buffer, modemVars, crashes, got, missed>>

\* The time is over.  A missing answer is a timeout, which is retried; the
\* error of a dead helper is returned only if nothing was read.
Deadline(cl) ==
  /\ \/ pc[cl] = "select" /\ Fail(cl, TRUE)
     \/ pc[cl] = "broken" /\ \E retryable \in BOOLEAN : Fail(cl, retryable)
  /\ missed' = TRUE
  /\ UNCHANGED <<used, readerVars, modemVars, crashes, got>>

\* Mutant: a missing confirmation of an SMS is retried like any timeout.
DeadlineBodyRetried(cl) ==
  /\ pc[cl] = "selectBody"
  /\ missed' = TRUE
  /\ Fail(cl, TRUE)
  /\ UNCHANGED <<used, readerVars, modemVars, crashes, got>>

\* sendSMSOnDevice returns what it has, without an error: the prompt is still
\* in the buffer, so a dead helper's error is not returned either.
DeadlineBody(cl) ==
  /\ pc[cl] = "selectBody"
  /\ missed' = TRUE
  /\ Finish(cl)
  /\ UNCHANGED <<used, readerVars, modemVars, crashes, got>>

Retry(cl) ==
  /\ pc[cl] = "pause"
  /\ job' = [job EXCEPT ![cl].try = @ + 1]
  /\ Goto(cl, "open")
  /\ UNCHANGED <<flock, used, readerVars, modemVars, crashes, got, missed>>

\* The `at' process ends, and its helper with it (Pdeathsig).
Exit(cl) ==
  /\ pc[cl] = "exit"
  /\ Goto(cl, "idle")
  /\ reader' = [reader EXCEPT ![cl] = "none"]
  /\ buffer' = [buffer EXCEPT ![cl] = {}]
  /\ notify' = [notify EXCEPT ![cl] = FALSE]
  /\ UNCHANGED <<job, flock, used, modemVars, crashes, got, missed>>
-----------------------------------------------------------------------------
(***************************************************************************)
(* The modem, the helpers and the death of processes.                      *)
(***************************************************************************)
Replies(m) == IF m.sms /\ m.part = "command" THEN {"prompt", "error"} ELSE {"ok", "error"}

ModemRuns ==
  LET m == Head(inbox) IN
  /\ inbox # <<>>
  /\ inbox' = Tail(inbox)
  /\ bodies' = IF m.part = "body" THEN [bodies EXCEPT ![m.tx] = @ + 1] ELSE bodies
  /\ \/ UNCHANGED outbox
     \/ \E k \in Replies(m) : outbox' = Append(outbox, [tx |-> m.tx, token |-> k])
  /\ UNCHANGED <<callerVars, readerVars, crashes, got, missed>>

\* Mutant: append does not signal.
DeliverSilently(p) ==
  /\ outbox # <<>> /\ reader[p] = "up"
  /\ buffer' = [buffer EXCEPT ![p] = @ \union {Head(outbox)}]
  /\ outbox' = Tail(outbox)
  /\ UNCHANGED <<callerVars, reader, notify, inbox, bodies, crashes, got, missed>>

\* A helper reads an answer and readLoop appends it to the buffer.  The signal
\* follows the unlock, but a reader that sees the answer before it needs none:
\* append and signal are one step.
Deliver(p) ==
  /\ outbox # <<>> /\ reader[p] = "up"
  /\ buffer' = [buffer EXCEPT ![p] = @ \union {Head(outbox)}]
  /\ notify' = [notify EXCEPT ![p] = TRUE]
  /\ outbox' = Tail(outbox)
  /\ UNCHANGED <<callerVars, reader, inbox, bodies, crashes, got, missed>>

HelperDies(p) ==
  /\ reader[p] = "up" /\ crashes < MaxCrashes
  /\ crashes' = crashes + 1
  /\ reader' = [reader EXCEPT ![p] = "down"]
  /\ notify' = [notify EXCEPT ![p] = TRUE]
  /\ UNCHANGED <<callerVars, buffer, modemVars, got, missed>>

\* readLoop starts another helper, as often as it takes: setLastErr signals
\* also when that fails.
HelperRestarts(p) ==
  /\ reader[p] = "down"
  /\ reader' = [reader EXCEPT ![p] = "up"]
  /\ notify' = [notify EXCEPT ![p] = TRUE]
  /\ UNCHANGED <<callerVars, buffer, modemVars, crashes, got, missed>>

HelperRestartFails(p) ==
  /\ reader[p] = "down"
  /\ notify' = [notify EXCEPT ![p] = TRUE]
  /\ UNCHANGED <<callerVars, reader, buffer, modemVars, crashes, got, missed>>

\* The service is killed and started again: the kernel frees the lock file.
ServiceDies ==
  /\ crashes < MaxCrashes
  /\ crashes' = crashes + 1
  /\ missed' = TRUE
  /\ pc' = [cl \in Callers |-> IF cl \in ServiceCallers THEN "idle" ELSE pc[cl]]
  /\ job' = [cl \in Callers |-> IF cl \in ServiceCallers THEN NoJob ELSE job[cl]]
  /\ flock' = IF flock \in ServiceCallers THEN Nobody ELSE flock
  /\ reader' = [reader EXCEPT ![Service] = "none"]
  /\ buffer' = [buffer EXCEPT ![Service] = {}]
  /\ notify' = [notify EXCEPT ![Service] = FALSE]
  /\ UNCHANGED <<used, modemVars, got>>
-----------------------------------------------------------------------------
\* What a caller does once it has begun, and what can go wrong with it.
Progress(cl) ==
  \/ LockGlobal(cl) \/ Open(cl) \/ DrainStart(cl) \/ DrainMore(cl) \/ DrainEnd(cl)
  \/ Write(cl) \/ WriteBody(cl) \/ Look(cl) \/ Prompted(cl) \/ Answered(cl)
  \/ Wakeup(cl) \/ Deadline(cl) \/ DeadlineBody(cl) \/ Retry(cl) \/ Exit(cl)

Proceed(cl) == Progress(cl) \/ LockFails(cl) \/ OpenFails(cl) \/ WriteFails(cl)

HelperStep(p) ==
  \/ Deliver(p) \/ HelperDies(p)
  \/ HelperRestarts(p) \/ HelperRestartFails(p)

Next ==
  \/ \E cl \in Callers : Proceed(cl) \/ \E sms \in BOOLEAN : Begin(cl, sms)
  \/ ModemRuns
  \/ \E p \in Processes : HelperStep(p)
  \/ ServiceDies

Spec == Init /\ [][Next]_vars

\* Goroutines go on (nothing has to fail), and a timer that has fired is chosen
\* by its select in the end, however many signals come; the modem and the
\* helpers owe nothing.
TimerFires(cl) == DrainEnd(cl) \/ Deadline(cl) \/ DeadlineBody(cl)

FairSpec ==
  Spec /\ \A cl \in Callers : WF_vars(Progress(cl)) /\ SF_vars(TimerFires(cl))
-----------------------------------------------------------------------------
(***************************************************************************)
(* Properties.                                                             *)
(***************************************************************************)
\* Every variable keeps its type; a caller inside a transaction has one, and
\* only a first try is followed by a second.
CallersOK ==
  /\ pc \in [Callers -> Step] /\ job \in [Callers -> Job]
  /\ flock \in Callers \union {Nobody} /\ used \in 0 .. MaxTx
  /\ \A cl \in Callers :
       /\ pc[cl] \in Holding \union {"flock"} => job[cl].tx \in Tx
       /\ pc[cl] = "pause" => job[cl].try = 1

ReadersOK ==
  /\ reader \in [Processes -> {"none", "up", "down"}]
  /\ buffer \in [Processes -> SUBSET Answer]
  /\ notify \in [Processes -> BOOLEAN]

ModemOK ==
  /\ inbox \in Seq(Payload) /\ outbox \in Seq(Answer)
  /\ got \in [Tx -> SUBSET Answer] /\ bodies \in [Tx -> Nat]
  /\ crashes \in 0 .. MaxCrashes /\ missed \in BOOLEAN

TypeOK == CallersOK /\ ReadersOK /\ ModemOK

\* The lock file belongs to the one caller that is inside a transaction, on
\* every path through it, through errors, retries and the death of the service.
LockOwned ==
  \A cl \in Callers : flock = cl <=> pc[cl] \in Holding

\* A transaction returns its own answer, whatever the other processes and
\* helpers do: an answer can end up with another transaction only after some
\* transaction stopped waiting for its answer, or was killed.
OwnAnswer ==
  ~missed => \A t \in Tx : \A a \in got[t] : a.tx = t

\* Retrying an SMS transaction never sends the message a second time.
SMSBodyOnce == \A t \in Tx : bodies[t] <= 1

\* The transaction each caller is in, or 0.
Request == [cl \in Callers |-> job[cl].tx]

\* What a caller sees of the others: the transport implements the promise of
\* a port of its own, with its own answer and each SMS body taken once.
Port == INSTANCE SerialPort WITH
  asked <- used, request <- Request, user <- flock,
  returned <- got, late <- missed

PortSpec == Port!Spec

\* A reader that waits although its answer is in the buffer has a signal
\* waiting for it.
NoMissedSignal ==
  \A cl \in Callers :
    pc[cl] \in Waiting /\ Found(cl) => notify[ProcessOf(cl)]

\* Every transaction returns, however silent the modem and whatever dies.
TransactionEnds == \A cl \in Callers : pc[cl] = "flock" ~> pc[cl] = "idle"
=============================================================================
