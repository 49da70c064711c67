-------------------------- MODULE ATTransportProofs --------------------------
(***************************************************************************)
(* Theorems about ATTransport, for any number of goroutines, `at' runs,    *)
(* transactions and deaths: types, the ownership of the lock file, no      *)
(* reader sleeping beside its answer, no body of an SMS sent twice, each   *)
(* caller reading the answer to its own command, and from all of these     *)
(* that the transport implements the abstract port of SerialPort.          *)
(***************************************************************************)
EXTENDS ATTransport, TLAPS

-----------------------------------------------------------------------------
(* The caller's side: program counter, job and lock file. *)

CallerInv == CallersOK /\ LockOwned

LEMMA CallerFacts ==
  /\ NoJob \in Job
  /\ \A cl \in Callers : ProcessOf(cl) \in Processes
  /\ Nobody \notin Callers
BY TransportAssumption DEF NoJob, Job, Callers, Processes, ProcessOf

\* A step from one place inside the transaction to another.
LEMMA GotoInside ==
  ASSUME CallerInv, NEW cl \in Callers, pc[cl] \in Holding,
         NEW s \in Holding \ {"pause"}, Goto(cl, s), UNCHANGED <<job, flock, used>>
  PROVE  CallerInv'
BY DEF CallerInv, CallersOK, LockOwned, Goto, Step

\* The return of a transaction frees the lock file.
LEMMA FinishFrees ==
  ASSUME CallerInv, NEW cl \in Callers, pc[cl] \in Holding, Finish(cl), UNCHANGED used
  PROVE  CallerInv'
<1>1. \A x \in Callers : pc'[x] = IF x = cl THEN (IF cl \in CLICallers THEN "exit" ELSE "idle") ELSE pc[x]
  BY DEF CallerInv, CallersOK, Finish
<1>2. \A x \in Callers \ {cl} : pc[x] \notin Holding
  BY DEF CallerInv, LockOwned
<1>3. LockOwned'
  BY <1>1, <1>2, CallerFacts DEF LockOwned, Finish, Holding, Waiting
<1>4. CallersOK'
  BY <1>1, CallerFacts DEF CallerInv, CallersOK, Finish, Step, Holding, Waiting
<1> QED BY <1>3, <1>4 DEF CallerInv

LEMMA FailFrees ==
  ASSUME CallerInv, NEW cl \in Callers, pc[cl] \in Holding, NEW r \in BOOLEAN,
         Fail(cl, r), UNCHANGED used
  PROVE  CallerInv'
<1>1. CASE r /\ job[cl].try = 1 /\ Goto(cl, "pause") /\ UNCHANGED <<job, flock>>
  BY <1>1 DEF CallerInv, CallersOK, LockOwned, Goto, Step, Holding
<1>2. CASE Finish(cl)
  BY <1>2, FinishFrees
<1> QED BY <1>1, <1>2 DEF Fail

\* Nothing of the caller's side moves.
LEMMA CallersStill ==
  ASSUME CallerInv, UNCHANGED callerVars
  PROVE  CallerInv'
BY DEF CallerInv, CallersOK, LockOwned, callerVars

LEMMA BeginKeeps ==
  ASSUME CallerInv, NEW cl \in Callers, NEW sms \in BOOLEAN, Begin(cl, sms)
  PROVE  CallerInv'
<1>1. used + 1 \in Tx /\ used' \in 0 .. MaxTx
  BY TransportAssumption DEF Begin, CallerInv, CallersOK, Tx
<1>2. [tx |-> used + 1, sms |-> sms, try |-> 1] \in Job
  BY <1>1 DEF Job, Tx
<1>3. /\ \A x \in Callers : pc'[x] = IF x = cl THEN "flock" ELSE pc[x]
      /\ \A x \in Callers \ {cl} : job'[x] = job[x]
      /\ job'[cl].tx = used + 1
  BY DEF Begin, Goto, CallerInv, CallersOK
<1>4. LockOwned'
  BY <1>3 DEF Begin, CallerInv, LockOwned, Holding, Waiting
<1>5. CallersOK'
  BY <1>1, <1>2, <1>3 DEF Begin, Goto, CallerInv, CallersOK, Step, Holding, Waiting
<1> QED BY <1>4, <1>5 DEF CallerInv

\* Taking the lock, or failing to, and the second try.
LEMMA LockKeeps ==
  ASSUME CallerInv, NEW cl \in Callers, LockGlobal(cl) \/ LockFails(cl)
  PROVE  CallerInv'
<1>1. CASE LockGlobal(cl)
  <2>1. \A x \in Callers : pc'[x] = IF x = cl THEN "open" ELSE pc[x]
    BY <1>1 DEF LockGlobal, Goto, CallerInv, CallersOK
  <2>2. \A x \in Callers : pc[x] \notin Holding
    BY <1>1, CallerFacts DEF LockGlobal, CallerInv, LockOwned
  <2> QED BY <1>1, <2>1, <2>2
          DEF LockGlobal, Goto, CallerInv, CallersOK, LockOwned, Step, Holding
<1>2. CASE LockFails(cl)
  <2>1. \A x \in Callers :
          /\ pc'[x] = IF x = cl THEN (IF cl \in CLICallers THEN "exit" ELSE "idle") ELSE pc[x]
          /\ x # cl => job'[x] = job[x]
    BY <1>2 DEF LockFails, Goto, CallerInv, CallersOK
  <2>2. LockOwned'
    BY <1>2, <2>1 DEF LockFails, CallerInv, LockOwned, Holding, Waiting
  <2>3. CallersOK'
    BY <1>2, <2>1, CallerFacts DEF LockFails, Goto, CallerInv, CallersOK, Step, Holding, Waiting
  <2> QED BY <2>2, <2>3 DEF CallerInv
<1> QED BY <1>1, <1>2

LEMMA RetryKeeps ==
  ASSUME CallerInv, NEW cl \in Callers, Retry(cl)
  PROVE  CallerInv'
<1>1. job[cl] \in Job /\ job[cl].try = 1 /\ job[cl].tx \in Tx
  BY DEF Retry, CallerInv, CallersOK, Holding
<1>2. [job[cl] EXCEPT !.try = @ + 1] \in Job /\ [job[cl] EXCEPT !.try = @ + 1].tx = job[cl].tx
  BY <1>1 DEF Job
<1>3. job' = [job EXCEPT ![cl] = [job[cl] EXCEPT !.try = @ + 1]]
  BY DEF Retry
<1>4. \A x \in Callers : pc'[x] = IF x = cl THEN "open" ELSE pc[x]
  BY DEF Retry, Goto, CallerInv, CallersOK
<1>5. LockOwned'
  BY <1>4 DEF Retry, CallerInv, LockOwned, Holding
<1>6. CallersOK'
  <2>1. job' \in [Callers -> Job] /\ \A x \in Callers : job'[x].tx = job[x].tx
    BY <1>2, <1>3 DEF CallerInv, CallersOK
  <2>2. pc' \in [Callers -> Step] /\ \A x \in Callers : pc'[x] = "pause" => x # cl /\ job'[x] = job[x]
    BY <1>3, <1>4 DEF Retry, Goto, CallerInv, CallersOK, Step, Holding
  <2> QED BY <1>1, <1>4, <2>1, <2>2 DEF Retry, CallerInv, CallersOK
<1> QED BY <1>5, <1>6 DEF CallerInv

LEMMA ExitKeeps ==
  ASSUME CallerInv, NEW cl \in Callers, Exit(cl)
  PROVE  CallerInv'
BY DEF Exit, Goto, CallerInv, CallersOK, LockOwned, Step, Holding, Waiting

LEMMA DeathKeeps ==
  ASSUME CallerInv, ServiceDies
  PROVE  CallerInv'
<1>1. /\ \A x \in Callers : pc'[x] = IF x \in ServiceCallers THEN "idle" ELSE pc[x]
      /\ \A x \in Callers : job'[x] = IF x \in ServiceCallers THEN NoJob ELSE job[x]
      /\ pc' \in [Callers -> Step] /\ job' \in [Callers -> Job]
  BY CallerFacts DEF ServiceDies, CallerInv, CallersOK, Step
<1>2. flock' = IF flock \in ServiceCallers THEN Nobody ELSE flock
  BY DEF ServiceDies
<1>3. LockOwned'
  BY <1>1, <1>2, CallerFacts DEF CallerInv, LockOwned, Holding, Waiting, Callers
<1>4. CallersOK'
  BY <1>1, <1>2 DEF ServiceDies, CallerInv, CallersOK, Holding, Waiting
<1> QED BY <1>3, <1>4 DEF CallerInv

LEMMA CallerStep ==
  ASSUME CallerInv, [Next]_vars
  PROVE  CallerInv'
<1>1. ASSUME NEW cl \in Callers, Proceed(cl) PROVE CallerInv'
  <2>1. CASE LockGlobal(cl) \/ LockFails(cl)
    BY <2>1, LockKeeps
  <2>2. CASE Open(cl)
    BY <2>2, GotoInside DEF Open, Holding
  <2>3. CASE OpenFails(cl)
    BY <2>3, FailFrees DEF OpenFails, Holding
  <2>4. CASE DrainStart(cl) \/ DrainEnd(cl)
    BY <2>4, GotoInside DEF DrainStart, DrainEnd, Holding
  <2>5. CASE DrainMore(cl)
    BY <2>5, CallersStill DEF DrainMore
  <2>6. CASE Write(cl) \/ WriteBody(cl)
    BY <2>6, GotoInside DEF Write, WriteBody, Holding
  <2>7. CASE WriteFails(cl)
    BY <2>7, FailFrees DEF WriteFails, Holding
  <2>8. CASE Look(cl)
    <3>1. PICK s \in {"select", "broken", "selectBody"} : Goto(cl, s)
      BY <2>8 DEF Look
    <3> QED BY <2>8, <3>1, GotoInside DEF Look, Holding, Waiting
  <2>9. CASE Prompted(cl)
    BY <2>9, GotoInside DEF Prompted, Holding
  <2>10. CASE Answered(cl)
    BY <2>10, FinishFrees DEF Answered, Holding
  <2>11. CASE Wakeup(cl)
    <3>1. PICK s \in {"read", "readBody"} : Goto(cl, s)
      BY <2>11 DEF Wakeup
    <3> QED BY <2>11, <3>1, GotoInside DEF Wakeup, Holding, Waiting
  <2>12. CASE Deadline(cl)
    BY <2>12, FailFrees DEF Deadline, Holding, Waiting
  <2>13. CASE DeadlineBody(cl)
    BY <2>13, FinishFrees DEF DeadlineBody, Holding, Waiting
  <2>14. CASE Retry(cl)
    BY <2>14, RetryKeeps
  <2>15. CASE Exit(cl)
    BY <2>15, ExitKeeps
  <2> QED BY <1>1, <2>1, <2>2, <2>3, <2>4, <2>5, <2>6, <2>7, <2>8, <2>9, <2>10, <2>11,
             <2>12, <2>13, <2>14, <2>15 DEF Proceed, Progress
<1>2. CASE ModemRuns \/ (\E p \in Processes : HelperStep(p)) \/ UNCHANGED vars
  BY <1>2, CallersStill
  DEF ModemRuns, HelperStep, Deliver, HelperDies, HelperRestarts, HelperRestartFails, vars
<1>3. CASE ServiceDies
  BY <1>3, DeathKeeps
<1>4. ASSUME NEW cl \in Callers, NEW sms \in BOOLEAN, Begin(cl, sms) PROVE CallerInv'
  BY <1>4, BeginKeeps
<1> QED BY <1>1, <1>2, <1>3, <1>4 DEF Next

LEMMA InitTypes == Init => TypeOK /\ LockOwned
<1> SUFFICES ASSUME Init PROVE TypeOK /\ LockOwned
  OBVIOUS
<1> USE CallerFacts, TransportAssumption DEF Init
<1>1. LockOwned
  BY DEF LockOwned, Holding, Waiting
<1>2. CallersOK
  BY DEF CallersOK, Step, Holding, Waiting
<1>3. ReadersOK
  BY DEF ReadersOK
<1>4. ModemOK
  <2>1. inbox \in Seq(Payload) /\ outbox \in Seq(Answer)
    OBVIOUS
  <2>2. got \in [Tx -> SUBSET Answer] /\ bodies \in [Tx -> Nat]
    OBVIOUS
  <2>3. crashes \in 0 .. MaxCrashes
    OBVIOUS
  <2>4. missed \in BOOLEAN
    OBVIOUS
  <2> QED BY <2>1, <2>2, <2>3, <2>4 DEF ModemOK
<1> QED BY <1>1, <1>2, <1>3, <1>4 DEF TypeOK

\* The lock file belongs to the one caller inside a transaction.
THEOREM LockOwnedCorrect == Spec => []LockOwned
<1>1. Init => CallerInv
  BY InitTypes DEF CallerInv, TypeOK
<1>2. CallerInv /\ [Next]_vars => CallerInv'
  BY CallerStep
<1>3. CallerInv => LockOwned
  BY DEF CallerInv
<1> QED BY <1>1, <1>2, <1>3, PTL DEF Spec

-----------------------------------------------------------------------------
(* Types of the helpers' and the modem's side. *)

LEMMA ReaderTypes ==
  ASSUME TypeOK, [Next]_vars
  PROVE  ReadersOK'
<1> USE CallerFacts DEF TypeOK, ReadersOK
<1>1. ASSUME NEW cl \in Callers, Proceed(cl) PROVE ReadersOK'
  <2>1. CASE UNCHANGED readerVars
    BY <2>1 DEF readerVars
  <2>2. CASE Open(cl)
    BY <2>2 DEF Open
  <2>3. CASE DrainStart(cl) \/ DrainMore(cl)
    BY <2>3 DEF DrainStart, DrainMore
  <2>4. CASE Wakeup(cl)
    BY <2>4 DEF Wakeup
  <2>5. CASE Exit(cl)
    BY <2>5 DEF Exit
  <2> QED BY <1>1, <2>1, <2>2, <2>3, <2>4, <2>5
          DEF Proceed, Progress, LockGlobal, LockFails, OpenFails, DrainEnd, Write, WriteBody, WriteFails,
              Look, Prompted, Answered, Deadline, DeadlineBody, Retry
<1>2. ASSUME NEW p \in Processes, HelperStep(p) PROVE ReadersOK'
  <2>1. CASE Deliver(p)
    <3>1. Head(outbox) \in Answer
      BY <2>1 DEF Deliver, ModemOK
    <3> QED BY <2>1, <3>1 DEF Deliver
  <2> QED BY <1>2, <2>1 DEF HelperStep, HelperDies, HelperRestarts, HelperRestartFails
<1>3. CASE ServiceDies
  BY <1>3 DEF ServiceDies
<1>4. CASE ModemRuns \/ UNCHANGED vars \/ \E cl \in Callers, sms \in BOOLEAN : Begin(cl, sms)
  BY <1>4 DEF ModemRuns, Begin, vars, readerVars
<1> QED BY <1>1, <1>2, <1>3, <1>4 DEF Next

\* What the modem says is an answer.
LEMMA RepliesType ==
  ASSUME NEW m \in Payload, NEW k \in Replies(m)
  PROVE  [tx |-> m.tx, token |-> k] \in Answer
BY DEF Payload, Replies, Answer

LEMMA ModemTypes ==
  ASSUME TypeOK, [Next]_vars
  PROVE  ModemOK'
<1> USE CallerFacts DEF TypeOK, ModemOK
<1>1. ASSUME NEW cl \in Callers, Proceed(cl) PROVE ModemOK'
  <2>1. CASE UNCHANGED <<modemVars, crashes, got, missed>>
    BY <2>1 DEF modemVars
  <2>2. CASE Write(cl) \/ WriteBody(cl)
    <3>1. job[cl].tx \in Tx /\ job[cl].sms \in BOOLEAN
      BY <2>2 DEF Write, WriteBody, CallersOK, Holding, Job
    <3>2. \A part \in {"command", "body"}, sms \in BOOLEAN :
            [tx |-> job[cl].tx, part |-> part, sms |-> sms] \in Payload
      BY <3>1 DEF Payload
    <3>3. PICK m \in Payload : inbox' = Append(inbox, m)
      BY <2>2, <3>1, <3>2 DEF Write, WriteBody
    <3>4. inbox' \in Seq(Payload)
      BY <3>3
    <3> QED BY <2>2, <3>4 DEF Write, WriteBody
  <2>3. CASE Answered(cl)
    BY <2>3 DEF Answered, ReadersOK, modemVars
  <2>4. CASE Deadline(cl) \/ DeadlineBody(cl)
    BY <2>4 DEF Deadline, DeadlineBody, modemVars
  <2> QED BY <1>1, <2>1, <2>2, <2>3, <2>4
          DEF Proceed, Progress, LockGlobal, LockFails, Open, OpenFails, DrainStart, DrainMore, DrainEnd,
              WriteFails, Look, Prompted, Wakeup, Retry, Exit
<1>2. CASE ModemRuns
  <2>1. Head(inbox) \in Payload /\ inbox' \in Seq(Payload)
    BY <1>2 DEF ModemRuns
  <2>2. bodies' \in [Tx -> Nat]
    BY <1>2, <2>1 DEF ModemRuns, Payload
  <2>3. outbox' = outbox \/ \E a \in Answer : outbox' = Append(outbox, a)
    BY <1>2, <2>1, RepliesType DEF ModemRuns
  <2>4. outbox' \in Seq(Answer)
    BY <2>3
  <2> QED BY <1>2, <2>1, <2>2, <2>4 DEF ModemRuns
<1>3. ASSUME NEW p \in Processes, HelperStep(p) PROVE ModemOK'
  <2>1. CASE Deliver(p)
    <3>1. outbox' \in Seq(Answer)
      BY <2>1 DEF Deliver
    <3> QED BY <2>1, <3>1 DEF Deliver
  <2>2. CASE HelperDies(p)
    BY <2>2, TransportAssumption DEF HelperDies, modemVars
  <2>3. CASE HelperRestarts(p) \/ HelperRestartFails(p)
    BY <2>3 DEF HelperRestarts, HelperRestartFails, modemVars
  <2> QED BY <1>3, <2>1, <2>2, <2>3 DEF HelperStep
<1>4. CASE ServiceDies
  BY <1>4, TransportAssumption DEF ServiceDies, modemVars
<1>5. CASE UNCHANGED vars \/ \E cl \in Callers, sms \in BOOLEAN : Begin(cl, sms)
  BY <1>5 DEF Begin, vars, modemVars
<1> QED BY <1>1, <1>2, <1>3, <1>4, <1>5 DEF Next

\* Every variable keeps its type.
THEOREM TypeCorrect == Spec => []TypeOK
<1> DEFINE Inv == TypeOK /\ LockOwned
<1>1. Init => Inv
  BY InitTypes
<1>2. Inv /\ [Next]_vars => Inv'
  BY CallerStep, ReaderTypes, ModemTypes DEF CallerInv, TypeOK
<1>3. Inv => TypeOK
  OBVIOUS
<1> QED BY <1>1, <1>2, <1>3, PTL DEF Spec

-----------------------------------------------------------------------------
(* No missed signal. *)

\* The holder of the lock file is alone.
LEMMA Alone ==
  ASSUME LockOwned, NEW x \in Callers, NEW y \in Callers,
         pc[x] \in Holding, pc[y] \in Holding
  PROVE  x = y
BY DEF LockOwned

\* A step that leaves the buffers, the channels and the jobs alone, and takes
\* nobody to a wait.
LEMMA SignalKept ==
  ASSUME TypeOK, NoMissedSignal, NEW cl \in Callers, UNCHANGED <<buffer, notify>>,
         \A x \in Callers \ {cl} : pc'[x] = pc[x] /\ job'[x] = job[x],
         pc'[cl] \notin Waiting
  PROVE  NoMissedSignal'
BY DEF NoMissedSignal, Found, Tokens, Waiting

LEMMA SignalStep ==
  ASSUME TypeOK, LockOwned, NoMissedSignal, [Next]_vars
  PROVE  NoMissedSignal'
<1> USE CallerFacts
<1>1. ASSUME NEW cl \in Callers, Proceed(cl) PROVE NoMissedSignal'
  <2>1. \A x \in Callers \ {cl} : pc'[x] = pc[x] /\ job'[x] = job[x]
    BY <1>1 DEF Proceed, Progress, LockGlobal, LockFails, Open, OpenFails, DrainStart, DrainMore, DrainEnd,
         Write, WriteBody, WriteFails, Look, Prompted, Answered, Wakeup, Deadline, DeadlineBody,
         Retry, Exit, Goto, Fail, Finish, callerVars, TypeOK, CallersOK
  <2>2. CASE DrainStart(cl) \/ DrainMore(cl)
    <3>1. pc[cl] \in Holding /\ pc'[cl] \notin Waiting
      BY <2>2 DEF DrainStart, DrainMore, Holding, Waiting, Goto, TypeOK, CallersOK, callerVars
    <3>2. \A x \in Callers \ {cl} : pc'[x] \notin Waiting
      BY <2>1, <3>1, Alone DEF Holding
    <3> QED BY <3>1, <3>2 DEF NoMissedSignal
  <2>3. CASE Wakeup(cl)
    <3>1. pc[cl] \in Holding /\ pc'[cl] \notin Waiting
      BY <2>3 DEF Wakeup, Holding, Waiting, Goto, TypeOK, CallersOK
    <3>2. \A x \in Callers \ {cl} : pc'[x] \notin Waiting
      BY <2>1, <3>1, Alone DEF Holding
    <3> QED BY <3>1, <3>2 DEF NoMissedSignal
  <2>4. CASE Exit(cl)
    <3>1. pc'[cl] \notin Waiting
      BY <2>4 DEF Exit, Goto, Waiting, TypeOK, CallersOK
    <3>2. /\ buffer' = [buffer EXCEPT ![cl] = {}]
          /\ notify' = [notify EXCEPT ![cl] = FALSE]
      BY <2>4 DEF Exit
    <3>3. ASSUME NEW x \in Callers \ {cl}, pc'[x] \in Waiting, Found(x)'
          PROVE  notify'[ProcessOf(x)]
      <4>1. ProcessOf(x) # cl
        BY <3>2, <3>3 DEF Found, TypeOK, ReadersOK
      <4> QED BY <2>1, <3>2, <3>3, <4>1
              DEF NoMissedSignal, Found, Tokens, TypeOK, ReadersOK, ProcessOf
    <3> QED BY <3>1, <3>3 DEF NoMissedSignal
  <2>5. CASE Look(cl)
    <3>1. /\ ~Found(cl) /\ UNCHANGED <<buffer, notify, job>>
          /\ pc[cl] = "read" => pc'[cl] \in {"select", "broken"}
          /\ pc[cl] = "readBody" => pc'[cl] = "selectBody"
          /\ pc[cl] \in {"read", "readBody"}
      <4>1. CASE pc[cl] = "readBody"
        BY <2>5, <4>1 DEF Look, Goto, TypeOK, CallersOK, readerVars
      <4>2. CASE pc[cl] = "read"
        BY <2>5, <4>2 DEF Look, Goto, TypeOK, CallersOK, readerVars
      <4> QED BY <2>5, <4>1, <4>2 DEF Look
    <3>2. Tokens(cl)' = Tokens(cl)
      BY <3>1 DEF Tokens
    <3>3. ~Found(cl)'
      BY <3>1, <3>2 DEF Found, ProcessOf
    <3>4. ASSUME NEW x \in Callers \ {cl}, pc'[x] \in Waiting, Found(x)'
          PROVE  notify'[ProcessOf(x)]
      BY <2>1, <3>1, <3>4 DEF NoMissedSignal, Found, Tokens, ProcessOf
    <3> QED BY <3>3, <3>4 DEF NoMissedSignal
  <2>6. CASE UNCHANGED <<buffer, notify>> /\ pc'[cl] \notin Waiting
    BY <2>1, <2>6, SignalKept
  <2>7. CASE LockGlobal(cl) \/ LockFails(cl) \/ Open(cl) \/ DrainEnd(cl) \/ Write(cl)
             \/ WriteBody(cl) \/ Prompted(cl) \/ Retry(cl)
    BY <2>6, <2>7 DEF LockGlobal, LockFails, Open, DrainEnd, Write, WriteBody, Prompted, Retry,
         Goto, Waiting, readerVars, TypeOK, CallersOK
  <2>8. CASE OpenFails(cl) \/ WriteFails(cl) \/ Answered(cl) \/ Deadline(cl) \/ DeadlineBody(cl)
    BY <2>6, <2>8 DEF OpenFails, WriteFails, Answered, Deadline, DeadlineBody, Fail, Finish,
         Goto, Waiting, readerVars, TypeOK, CallersOK
  <2> QED BY <1>1, <2>2, <2>3, <2>4, <2>5, <2>7, <2>8 DEF Proceed, Progress
<1>2. ASSUME NEW p \in Processes, HelperStep(p) PROVE NoMissedSignal'
  <2>1. /\ UNCHANGED <<pc, job>>
        /\ \A q \in Processes \ {p} : buffer'[q] = buffer[q] /\ notify'[q] = notify[q]
        /\ notify'[p]
    BY <1>2 DEF HelperStep, Deliver, HelperDies, HelperRestarts, HelperRestartFails,
         callerVars, TypeOK, ReadersOK
  <2>2. ASSUME NEW x \in Callers, pc'[x] \in Waiting, Found(x)', ProcessOf(x) # p
        PROVE  notify'[ProcessOf(x)]
    BY <2>1, <2>2 DEF NoMissedSignal, Found, Tokens, ProcessOf
  <2> QED BY <2>1, <2>2 DEF NoMissedSignal, ProcessOf
<1>3. CASE ServiceDies
  <2>1. ASSUME NEW x \in Callers, pc'[x] \in Waiting PROVE x \in CLICallers
    BY <1>3, <2>1 DEF ServiceDies, Callers, Waiting
  <2>2. ASSUME NEW x \in CLICallers
        PROVE  /\ pc'[x] = pc[x] /\ job'[x] = job[x] /\ ProcessOf(x) = x
               /\ buffer'[x] = buffer[x] /\ notify'[x] = notify[x]
    BY <1>3, <2>2, TransportAssumption
    DEF ServiceDies, Callers, ProcessOf, Processes, TypeOK, ReadersOK
  <2>3. ASSUME NEW x \in CLICallers, pc'[x] \in Waiting, Found(x)'
        PROVE  notify'[ProcessOf(x)]
    BY <2>2, <2>3 DEF NoMissedSignal, Found, Tokens, Callers, ProcessOf
  <2> QED BY <2>1, <2>3 DEF NoMissedSignal
<1>4. ASSUME NEW cl \in Callers, NEW sms \in BOOLEAN, Begin(cl, sms) PROVE NoMissedSignal'
  <2>1. /\ UNCHANGED <<buffer, notify>> /\ pc'[cl] = "flock"
        /\ \A x \in Callers \ {cl} : pc'[x] = pc[x] /\ job'[x] = job[x]
    BY <1>4 DEF Begin, Goto, TypeOK, CallersOK, readerVars
  <2> QED BY <2>1, SignalKept DEF Waiting
<1>5. CASE ModemRuns \/ UNCHANGED vars
  <2>1. UNCHANGED <<pc, job, buffer, notify>>
    BY <1>5 DEF ModemRuns, vars, readerVars, callerVars
  <2> QED BY <2>1 DEF NoMissedSignal, Found, Tokens, ProcessOf
<1> QED BY <1>1, <1>2, <1>3, <1>4, <1>5 DEF Next

\* No reader sleeps beside its answer: the channel of capacity one is enough.
THEOREM NoMissedSignalCorrect == Spec => []NoMissedSignal
<1> DEFINE Inv == TypeOK /\ LockOwned /\ NoMissedSignal
<1>1. Init => Inv
  BY InitTypes, CallerFacts DEF Init, NoMissedSignal, Waiting
<1>2. Inv /\ [Next]_vars => Inv'
  BY CallerStep, ReaderTypes, ModemTypes, SignalStep DEF CallerInv, TypeOK
<1>3. Inv => NoMissedSignal
  OBVIOUS
<1> QED BY <1>1, <1>2, <1>3, PTL DEF Spec

-----------------------------------------------------------------------------
(* The body of a message is written at most once.  A transaction that has   *)
(* not written its body is fresh: the modem has not taken its body and none *)
(* is on the way.  Only the waits for the confirmation follow the body, and *)
(* no retry leads out of them.                                              *)

IsBody(i, t) == inbox[i].part = "body" /\ inbox[i].tx = t
Fresh(t) == bodies[t] = 0 /\ \A i \in 1 .. Len(inbox) : ~IsBody(i, t)

JobsDistinct ==
  \A x \in Callers :
    /\ job[x].tx <= used
    /\ \A y \in Callers : x # y /\ job[x].tx # 0 => job[x].tx # job[y].tx

BodiesOnce ==
  /\ \A t \in Tx : bodies[t] <= 1
  /\ \A i, j \in 1 .. Len(inbox), t \in Tx : IsBody(i, t) /\ IsBody(j, t) => i = j
  /\ \A i \in 1 .. Len(inbox), t \in Tx : IsBody(i, t) => bodies[t] = 0
  /\ \A t \in Tx : t > used => Fresh(t)

BeforeBody ==
  \A x \in Callers :
    job[x].tx # 0 /\ pc[x] \notin {"readBody", "selectBody"} => Fresh(job[x].tx)

BodyInv == JobsDistinct /\ BodiesOnce /\ BeforeBody

\* A step of one caller that writes no body and does not turn back from the
\* wait for the confirmation, except by its return.
LEMMA QuietStep ==
  ASSUME TypeOK, BodyInv, UNCHANGED <<inbox, bodies, used>>, NEW cl \in Callers,
         \A x \in Callers \ {cl} : pc'[x] = pc[x] /\ job'[x] = job[x],
         \/ job'[cl].tx = 0
         \/ /\ job'[cl].tx = job[cl].tx
            /\ pc[cl] \in {"readBody", "selectBody"} => pc'[cl] \in {"readBody", "selectBody"}
  PROVE  BodyInv'
<1>1. used \in Nat /\ \A x \in Callers : job[x].tx \in Nat
  BY TransportAssumption DEF TypeOK, CallersOK, Job
<1>2. \A t : Fresh(t)' = Fresh(t)
  BY DEF Fresh, IsBody
<1>3. JobsDistinct'
  BY <1>1 DEF BodyInv, JobsDistinct
<1>4. BodiesOnce'
  BY <1>2 DEF BodyInv, BodiesOnce, IsBody
<1>5. BeforeBody'
  BY <1>2 DEF BodyInv, BeforeBody
<1> QED BY <1>3, <1>4, <1>5 DEF BodyInv

\* The command is appended to the modem's input: no body.
LEMMA CommandStep ==
  ASSUME TypeOK, BodyInv, NEW cl \in Callers, Write(cl)
  PROVE  BodyInv'
<1>1. inbox \in Seq(Payload) /\ pc' = [pc EXCEPT ![cl] = "read"] /\ pc \in [Callers -> Step]
  BY DEF Write, Goto, TypeOK, ModemOK, CallersOK
<1> DEFINE m == [tx |-> job[cl].tx, part |-> "command", sms |-> job[cl].sms]
<1>2. inbox' = Append(inbox, m) /\ UNCHANGED <<bodies, job, used>> /\ pc[cl] = "write"
  BY DEF Write
<1>3. /\ Len(inbox') = Len(inbox) + 1
      /\ \A i \in 1 .. Len(inbox) : inbox'[i] = inbox[i]
      /\ inbox'[Len(inbox) + 1] = m
  BY <1>1, <1>2
<1>4. /\ Len(inbox) \in Nat
      /\ \A i \in 1 .. Len(inbox') : \A t : IsBody(i, t)' => i \in 1 .. Len(inbox) /\ IsBody(i, t)
      /\ \A i \in 1 .. Len(inbox) : \A t : IsBody(i, t)' = IsBody(i, t)
  BY <1>1, <1>3 DEF IsBody
<1>5. \A t \in Tx : Fresh(t) => Fresh(t)'
  BY <1>2, <1>4 DEF Fresh
<1>6. JobsDistinct'
  BY <1>2 DEF BodyInv, JobsDistinct
<1>7. BodiesOnce'
  BY <1>2, <1>4, <1>5 DEF BodyInv, BodiesOnce
<1>8. BeforeBody'
  BY <1>1, <1>2, <1>5 DEF BodyInv, BeforeBody, TypeOK, CallersOK, Job, Tx
<1> QED BY <1>6, <1>7, <1>8 DEF BodyInv

\* The body is appended, by the only caller with that transaction.
LEMMA BodyStep ==
  ASSUME TypeOK, BodyInv, NEW cl \in Callers, WriteBody(cl)
  PROVE  BodyInv'
<1>1. /\ inbox \in Seq(Payload) /\ pc' = [pc EXCEPT ![cl] = "readBody"]
      /\ pc \in [Callers -> Step] /\ job[cl].tx \in Tx
  BY DEF WriteBody, Goto, TypeOK, ModemOK, CallersOK, Holding
<1> DEFINE own == job[cl].tx
           m == [tx |-> own, part |-> "body", sms |-> TRUE]
<1>2. inbox' = Append(inbox, m) /\ UNCHANGED <<bodies, job, used>> /\ pc[cl] = "body"
  BY DEF WriteBody
<1>3. /\ Len(inbox') = Len(inbox) + 1
      /\ \A i \in 1 .. Len(inbox) : inbox'[i] = inbox[i]
      /\ inbox'[Len(inbox) + 1] = m
  BY <1>1, <1>2
<1>4. /\ Len(inbox) \in Nat
      /\ \A i \in 1 .. Len(inbox') : \A t :
           IsBody(i, t)' => \/ i \in 1 .. Len(inbox) /\ IsBody(i, t)
                            \/ i = Len(inbox) + 1 /\ t = own
      /\ \A i \in 1 .. Len(inbox) : \A t : IsBody(i, t)' = IsBody(i, t)
  BY <1>1, <1>3 DEF IsBody
<1>5. Fresh(own) /\ own <= used /\ own # 0 /\ own \in Nat
  BY <1>1, <1>2 DEF BodyInv, BeforeBody, JobsDistinct, Tx
<1>6. \A t \in Tx \ {own} : Fresh(t) => Fresh(t)'
  BY <1>2, <1>4 DEF Fresh
<1>7. JobsDistinct'
  BY <1>2 DEF BodyInv, JobsDistinct
<1>8. BodiesOnce'
  <2>1. \A i, j \in 1 .. Len(inbox'), t \in Tx : IsBody(i, t)' /\ IsBody(j, t)' => i = j
    BY <1>4, <1>5 DEF BodyInv, BodiesOnce, Fresh
  <2>2. \A i \in 1 .. Len(inbox'), t \in Tx : IsBody(i, t)' => bodies'[t] = 0
    BY <1>2, <1>4, <1>5 DEF BodyInv, BodiesOnce, Fresh
  <2>3. \A t \in Tx : t > used' => Fresh(t)'
    BY <1>2, <1>5, <1>6, TransportAssumption DEF BodyInv, BodiesOnce, Tx, TypeOK, CallersOK
  <2> QED BY <1>2, <2>1, <2>2, <2>3 DEF BodyInv, BodiesOnce
<1>9. BeforeBody'
  <2>1. ASSUME NEW x \in Callers, NEW t \in Tx, job'[x].tx = t,
               pc'[x] \notin {"readBody", "selectBody"}
        PROVE  Fresh(t)'
    <3>1. x # cl /\ pc'[x] = pc[x] /\ job'[x] = job[x]
      BY <1>1, <1>2, <2>1
    <3>2. t # own
      BY <1>1, <1>5, <2>1, <3>1 DEF BodyInv, JobsDistinct
    <3>3. Fresh(t)
      BY <2>1, <3>1 DEF BodyInv, BeforeBody, Tx
    <3> QED BY <1>6, <3>2, <3>3
  <2>2. \A x \in Callers : job'[x].tx # 0 => job'[x].tx \in Tx
    BY <1>2, TransportAssumption DEF TypeOK, CallersOK, Job, Tx
  <2> QED BY <2>1, <2>2 DEF BeforeBody
<1> QED BY <1>7, <1>8, <1>9 DEF BodyInv

\* The modem takes the first payload.
LEMMA ModemStep ==
  ASSUME TypeOK, BodyInv, ModemRuns
  PROVE  BodyInv'
<1>1. /\ inbox \in Seq(Payload) /\ inbox # <<>> /\ inbox' = Tail(inbox)
      /\ bodies \in [Tx -> Nat] /\ UNCHANGED <<pc, job, used>>
  BY DEF ModemRuns, TypeOK, ModemOK, callerVars
<1>2. /\ Len(inbox) \in Nat \ {0} /\ Len(inbox') = Len(inbox) - 1
      /\ \A i \in 1 .. Len(inbox) - 1 : inbox'[i] = inbox[i + 1]
      /\ Head(inbox) = inbox[1] /\ inbox[1] \in Payload
  BY <1>1
<1>3. /\ bodies' = IF inbox[1].part = "body" THEN [bodies EXCEPT ![inbox[1].tx] = @ + 1] ELSE bodies
      /\ inbox[1].tx \in Tx
  BY <1>2 DEF ModemRuns, Payload
<1>4. \A i \in 1 .. Len(inbox') : \A t : i + 1 \in 1 .. Len(inbox) /\ (IsBody(i, t)' = IsBody(i + 1, t))
  BY <1>2 DEF IsBody
<1>5. \A t \in Tx : bodies'[t] = IF IsBody(1, t) THEN bodies[t] + 1 ELSE bodies[t]
  BY <1>1, <1>3 DEF IsBody
<1>6. 1 \in 1 .. Len(inbox)
  BY <1>2
<1>7. \A t \in Tx : Fresh(t) => Fresh(t)'
  BY <1>4, <1>5, <1>6 DEF Fresh
<1>8. JobsDistinct'
  BY <1>1 DEF BodyInv, JobsDistinct
<1>9. BodiesOnce'
  <2>1. \A t \in Tx : bodies'[t] <= 1
    BY <1>1, <1>5, <1>6 DEF BodyInv, BodiesOnce
  <2>2. \A i, j \in 1 .. Len(inbox'), t \in Tx : IsBody(i, t)' /\ IsBody(j, t)' => i = j
    BY <1>2, <1>4 DEF BodyInv, BodiesOnce
  <2>3. ASSUME NEW i \in 1 .. Len(inbox'), NEW t \in Tx, IsBody(i, t)' PROVE bodies'[t] = 0
    <3>1. i + 1 \in 1 .. Len(inbox) /\ IsBody(i + 1, t) /\ i + 1 # 1
      BY <1>2, <1>4, <2>3
    <3>2. ~IsBody(1, t) /\ bodies[t] = 0
      BY <1>6, <3>1 DEF BodyInv, BodiesOnce
    <3> QED BY <1>5, <3>2
  <2>4. \A t \in Tx : t > used' => Fresh(t)'
    BY <1>1, <1>7 DEF BodyInv, BodiesOnce
  <2> QED BY <2>1, <2>2, <2>3, <2>4 DEF BodiesOnce
<1>10. BeforeBody'
  BY <1>1, <1>7 DEF BodyInv, BeforeBody, TypeOK, CallersOK, Job, Tx
<1> QED BY <1>8, <1>9, <1>10 DEF BodyInv

LEMMA BeginFresh ==
  ASSUME TypeOK, BodyInv, NEW cl \in Callers, NEW sms \in BOOLEAN, Begin(cl, sms)
  PROVE  BodyInv'
<1>1. /\ used \in Nat /\ used' = used + 1 /\ used + 1 \in Tx
      /\ \A x \in Callers : job[x].tx \in Nat
  BY TransportAssumption DEF Begin, TypeOK, CallersOK, Job, Tx
<1>2. /\ \A x \in Callers \ {cl} : job'[x] = job[x] /\ pc'[x] = pc[x]
      /\ job'[cl].tx = used + 1 /\ UNCHANGED <<inbox, bodies>>
  BY DEF Begin, Goto, TypeOK, CallersOK, modemVars
<1>3. \A t : Fresh(t)' = Fresh(t)
  BY <1>2 DEF Fresh, IsBody
<1>4. JobsDistinct'
  BY <1>1, <1>2 DEF BodyInv, JobsDistinct
<1>5. BodiesOnce'
  BY <1>1, <1>2, <1>3 DEF BodyInv, BodiesOnce, IsBody, Tx
<1>6. BeforeBody'
  BY <1>1, <1>2, <1>3 DEF BodyInv, BodiesOnce, BeforeBody
<1> QED BY <1>4, <1>5, <1>6 DEF BodyInv

LEMMA ServiceDeathQuiet ==
  ASSUME TypeOK, BodyInv, ServiceDies
  PROVE  BodyInv'
<1>1. /\ \A x \in Callers :
           \/ job'[x] = job[x] /\ pc'[x] = pc[x]
           \/ job'[x].tx = 0
      /\ UNCHANGED <<inbox, bodies, used>>
  BY DEF ServiceDies, NoJob, modemVars
<1>2. used \in Nat /\ \A x \in Callers : job[x].tx \in Nat
  BY TransportAssumption DEF TypeOK, CallersOK, Job
<1>3. \A t : Fresh(t)' = Fresh(t)
  BY <1>1 DEF Fresh, IsBody
<1>4. JobsDistinct'
  BY <1>1, <1>2 DEF BodyInv, JobsDistinct
<1>5. BodiesOnce'
  BY <1>1, <1>3 DEF BodyInv, BodiesOnce, IsBody
<1>6. BeforeBody'
  BY <1>1, <1>3 DEF BodyInv, BeforeBody
<1> QED BY <1>4, <1>5, <1>6 DEF BodyInv

LEMMA BodyInvStep ==
  ASSUME TypeOK, BodyInv, [Next]_vars
  PROVE  BodyInv'
<1>1. ASSUME NEW cl \in Callers, Proceed(cl) PROVE BodyInv'
  <2>1. CASE Write(cl)
    BY <2>1, CommandStep
  <2>2. CASE WriteBody(cl)
    BY <2>2, BodyStep
  <2>3. CASE LockGlobal(cl) \/ Open(cl) \/ DrainStart(cl) \/ DrainEnd(cl) \/ Look(cl)
             \/ Prompted(cl) \/ Wakeup(cl) \/ Exit(cl)
    <3>1. PICK s \in Step : Goto(cl, s) /\ (pc[cl] \in {"readBody", "selectBody"} =>
                                            s \in {"readBody", "selectBody"})
      BY <2>3 DEF LockGlobal, Open, DrainStart, DrainEnd, Look, Prompted, Wakeup, Exit, Step,
           Holding, Waiting
    <3>2. UNCHANGED <<job, inbox, bodies, used>>
      BY <2>3 DEF LockGlobal, Open, DrainStart, DrainEnd, Look, Prompted, Wakeup, Exit, modemVars
    <3> QED BY <3>1, <3>2, QuietStep DEF Goto, TypeOK, CallersOK
  <2>4. CASE DrainMore(cl)
    BY <2>4, QuietStep DEF DrainMore, callerVars, modemVars
  <2>5. CASE LockFails(cl)
    BY <2>5, QuietStep DEF LockFails, Goto, NoJob, modemVars, TypeOK, CallersOK
  <2>6. CASE Answered(cl) \/ DeadlineBody(cl)
    BY <2>6, QuietStep DEF Answered, DeadlineBody, Finish, NoJob, modemVars, TypeOK, CallersOK
  <2>7. CASE OpenFails(cl) \/ WriteFails(cl) \/ Deadline(cl)
    <3>1. /\ \/ Finish(cl)
             \/ Goto(cl, "pause") /\ UNCHANGED job
          /\ UNCHANGED <<inbox, bodies, used>>
          /\ pc[cl] \notin {"readBody", "selectBody"}
      <4>1. CASE OpenFails(cl)
        BY <4>1 DEF OpenFails, Fail, modemVars
      <4>2. CASE WriteFails(cl)
        BY <4>2 DEF WriteFails, Fail, modemVars
      <4>3. CASE Deadline(cl)
        BY <4>3 DEF Deadline, Fail, modemVars
      <4> QED BY <2>7, <4>1, <4>2, <4>3
    <3> QED BY <3>1, QuietStep DEF Finish, Goto, NoJob, TypeOK, CallersOK
  <2>8. CASE Retry(cl)
    <3>1. job[cl] \in Job /\ UNCHANGED <<inbox, bodies, used>> /\ pc[cl] = "pause"
      BY <2>8 DEF Retry, TypeOK, CallersOK, modemVars
    <3>2. [job[cl] EXCEPT !.try = @ + 1].tx = job[cl].tx
      BY <3>1 DEF Job
    <3>3. /\ \A x \in Callers \ {cl} : pc'[x] = pc[x] /\ job'[x] = job[x]
          /\ job'[cl] = [job[cl] EXCEPT !.try = @ + 1]
      BY <2>8 DEF Retry, Goto, TypeOK, CallersOK
    <3> QED BY <3>1, <3>2, <3>3, QuietStep
  <2> QED BY <1>1, <2>1, <2>2, <2>3, <2>4, <2>5, <2>6, <2>7, <2>8 DEF Proceed, Progress
<1>2. CASE (\E p \in Processes : HelperStep(p)) \/ UNCHANGED vars
  <2>1. UNCHANGED <<pc, job, used, inbox, bodies>>
    BY <1>2 DEF HelperStep, Deliver, HelperDies, HelperRestarts, HelperRestartFails, vars,
         callerVars, modemVars
  <2> QED BY <2>1 DEF BodyInv, JobsDistinct, BodiesOnce, BeforeBody, Fresh, IsBody
<1> QED BY <1>1, <1>2, ModemStep, BeginFresh, ServiceDeathQuiet DEF Next

LEMMA BodyInvInit == Init => BodyInv
<1> SUFFICES ASSUME Init PROVE BodyInv
  OBVIOUS
<1> USE DEF Init
<1>1. JobsDistinct
  BY DEF JobsDistinct, NoJob
<1>2. BodiesOnce
  BY DEF BodiesOnce, Fresh, IsBody
<1>3. BeforeBody
  BY DEF BeforeBody, NoJob
<1> QED BY <1>1, <1>2, <1>3 DEF BodyInv

\* The body of an SMS reaches the modem at most once, however the transaction
\* is retried and whatever dies.
THEOREM SMSBodyOnceCorrect == Spec => []SMSBodyOnce
<1> DEFINE Inv == TypeOK /\ LockOwned /\ BodyInv
<1>1. Init => Inv
  BY InitTypes, BodyInvInit
<1>2. Inv /\ [Next]_vars => Inv'
  BY CallerStep, ReaderTypes, ModemTypes, BodyInvStep DEF CallerInv, TypeOK
<1>3. Inv => SMSBodyOnce
  BY DEF BodyInv, BodiesOnce, SMSBodyOnce
<1> QED BY <1>1, <1>2, <1>3, PTL DEF Spec

-----------------------------------------------------------------------------
(* The answers.  As long as every answer was waited for, what was written   *)
(* and not answered is one payload of the caller that waits for it; so what *)
(* comes into its buffer, which it drained, is its own.                     *)

Confirming == {"readBody", "selectBody"}
Asking == {"read", "select", "broken"} \union Confirming

Quiet == inbox = <<>> /\ outbox = <<>>

\* The payload cl has written last.
Written(cl) ==
  [tx |-> job[cl].tx, part |-> IF pc[cl] \in Confirming THEN "body" ELSE "command",
   sms |-> job[cl].sms]

\* The modem has not taken it, or no helper has read the answer.
Owed(cl) ==
  \/ inbox = <<Written(cl)>> /\ outbox = <<>>
  \/ inbox = <<>> /\ \E k \in Replies(Written(cl)) : outbox = <<[tx |-> job[cl].tx, token |-> k]>>

Own(cl) == buffer[ProcessOf(cl)]

\* The buffer holds nothing, or the prompt alone, while an answer is to come.
Unanswered(cl) == \A a \in Own(cl) : pc[cl] \in Confirming /\ a.token = "prompt"

AskingOK(cl) ==
  /\ \A a \in Own(cl) :
       a.tx = job[cl].tx /\ a.token \in Replies(Written(cl)) \union {"prompt"}
  /\ Quiet \/ (Owed(cl) /\ Unanswered(cl))
  /\ pc[cl] \in Confirming => job[cl].sms

CallerOwns(cl) ==
  /\ pc[cl] \in {"draining", "write"} => Own(cl) = {}
  /\ pc[cl] = "body" =>
       job[cl].sms /\ \A a \in Own(cl) : a.tx = job[cl].tx /\ a.token = "prompt"
  /\ pc[cl] \in Asking => AskingOK(cl)

AnswersOK ==
  /\ \A t \in Tx : \A a \in got[t] : a.tx = t
  /\ \A cl \in Callers : CallerOwns(cl)
  /\ (\A cl \in Callers : pc[cl] \notin Asking) => Quiet

AnswerInv == ~ missed => AnswersOK

LEMMA StagesHold ==
  /\ Asking \subseteq Holding /\ Confirming \subseteq Asking
  /\ {"draining", "write", "body"} \subseteq Holding \ Asking
  /\ "idle" \notin Holding /\ "flock" \notin Holding /\ "exit" \notin Holding
BY DEF Asking, Confirming, Holding, Waiting

\* Nothing is promised of a caller that does not hold the lock file.
LEMMA OutsideOwns ==
  ASSUME NEW cl \in Callers, pc[cl] \notin Holding PROVE CallerOwns(cl)
BY StagesHold DEF CallerOwns

LEMMA OutsideOwnsNext ==
  ASSUME NEW cl \in Callers, pc'[cl] \notin Holding PROVE CallerOwns(cl)'
BY StagesHold DEF CallerOwns

\* What is promised of a caller depends on its own state, and survives the
\* loss of what its buffer holds.
LEMMA OwnsKept ==
  ASSUME NEW cl \in Callers, CallerOwns(cl), pc'[cl] = pc[cl], job'[cl] = job[cl],
         buffer'[ProcessOf(cl)] \subseteq Own(cl), UNCHANGED <<inbox, outbox>>
  PROVE  CallerOwns(cl)'
<1>1. Own(cl)' \subseteq Own(cl)
  BY DEF Own, ProcessOf
<1>2. Written(cl)' = Written(cl) /\ Quiet' = Quiet
  BY DEF Written, Quiet
<1>3. Owed(cl)' = Owed(cl) /\ (Unanswered(cl) => Unanswered(cl)')
  BY <1>1, <1>2 DEF Owed, Unanswered
<1>4. AskingOK(cl) => AskingOK(cl)'
  BY <1>1, <1>2, <1>3 DEF AskingOK
<1> QED BY <1>1, <1>4 DEF CallerOwns

\* A step of the holder: what the others do does not matter.
LEMMA HolderStep ==
  ASSUME LockOwned, AnswersOK, NEW cl \in Callers, pc[cl] \in Holding,
         \A x \in Callers \ {cl} : pc'[x] = pc[x],
         \A t \in Tx : \A a \in got'[t] : a.tx = t,
         CallerOwns(cl)',
         pc'[cl] \notin Asking => Quiet'
  PROVE  AnswersOK'
<1>1. \A x \in Callers \ {cl} : pc'[x] \notin Holding
  BY Alone
<1>2. \A x \in Callers : CallerOwns(x)'
  BY <1>1, OutsideOwnsNext
<1> QED BY <1>2 DEF AnswersOK

\* While the holder asks for nothing, nothing is on its way.
LEMMA QuietOutside ==
  ASSUME LockOwned, AnswersOK, NEW cl \in Callers, pc[cl] \in Holding \ Asking
  PROVE  Quiet
<1>1. \A x \in Callers : pc[x] \notin Asking
  BY Alone, StagesHold
<1> QED BY <1>1 DEF AnswersOK

\* A step of one caller outside its transaction.
LEMMA OutsideStep ==
  ASSUME AnswersOK, NEW cl \in Callers, pc'[cl] \notin {"draining", "write", "body"} \union Asking,
         pc[cl] \notin Asking, UNCHANGED <<inbox, outbox, got>>,
         \A x \in Callers \ {cl} : /\ pc'[x] = pc[x] /\ job'[x] = job[x]
                                   /\ buffer'[ProcessOf(x)] \subseteq Own(x)
  PROVE  AnswersOK'
<1>1. CallerOwns(cl)'
  BY DEF CallerOwns
<1>2. \A x \in Callers \ {cl} : CallerOwns(x)'
  BY OwnsKept DEF AnswersOK
<1>3. (\A x \in Callers : pc'[x] \notin Asking) => Quiet'
  BY DEF AnswersOK, Quiet
<1> QED BY <1>1, <1>2, <1>3 DEF AnswersOK

-----------------------------------------------------------------------------
(* One lemma per step that matters to the answers. *)

LEMMA DrainAnswers ==
  ASSUME TypeOK, LockOwned, AnswersOK, NEW cl \in Callers, DrainStart(cl) \/ DrainMore(cl)
  PROVE  AnswersOK'
<1>1. /\ pc[cl] \in {"drain", "draining"} /\ pc'[cl] = "draining"
      /\ buffer'[ProcessOf(cl)] = {} /\ UNCHANGED <<inbox, outbox, got>>
      /\ \A x \in Callers \ {cl} : pc'[x] = pc[x]
  BY CallerFacts DEF DrainStart, DrainMore, Goto, TypeOK, CallersOK, ReadersOK, modemVars, callerVars
<1>2. pc[cl] \in Holding \ Asking
  BY <1>1 DEF Holding, Asking, Confirming, Waiting
<1>3. Quiet'
  BY <1>1, <1>2, QuietOutside DEF Quiet
<1>4. CallerOwns(cl)'
  BY <1>1 DEF CallerOwns, Own, ProcessOf, Asking, Confirming
<1> QED BY <1>1, <1>2, <1>3, <1>4, HolderStep DEF AnswersOK

LEMMA DrainedAnswers ==
  ASSUME TypeOK, LockOwned, AnswersOK, NEW cl \in Callers, DrainEnd(cl)
  PROVE  AnswersOK'
<1>1. /\ pc[cl] = "draining" /\ pc'[cl] = "write"
      /\ UNCHANGED <<inbox, outbox, got, buffer>>
      /\ \A x \in Callers \ {cl} : pc'[x] = pc[x]
  BY DEF DrainEnd, Goto, TypeOK, CallersOK, modemVars, readerVars
<1>2. pc[cl] \in Holding \ Asking
  BY <1>1 DEF Holding, Asking, Confirming, Waiting
<1>3. Quiet' /\ Own(cl) = {}
  BY <1>1, <1>2, QuietOutside DEF Quiet, AnswersOK, CallerOwns
<1>4. CallerOwns(cl)'
  BY <1>1, <1>3 DEF CallerOwns, Own, ProcessOf, Asking, Confirming
<1> QED BY <1>1, <1>2, <1>3, <1>4, HolderStep DEF AnswersOK

LEMMA WriteAnswers ==
  ASSUME TypeOK, LockOwned, AnswersOK, NEW cl \in Callers, Write(cl) \/ WriteBody(cl)
  PROVE  AnswersOK'
<1>1. /\ pc[cl] \in Holding \ Asking /\ pc[cl] \in {"write", "body"}
      /\ pc'[cl] = IF pc[cl] = "write" THEN "read" ELSE "readBody"
      /\ UNCHANGED <<job, buffer, outbox, got>>
      /\ \A x \in Callers \ {cl} : pc'[x] = pc[x]
  BY DEF Write, WriteBody, Goto, TypeOK, CallersOK, readerVars, Holding, Asking, Confirming, Waiting
<1>2. Quiet /\ Own(cl)' = Own(cl) /\ CallerOwns(cl)
  BY <1>1, QuietOutside DEF Own, ProcessOf, AnswersOK
<1>3. pc[cl] = "body" => job[cl].sms = TRUE
  <2>1. job[cl].sms \in BOOLEAN
    BY DEF TypeOK, CallersOK, Job
  <2> QED BY <1>2, <2>1 DEF CallerOwns
<1>4. inbox' = <<Written(cl)'>>
  <2>1. CASE pc[cl] = "write"
    BY <1>1, <1>2, <2>1 DEF Write, WriteBody, Written, Quiet, Confirming
  <2>2. CASE pc[cl] = "body"
    <3> DEFINE m == [tx |-> job[cl].tx, part |-> "body", sms |-> TRUE]
    <3>1. inbox' = Append(inbox, m) /\ inbox = <<>>
      BY <1>2, <2>2 DEF Write, WriteBody, Quiet
    <3>2. inbox' = <<m>>
      BY <3>1
    <3>3. job[cl].sms = TRUE /\ pc'[cl] \in Confirming /\ job' = job
      BY <1>1, <1>3, <2>2 DEF Confirming
    <3>4. Written(cl)' = m
      BY <3>3, Zenon DEF Written
    <3> QED BY <3>2, <3>4
  <2> QED BY <1>1, <2>1, <2>2
<1>5. Owed(cl)'
  BY <1>1, <1>2, <1>4 DEF Owed, Quiet
<1>6. AskingOK(cl)'
  <2>1. CASE pc[cl] = "write"
    <3>1. Own(cl)' = {}
      BY <1>2, <2>1 DEF CallerOwns
    <3> QED BY <1>1, <1>5, <2>1, <3>1 DEF AskingOK, Unanswered, Confirming
  <2>2. CASE pc[cl] = "body"
    <3>1. pc'[cl] \in Confirming /\ job'[cl].sms
      BY <1>1, <1>3, <2>2 DEF Confirming
    <3>2. \A a \in Own(cl)' : a.tx = job'[cl].tx /\ a.token = "prompt"
      BY <1>1, <1>2, <2>2 DEF CallerOwns
    <3> QED BY <1>5, <3>1, <3>2 DEF AskingOK, Unanswered
  <2> QED BY <1>1, <2>1, <2>2
<1>7. CallerOwns(cl)' /\ pc'[cl] \in Asking
  BY <1>1, <1>6 DEF CallerOwns, Asking, Confirming
<1> QED BY <1>1, <1>7, HolderStep DEF AnswersOK

\* The wait and the look go round without touching an answer.
LEMMA LookAnswers ==
  ASSUME TypeOK, LockOwned, AnswersOK, NEW cl \in Callers, Look(cl) \/ Wakeup(cl)
  PROVE  AnswersOK'
<1>1. /\ pc[cl] \in Asking /\ pc'[cl] \in Asking
      /\ (pc'[cl] \in Confirming <=> pc[cl] \in Confirming)
  BY DEF Look, Wakeup, Goto, TypeOK, CallersOK, Asking, Confirming, Waiting
<1>2. UNCHANGED <<job, buffer, inbox, outbox, got>>
  BY DEF Look, Wakeup, readerVars, modemVars
<1>3. \A x \in Callers \ {cl} : pc'[x] = pc[x]
  BY DEF Look, Wakeup, Goto, TypeOK, CallersOK
<1>4. AskingOK(cl) BY <1>1 DEF AnswersOK, CallerOwns
<1>5. Own(cl)' = Own(cl) /\ Written(cl)' = Written(cl) /\ Quiet' = Quiet
  BY <1>1, <1>2 DEF Own, ProcessOf, Written, Quiet
<1>6. Owed(cl)' = Owed(cl) /\ Unanswered(cl)' = Unanswered(cl)
  BY <1>1, <1>2, <1>5 DEF Owed, Unanswered
<1>7. AskingOK(cl)'
  BY <1>1, <1>2, <1>4, <1>5, <1>6 DEF AskingOK
<1>8. CallerOwns(cl)'
  BY <1>1, <1>7, StagesHold DEF CallerOwns
<1> QED BY <1>1, <1>2, <1>3, <1>8, HolderStep, StagesHold DEF AnswersOK

\* A caller that finds the end of its answer has it, and nothing is on its way.
LEMMA FoundQuiet ==
  ASSUME TypeOK, AnswersOK, NEW cl \in Callers, pc[cl] \in {"read", "readBody"}, Found(cl)
  PROVE  Quiet /\ AskingOK(cl)
<1>1. AskingOK(cl)
  BY DEF AnswersOK, CallerOwns, Asking, Confirming
<1>2. ~ Unanswered(cl)
  BY DEF Found, Tokens, Unanswered, Own, Confirming
<1> QED BY <1>1, <1>2 DEF AskingOK

LEMMA PromptedAnswers ==
  ASSUME TypeOK, LockOwned, AnswersOK, NEW cl \in Callers, Prompted(cl)
  PROVE  AnswersOK'
<1>1. /\ pc[cl] = "read" /\ pc'[cl] = "body" /\ job[cl].sms /\ pc[cl] \in Holding
      /\ UNCHANGED <<job, buffer, inbox, outbox, got>>
      /\ \A x \in Callers \ {cl} : pc'[x] = pc[x]
      /\ \A a \in Own(cl) : a.token # "error"
  BY DEF Prompted, Goto, TypeOK, CallersOK, readerVars, modemVars, Own, Holding
<1>2. Quiet /\ AskingOK(cl)
  BY <1>1, FoundQuiet DEF Prompted
<1>3. Replies(Written(cl)) = {"prompt", "error"}
  BY <1>1 DEF Replies, Written, Confirming
<1>4. \A a \in Own(cl) : a.tx = job[cl].tx /\ a.token = "prompt"
  BY <1>1, <1>2, <1>3 DEF AskingOK
<1>5. CallerOwns(cl)'
  BY <1>1, <1>4 DEF CallerOwns, Own, ProcessOf, Asking, Confirming
<1>6. Quiet'
  BY <1>1, <1>2 DEF Quiet
<1> QED BY <1>1, <1>5, <1>6, HolderStep DEF AnswersOK

LEMMA AnsweredAnswers ==
  ASSUME TypeOK, LockOwned, AnswersOK, NEW cl \in Callers, Answered(cl)
  PROVE  AnswersOK'
<1>1. /\ pc[cl] \in {"read", "readBody"} /\ pc'[cl] \in {"idle", "exit"} /\ pc[cl] \in Holding
      /\ got' = [got EXCEPT ![job[cl].tx] = Own(cl)]
      /\ UNCHANGED <<inbox, outbox>>
      /\ \A x \in Callers \ {cl} : pc'[x] = pc[x]
  BY DEF Answered, Finish, TypeOK, CallersOK, modemVars, Own, Holding
<1>2. Quiet /\ AskingOK(cl)
  BY <1>1, FoundQuiet DEF Answered
<1>3. \A t \in Tx : \A a \in got'[t] : a.tx = t
  BY <1>1, <1>2 DEF AskingOK, AnswersOK, TypeOK, ModemOK
<1>4. CallerOwns(cl)' /\ Quiet'
  BY <1>1, <1>2 DEF CallerOwns, Asking, Confirming, Quiet
<1> QED BY <1>1, <1>3, <1>4, HolderStep

\* An error before or between the writes, the second try, and the opening of
\* the port: nothing is on its way, and the next try drains again.
LEMMA ErrorAnswers ==
  ASSUME TypeOK, LockOwned, AnswersOK, NEW cl \in Callers,
         Open(cl) \/ OpenFails(cl) \/ WriteFails(cl) \/ Retry(cl)
  PROVE  AnswersOK'
<1>1. /\ pc[cl] \in Holding \ Asking
      /\ pc'[cl] \in {"drain", "pause", "idle", "exit", "open"}
      /\ UNCHANGED <<inbox, outbox, got>>
      /\ \A x \in Callers \ {cl} : pc'[x] = pc[x]
  <2>1. CASE Open(cl) \/ Retry(cl)
    BY <2>1 DEF Open, Retry, Goto, TypeOK, CallersOK, modemVars, Holding, Asking, Confirming, Waiting
  <2>2. CASE OpenFails(cl) \/ WriteFails(cl)
    BY <2>2 DEF OpenFails, WriteFails, Fail, Finish, Goto, TypeOK, CallersOK, modemVars, Holding,
                Asking, Confirming, Waiting
  <2> QED BY <2>1, <2>2
<1>2. Quiet'
  BY <1>1, QuietOutside DEF Quiet
<1>3. CallerOwns(cl)'
  BY <1>1 DEF CallerOwns, Asking, Confirming
<1> QED BY <1>1, <1>2, <1>3, HolderStep DEF AnswersOK

LEMMA OutsideAnswers ==
  ASSUME TypeOK, AnswersOK, NEW cl \in Callers,
         LockGlobal(cl) \/ LockFails(cl) \/ Exit(cl) \/ \E sms \in BOOLEAN : Begin(cl, sms)
  PROVE  AnswersOK'
<1>1. /\ pc'[cl] \in {"open", "idle", "exit", "flock"} /\ pc[cl] \in {"flock", "exit", "idle"}
      /\ UNCHANGED <<inbox, outbox, got>>
      /\ \A x \in Callers \ {cl} : pc'[x] = pc[x] /\ job'[x] = job[x]
  BY DEF LockGlobal, LockFails, Exit, Begin, Goto, TypeOK, CallersOK, modemVars
<1>2. ASSUME NEW x \in Callers \ {cl} PROVE buffer'[ProcessOf(x)] \subseteq Own(x)
  <2>1. CASE Exit(cl)
    BY <2>1, CallerFacts DEF Exit, Own, TypeOK, ReadersOK
  <2>2. CASE UNCHANGED buffer BY <2>2 DEF Own
  <2> QED BY <2>1, <2>2 DEF LockGlobal, LockFails, Begin, readerVars
<1> QED BY <1>1, <1>2, OutsideStep DEF Asking, Confirming

LEMMA StillAnswers ==
  ASSUME AnswersOK, UNCHANGED <<pc, job, buffer, inbox, outbox, got>>
  PROVE  AnswersOK'
<1>1. \A cl \in Callers : CallerOwns(cl)'
  BY OwnsKept DEF AnswersOK, Own
<1> QED BY <1>1 DEF AnswersOK, Quiet

LEMMA ModemAnswers ==
  ASSUME TypeOK, LockOwned, AnswersOK, ModemRuns
  PROVE  AnswersOK'
<1>1. UNCHANGED <<pc, job, buffer, got>> /\ inbox # <<>>
  BY DEF ModemRuns, callerVars, readerVars
<1>2. PICK cl \in Callers : pc[cl] \in Asking
  BY <1>1 DEF AnswersOK, Quiet
<1>3. AskingOK(cl) BY <1>2 DEF AnswersOK, CallerOwns
<1>4. inbox = <<Written(cl)>> /\ outbox = <<>> /\ Unanswered(cl)
  BY <1>1, <1>3 DEF AskingOK, Quiet, Owed
<1>5. /\ inbox' = <<>>
      /\ \/ outbox' = <<>>
         \/ \E k \in Replies(Written(cl)) : outbox' = <<[tx |-> job[cl].tx, token |-> k]>>
  <2>1. Head(inbox) = Written(cl) /\ Tail(inbox) = <<>> /\ Written(cl).tx = job[cl].tx
    BY <1>4 DEF Written
  <2> QED BY <1>4, <2>1 DEF ModemRuns
<1>6. Written(cl)' = Written(cl) /\ Own(cl)' = Own(cl) /\ Unanswered(cl)'
  BY <1>1, <1>4 DEF Written, Own, ProcessOf, Unanswered
<1>7. Quiet' \/ Owed(cl)'
  BY <1>1, <1>5, <1>6 DEF Quiet, Owed
<1>8. AskingOK(cl)'
  BY <1>1, <1>3, <1>6, <1>7 DEF AskingOK
<1>9. CallerOwns(cl)' /\ pc'[cl] \in Asking
  BY <1>1, <1>2, <1>8, StagesHold DEF CallerOwns
<1> QED BY <1>1, <1>2, <1>9, HolderStep, StagesHold DEF AnswersOK

LEMMA DeliverAnswers ==
  ASSUME TypeOK, LockOwned, AnswersOK, NEW p \in Processes, Deliver(p)
  PROVE  AnswersOK'
<1>1. UNCHANGED <<pc, job, inbox, got>> /\ outbox # <<>>
  BY DEF Deliver, callerVars
<1>2. PICK cl \in Callers : pc[cl] \in Asking
  BY <1>1 DEF AnswersOK, Quiet
<1>3. AskingOK(cl) BY <1>2 DEF AnswersOK, CallerOwns
<1>4. PICK k \in Replies(Written(cl)) :
        inbox = <<>> /\ outbox = <<[tx |-> job[cl].tx, token |-> k]>>
  BY <1>1, <1>3 DEF AskingOK, Quiet, Owed
<1> DEFINE a == [tx |-> job[cl].tx, token |-> k]
<1>5. Quiet' /\ buffer' = [buffer EXCEPT ![p] = @ \union {a}]
  BY <1>1, <1>4 DEF Deliver, Quiet
<1>6. Own(cl)' \in SUBSET (Own(cl) \union {a})
  BY <1>5, CallerFacts DEF Own, ProcessOf, TypeOK, ReadersOK
<1>7. Written(cl)' = Written(cl) BY <1>1 DEF Written
<1>8. AskingOK(cl)'
  BY <1>1, <1>3, <1>4, <1>5, <1>6, <1>7 DEF AskingOK
<1>9. CallerOwns(cl)' /\ pc'[cl] \in Asking
  BY <1>1, <1>2, <1>8, StagesHold DEF CallerOwns
<1> QED BY <1>1, <1>2, <1>9, HolderStep, StagesHold DEF AnswersOK

LEMMA AnswerStep ==
  ASSUME TypeOK, LockOwned, AnswerInv, [Next]_vars
  PROVE  AnswerInv'
<1> SUFFICES ASSUME ~ missed' PROVE AnswersOK'
  BY DEF AnswerInv
<1>1. ASSUME missed PROVE FALSE
  BY <1>1 DEF Next, Proceed, Progress, LockGlobal, LockFails, Open, OpenFails, DrainStart,
    DrainMore, DrainEnd, Write, WriteBody, WriteFails, Look, Prompted, Answered, Wakeup, Deadline,
    DeadlineBody, Retry, Exit, Begin, ModemRuns, HelperStep, Deliver, HelperDies, HelperRestarts,
    HelperRestartFails, ServiceDies, vars
<1>2. AnswersOK BY <1>1 DEF AnswerInv
<1>3. ASSUME NEW cl \in Callers, Proceed(cl) \/ \E sms \in BOOLEAN : Begin(cl, sms)
      PROVE  AnswersOK'
  <2>1. ~ Deadline(cl) /\ ~ DeadlineBody(cl)
    BY DEF Deadline, DeadlineBody
  <2> QED BY <1>2, <1>3, <2>1, DrainAnswers, DrainedAnswers, WriteAnswers, LookAnswers,
             PromptedAnswers, AnsweredAnswers, ErrorAnswers, OutsideAnswers DEF Proceed, Progress
<1>4. CASE ModemRuns BY <1>2, <1>4, ModemAnswers
<1>5. ASSUME NEW p \in Processes, HelperStep(p) PROVE AnswersOK'
  <2>1. CASE Deliver(p) BY <1>2, <2>1, DeliverAnswers
  <2>2. CASE UNCHANGED <<pc, job, buffer, inbox, outbox, got>>
    BY <1>2, <2>2, StillAnswers
  <2> QED BY <1>5, <2>1, <2>2 DEF HelperStep, HelperDies, HelperRestarts, HelperRestartFails,
             callerVars, modemVars
<1>6. CASE UNCHANGED vars
  BY <1>2, <1>6, StillAnswers DEF vars, callerVars, modemVars, readerVars
<1>7. ~ ServiceDies BY DEF ServiceDies
<1> QED BY <1>3, <1>4, <1>5, <1>6, <1>7 DEF Next

\* As long as every transaction waited for its answer and none was killed, what
\* a transaction returns is its own, whatever other processes and helpers do
\* (main.go, runATPayload; native_serial.go, readUntilTokens).
THEOREM OwnAnswerCorrect == Spec => []OwnAnswer
<1> DEFINE Inv == TypeOK /\ LockOwned /\ AnswerInv
<1>1. Init => Inv
  BY InitTypes, StagesHold DEF Init, AnswerInv, AnswersOK, CallerOwns, Quiet
<1>2. Inv /\ [Next]_vars => Inv'
  BY CallerStep, ReaderTypes, ModemTypes, AnswerStep DEF CallerInv, TypeOK
<1>3. Inv => OwnAnswer
  BY DEF AnswerInv, AnswersOK, OwnAnswer
<1> QED BY <1>1, <1>2, <1>3, PTL DEF Spec

-----------------------------------------------------------------------------
(* The promise.  A step of a caller is a step of the port that the mapping  *)
(* shows by the lock file, the transaction and what is returned.            *)

\* Who is not in a transaction has none.
Resting == \A cl \in Callers : pc[cl] \in {"idle", "exit"} => job[cl] = NoJob

LEMMA RestingStep ==
  ASSUME CallersOK, Resting, [Next]_vars
  PROVE  Resting'
<1>1. ASSUME NEW cl \in Callers, Proceed(cl) PROVE Resting'
  <2>1. CASE Finish(cl) \/ LockFails(cl)
    BY <2>1 DEF Finish, LockFails, Goto, CallersOK, Resting
  <2>2. CASE Retry(cl)
    BY <2>2 DEF Retry, Goto, CallersOK, Resting
  <2>3. CASE Exit(cl)
    BY <2>3 DEF Exit, Goto, CallersOK, Resting
  <2>4. CASE UNCHANGED job /\ UNCHANGED pc
    BY <2>4 DEF Resting
  <2>5. ASSUME NEW s \in {"open", "drain", "draining", "write", "read", "body", "readBody",
                          "pause", "select", "broken", "selectBody"},
               Goto(cl, s), UNCHANGED job
        PROVE  Resting'
    BY <2>5 DEF Goto, CallersOK, Resting
  <2>6. \/ Finish(cl) \/ LockFails(cl) \/ Retry(cl) \/ Exit(cl) \/ (UNCHANGED job /\ UNCHANGED pc)
        \/ \E s \in {"open", "drain", "draining", "write", "read", "body", "readBody",
                     "pause", "select", "broken", "selectBody"} : Goto(cl, s) /\ UNCHANGED job
    <3>1. CASE LockGlobal(cl) \/ Open(cl) \/ DrainStart(cl) \/ DrainEnd(cl) \/ Write(cl)
               \/ WriteBody(cl) \/ Look(cl) \/ Prompted(cl) \/ Wakeup(cl)
      BY <3>1 DEF LockGlobal, Open, DrainStart, DrainEnd, Write, WriteBody, Look, Prompted, Wakeup
    <3>2. CASE DrainMore(cl) BY <3>2 DEF DrainMore, callerVars
    <3>3. CASE Answered(cl) \/ DeadlineBody(cl) BY <3>3 DEF Answered, DeadlineBody
    <3>4. CASE OpenFails(cl) \/ WriteFails(cl) \/ Deadline(cl)
      BY <3>4 DEF OpenFails, WriteFails, Deadline, Fail
    <3> QED BY <1>1, <3>1, <3>2, <3>3, <3>4 DEF Proceed, Progress
  <2> QED BY <2>1, <2>2, <2>3, <2>4, <2>5, <2>6
<1>2. ASSUME NEW cl \in Callers, NEW sms \in BOOLEAN, Begin(cl, sms) PROVE Resting'
  BY <1>2 DEF Begin, Goto, CallersOK, Resting
<1>3. CASE ServiceDies
  BY <1>3 DEF ServiceDies, Resting
<1>4. CASE ModemRuns \/ (\E p \in Processes : HelperStep(p)) \/ UNCHANGED vars
  BY <1>4 DEF ModemRuns, HelperStep, Deliver, HelperDies, HelperRestarts, HelperRestartFails,
       vars, callerVars, Resting
<1> QED BY <1>1, <1>2, <1>3, <1>4 DEF Next

\* What the mapping makes of the caller's side.
LEMMA RequestOf == ASSUME NEW cl \in Callers PROVE Request[cl] = job[cl].tx
BY DEF Request

LEMMA RequestMoves ==
  ASSUME CallersOK, NEW cl \in Callers, NEW j, job' = [job EXCEPT ![cl] = j]
  PROVE  Request' = [Request EXCEPT ![cl] = j.tx]
BY DEF CallersOK, Request

LEMMA RequestStays == ASSUME UNCHANGED job PROVE UNCHANGED Request
BY DEF Request

LEMMA InsideAsked ==
  ASSUME CallersOK, NEW cl \in Callers, pc[cl] \in Holding \union {"flock"}
  PROVE  Request[cl] \in Tx /\ Request[cl] # 0
BY RequestOf DEF CallersOK, Tx

\* The return of a transaction is that of a user of the port.
LEMMA FinishLeaves ==
  ASSUME CallerInv, NEW cl \in Callers, pc[cl] \in Holding, Finish(cl)
  PROVE  Port!Leave(cl)
<1>1. flock = cl /\ flock' = Nobody BY DEF CallerInv, LockOwned, Finish
<1>2. Request' = [Request EXCEPT ![cl] = NoJob.tx]
  BY RequestMoves DEF Finish, CallerInv
<1>3. NoJob.tx = 0 BY DEF NoJob
<1> QED BY <1>1, <1>2, <1>3 DEF Port!Leave

LEMMA FailMaps ==
  ASSUME CallerInv, NEW cl \in Callers, pc[cl] \in Holding, NEW r \in BOOLEAN, Fail(cl, r),
         missed' \in {missed, TRUE}, UNCHANGED <<used, got, bodies>>
  PROVE  Port!GiveUp(cl) \/ Port!TryAgain(cl) \/ UNCHANGED Port!vars
<1>1. CASE Finish(cl)
  BY <1>1, FinishLeaves DEF Port!GiveUp
<1>2. CASE UNCHANGED <<job, flock>>
  <2>1. flock = cl /\ UNCHANGED Request BY <1>2, RequestStays DEF CallerInv, LockOwned
  <2>2. CASE missed' = TRUE BY <1>2, <2>1, <2>2 DEF Port!TryAgain
  <2>3. CASE missed' = missed BY <1>2, <2>1, <2>3 DEF Port!vars
  <2> QED BY <2>2, <2>3
<1> QED BY <1>1, <1>2 DEF Fail

LEMMA AnsweredMaps ==
  ASSUME TypeOK, LockOwned, AnswerInv, NEW cl \in Callers, Answered(cl)
  PROVE  Port!Return(cl)
<1>1. pc[cl] \in Holding /\ CallerInv BY DEF Answered, Holding, CallerInv, TypeOK
<1>2. Port!Leave(cl) BY <1>1, FinishLeaves DEF Answered
<1>3. Own(cl) \in (SUBSET Answer) \ {{}}
  <2>1. Own(cl) \in SUBSET Answer BY CallerFacts DEF Own, TypeOK, ReadersOK
  <2>2. Found(cl) BY DEF Answered
  <2>3. PICK a \in Own(cl) : TRUE BY <2>2, Zenon DEF Found, Own
  <2> QED BY <2>1, <2>3
<1>4. missed \/ \A a \in Own(cl) : a.tx = Request[cl]
  <2> SUFFICES ASSUME ~ missed PROVE \A a \in Own(cl) : a.tx = Request[cl] OBVIOUS
  <2>1. AskingOK(cl) BY FoundQuiet DEF Answered, AnswerInv
  <2> QED BY <2>1, RequestOf DEF AskingOK
<1>5. got' = [got EXCEPT ![Request[cl]] = Own(cl)] BY RequestOf DEF Answered, Own
<1>6. UNCHANGED <<used, bodies, missed>> BY DEF Answered, modemVars
<1> QED BY <1>2, <1>3, <1>4, <1>5, <1>6 DEF Port!Return

\* A body that the modem takes is the first of its transaction, and, while
\* every answer was waited for, that of the transaction that has the port.
LEMMA ModemMaps ==
  ASSUME TypeOK, LockOwned, BodyInv, AnswerInv, ModemRuns
  PROVE  (\E t \in Tx : Port!TakeBody(t)) \/ UNCHANGED Port!vars
<1> DEFINE m == Head(inbox)
<1>1. /\ inbox # <<>> /\ UNCHANGED <<used, job, flock, got, missed>> /\ UNCHANGED Request
      /\ bodies' = IF m.part = "body" THEN [bodies EXCEPT ![m.tx] = @ + 1] ELSE bodies
  BY RequestStays DEF ModemRuns, callerVars
<1>2. CASE m.part # "body" BY <1>1, <1>2 DEF Port!vars
<1>3. CASE m.part = "body"
  <2>1. 1 \in 1 .. Len(inbox) /\ m = inbox[1] /\ m.tx \in Tx
    <3>1. inbox \in Seq(Payload) BY DEF TypeOK, ModemOK
    <3>2. Len(inbox) \in Nat /\ Len(inbox) # 0 /\ m = inbox[1] BY <1>1, <3>1
    <3>3. m \in Payload BY <1>1, <3>1
    <3> QED BY <3>2, <3>3 DEF Payload
  <2>2. IsBody(1, m.tx) BY <1>3, <2>1 DEF IsBody
  <2>3. bodies[m.tx] = 0 BY <2>1, <2>2 DEF BodyInv, BodiesOnce
  <2>4. m.tx <= used
    <3>1. ~ Fresh(m.tx) BY <2>1, <2>2 DEF Fresh
    <3>2. used \in Nat /\ m.tx \in Nat BY <2>1 DEF TypeOK, CallersOK, Tx
    <3> QED BY <2>1, <3>1, <3>2 DEF BodyInv, BodiesOnce
  <2>5. missed \/ (flock # Nobody /\ Request[flock] = m.tx)
    <3> SUFFICES ASSUME ~ missed PROVE flock # Nobody /\ Request[flock] = m.tx OBVIOUS
    <3>1. PICK cl \in Callers : pc[cl] \in Asking
      BY <1>1 DEF AnswerInv, AnswersOK, Quiet
    <3>2. inbox = <<Written(cl)>>
      BY <1>1, <3>1 DEF AnswerInv, AnswersOK, CallerOwns, AskingOK, Quiet, Owed
    <3>3. m.tx = job[cl].tx BY <3>2 DEF Written
    <3>4. flock = cl BY <3>1, StagesHold DEF LockOwned
    <3> QED BY <3>3, <3>4, RequestOf, CallerFacts
  <2>6. bodies' = [bodies EXCEPT ![m.tx] = 1]
    BY <1>1, <1>3, <2>1, <2>3 DEF TypeOK, ModemOK
  <2> QED BY <1>1, <2>1, <2>3, <2>4, <2>5, <2>6 DEF Port!TakeBody
<1> QED BY <1>2, <1>3

LEMMA CallerMaps ==
  ASSUME TypeOK, LockOwned, AnswerInv, NEW cl \in Callers, Proceed(cl)
  PROVE  [Port!Next]_(Port!vars)
<1>1. CallerInv BY DEF CallerInv, TypeOK
<1>2. CASE LockGlobal(cl)
  <2>1. Request[cl] # 0 /\ UNCHANGED Request
    BY <1>1, <1>2, InsideAsked, RequestStays DEF LockGlobal, CallerInv
  <2>2. Port!Take(cl) BY <1>2, <2>1 DEF LockGlobal, Port!Take, modemVars
  <2> QED BY <2>2 DEF Port!Next
<1>3. CASE LockFails(cl)
  <2>1. Request[cl] # 0 /\ Request' = [Request EXCEPT ![cl] = 0]
    <3>1. Request' = [Request EXCEPT ![cl] = NoJob.tx]
      BY <1>1, <1>3, RequestMoves DEF LockFails, CallerInv
    <3>2. NoJob.tx = 0 BY DEF NoJob
    <3> QED BY <1>1, <1>3, <3>1, <3>2, InsideAsked DEF LockFails, CallerInv
  <2>2. flock # cl BY <1>3 DEF LockOwned, LockFails, Holding, Waiting
  <2>3. Port!Refuse(cl) BY <1>3, <2>1, <2>2 DEF LockFails, Port!Refuse, modemVars
  <2> QED BY <2>3 DEF Port!Next
<1>4. CASE Answered(cl)
  BY <1>4, AnsweredMaps DEF Port!Next
<1>5. CASE OpenFails(cl) \/ WriteFails(cl) \/ Deadline(cl) \/ DeadlineBody(cl)
  <2>1. Port!GiveUp(cl) \/ Port!TryAgain(cl) \/ UNCHANGED Port!vars
    <3>1. CASE OpenFails(cl)
      BY <1>1, <3>1, FailMaps DEF OpenFails, Holding, modemVars
    <3>2. CASE WriteFails(cl)
      BY <1>1, <3>2, FailMaps DEF WriteFails, Holding, modemVars
    <3>3. CASE Deadline(cl)
      BY <1>1, <3>3, FailMaps DEF Deadline, Holding, Waiting, modemVars
    <3>4. CASE DeadlineBody(cl)
      BY <1>1, <3>4, FinishLeaves DEF DeadlineBody, Holding, Waiting, modemVars, Port!GiveUp
    <3> QED BY <1>5, <3>1, <3>2, <3>3, <3>4
  <2> QED BY <2>1 DEF Port!Next
<1>6. CASE Retry(cl)
  <2>1. job[cl] \in Job /\ job' = [job EXCEPT ![cl] = [job[cl] EXCEPT !.try = @ + 1]]
    BY <1>6 DEF Retry, TypeOK, CallersOK
  <2>2. [job[cl] EXCEPT !.try = @ + 1].tx = job[cl].tx BY <2>1 DEF Job
  <2>3. Request' = [Request EXCEPT ![cl] = job[cl].tx]
    BY <1>1, <2>1, <2>2, RequestMoves DEF CallerInv
  <2>4. UNCHANGED Request BY <2>3 DEF Request
  <2> QED BY <1>6, <2>4 DEF Retry, Port!vars, modemVars
<1>7. CASE UNCHANGED <<job, flock, used, got, bodies, missed>>
  BY <1>7, RequestStays DEF Port!vars
<1>8. \/ LockGlobal(cl) \/ LockFails(cl) \/ Answered(cl) \/ OpenFails(cl) \/ WriteFails(cl)
      \/ Deadline(cl) \/ DeadlineBody(cl) \/ Retry(cl)
      \/ UNCHANGED <<job, flock, used, got, bodies, missed>>
  BY DEF Proceed, Progress, Open, DrainStart, DrainMore, DrainEnd, Write, WriteBody, Look,
       Prompted, Wakeup, Exit, callerVars, modemVars
<1> QED BY <1>2, <1>3, <1>4, <1>5, <1>6, <1>7, <1>8

LEMMA PortStep ==
  ASSUME TypeOK, LockOwned, BodyInv, AnswerInv, Resting, [Next]_vars
  PROVE  [Port!Next]_(Port!vars)
<1>1. ASSUME NEW cl \in Callers, Proceed(cl) PROVE [Port!Next]_(Port!vars)
  BY <1>1, CallerMaps
<1>2. ASSUME NEW cl \in Callers, NEW sms \in BOOLEAN, Begin(cl, sms)
      PROVE  [Port!Next]_(Port!vars)
  <2>1. Request[cl] = 0 BY <1>2, RequestOf DEF Begin, Resting, NoJob
  <2>2. Request' = [Request EXCEPT ![cl] = used + 1]
    BY <1>2, RequestMoves DEF Begin, TypeOK
  <2>3. Port!Ask(cl) BY <1>2, <2>1, <2>2 DEF Begin, Port!Ask, modemVars
  <2> QED BY <2>3 DEF Port!Next
<1>3. CASE ModemRuns BY <1>3, ModemMaps DEF Port!Next, Tx
<1>4. CASE (\E p \in Processes : HelperStep(p)) \/ UNCHANGED vars
  <2>1. UNCHANGED <<job, flock, used, got, bodies, missed>>
    BY <1>4 DEF HelperStep, Deliver, HelperDies, HelperRestarts, HelperRestartFails, vars,
         callerVars, modemVars
  <2> QED BY <2>1, RequestStays DEF Port!vars
<1>5. CASE ServiceDies
  <2>1. Request' = [cl \in Callers |-> IF cl \in ServiceCallers THEN 0 ELSE Request[cl]]
    BY <1>5 DEF ServiceDies, Request, NoJob
  <2>2. Port!ServiceDies BY <1>5, <2>1 DEF ServiceDies, Port!ServiceDies, modemVars
  <2> QED BY <2>2 DEF Port!Next
<1> QED BY <1>1, <1>2, <1>3, <1>4, <1>5 DEF Next

\* Whatever goroutines, processes and helpers do, each caller sees a port it has
\* to itself: its own answers while every answer is waited for, each SMS body
\* taken once, within its transaction or late (main.go, runATPayload and
\* sendSMSOnDevice; native_serial.go).
THEOREM ImplementsSerialPort == Spec => PortSpec
<1> DEFINE Inv == TypeOK /\ LockOwned /\ BodyInv /\ AnswerInv /\ Resting
<1>1. Init => Inv
  <2> SUFFICES ASSUME Init PROVE Inv OBVIOUS
  <2>1. TypeOK /\ LockOwned BY InitTypes
  <2>2. BodyInv BY BodyInvInit
  <2>3. AnswerInv
    BY StagesHold DEF Init, AnswerInv, AnswersOK, CallerOwns, Quiet
  <2>4. Resting BY DEF Init, Resting
  <2> QED BY <2>1, <2>2, <2>3, <2>4
<1>2. Init => Port!Init
  BY DEF Init, Port!Init, Request, NoJob, Tx
<1>3. Inv /\ [Next]_vars => Inv'
  BY CallerStep, ReaderTypes, ModemTypes, BodyInvStep, AnswerStep, RestingStep
  DEF CallerInv, TypeOK
<1>4. Inv /\ [Next]_vars => [Port!Next]_(Port!vars)
  BY PortStep
<1> QED BY <1>1, <1>2, <1>3, <1>4, PTL DEF Spec, PortSpec, Port!Spec
=============================================================================
