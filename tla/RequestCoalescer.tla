--------------------------- MODULE RequestCoalescer ---------------------------
(***************************************************************************)
(* What the AT cache promises its callers, and no more: for every key      *)
(* (AT command) at most one execution is in flight, a caller may wait for  *)
(* an execution in flight, the end of the execution releases all who wait  *)
(* for it at once, and every execution ends.  (README.md: enqueue "merges  *)
(* concurrent requests for the same command".)                             *)
(***************************************************************************)
CONSTANTS Keys, Callers, NoKey

VARIABLES
  inflight,    \* keys with an execution in flight
  waitingFor   \* the key each caller waits for, or NoKey

vars == <<inflight, waitingFor>>

Init ==
  /\ inflight = {}
  /\ waitingFor = [cl \in Callers |-> NoKey]

\* A new execution, for nobody (a refresh) or for a caller that waits for it.
Start(k) ==
  /\ k \notin inflight
  /\ inflight' = inflight \union {k}
  /\ \/ UNCHANGED waitingFor
     \/ \E cl \in Callers :
          /\ waitingFor[cl] = NoKey
          /\ waitingFor' = [waitingFor EXCEPT ![cl] = k]

Join(cl, k) ==
  /\ k \in inflight /\ waitingFor[cl] = NoKey
  /\ waitingFor' = [waitingFor EXCEPT ![cl] = k]
  /\ UNCHANGED inflight

GiveUp(cl) ==
  /\ waitingFor[cl] # NoKey
  /\ waitingFor' = [waitingFor EXCEPT ![cl] = NoKey]
  /\ UNCHANGED inflight

Complete(k) ==
  /\ k \in inflight
  /\ inflight' = inflight \ {k}
  /\ waitingFor' = [cl \in Callers |->
                      IF waitingFor[cl] = k THEN NoKey ELSE waitingFor[cl]]

Next ==
  \/ \E k \in Keys : Start(k) \/ Complete(k)
  \/ \E cl \in Callers : GiveUp(cl) \/ \E k \in Keys : Join(cl, k)

Spec == Init /\ [][Next]_vars

FairSpec == Spec /\ \A k \in Keys : WF_vars(Complete(k))
=============================================================================
