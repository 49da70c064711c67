---------------------------- MODULE ATCacheHistory ----------------------------
(***************************************************************************)
(* ATCache with history variables that remember whether a Fetch was told   *)
(* to wait and whether its command was executed while it ran, so that what *)
(* it returns can be compared with what it waited for.  They observe steps *)
(* and never disable one.                                                  *)
(***************************************************************************)
EXTENDS ATCache

VARIABLES
  told,       \* the Fetch was told to wait, as every Fetch of runPageAction is
  answered    \* an execution of the Fetch's command was stored while it ran

hvars == <<vars, told, answered>>

HInit == Init /\ told = [cl \in Clients |-> FALSE] /\ answered = [cl \in Clients |-> FALSE]

Starts(cl)  == pc[cl] = "idle" /\ pc'[cl] # "idle"
Returns(cl) == pc[cl] = "return" /\ pc'[cl] = "idle"

HNext ==
  /\ Next
  /\ told' = [cl \in Clients |-> IF Starts(cl) THEN req'[cl].block ELSE told[cl] /\ ~Returns(cl)]
  /\ answered' = [cl \in Clients |->
       /\ ~Starts(cl) /\ ~Returns(cl)
       /\ answered[cl] \/ (pc[cl] # "idle" /\ req[cl].cmd \in running \ running')]

HSpec == HInit /\ [][HNext]_hvars
-----------------------------------------------------------------------------
\* README: the steps of a page action continue "after each OK was received".
\* The OK runPageAction returns, which always waits for its Fetch, would be
\* one that arrived while it waited.
OKIsOwn ==
  \A cl \in Clients :
    /\ pc[cl] = "return" /\ told[cl] /\ req[cl].cmd \in Actions
    /\ reply[cl].kind = "ok"
    => answered[cl]
=============================================================================
