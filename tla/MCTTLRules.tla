------------------------------ MODULE MCTTLRules ------------------------------
(* Constants for checking TTLRules with TLC: rules of others that lack a   *)
(* mark or two, and one that has them all beside a match of its own.       *)
EXTENDS TTLRules

CONSTANTS lan, mangler, increment, lookalike

MCOthers == {lan, mangler, increment, lookalike}

MCCarries ==
  [o \in MCOthers |-> CASE o = lan       -> {"target", "flag"}
                       [] o = mangler   -> {"interface"}
                       [] o = increment -> {"interface", "target"}
                       [] o = lookalike -> Marks]
=============================================================================
