---------------------------- MODULE MCATTransport ----------------------------
(* Symmetry for checking ATTransport with TLC; only for safety runs. *)
EXTENDS ATTransport, TLC

Symmetry == Permutations(ServiceCallers) \union Permutations(CLICallers)
=============================================================================
