---------------------------- MODULE MCServerSync ----------------------------
(* TLC instances of ServerSync: connections enough for every failure.       *)
EXTENDS ServerSync
=============================================================================
