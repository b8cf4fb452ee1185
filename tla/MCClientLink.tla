---------------------------- MODULE MCClientLink ----------------------------
(* TLC instances of ClientLink: the cfgs choose how many heartbeats, resets *)
(* and late answers there may be.                                           *)
EXTENDS ClientLink
=============================================================================
