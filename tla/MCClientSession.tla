-------------------------- MODULE MCClientSession --------------------------
(* Instance of ClientSession for TLC: two messages, so that a stale buffer *)
(* or length differs from the one wanted, and four requests that return 0. *)
EXTENDS ClientSession
=============================================================================
