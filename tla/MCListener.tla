----------------------------- MODULE MCListener -----------------------------
(* Instance of Listener for TLC: the hub's host h1 at the other end of     *)
(* every connection, two slots for three answers.                          *)
EXTENDS Listener

CONSTANTS n1, h1, p1

MCNameOf == [c \in Clients |-> n1]
MCHostOf == [c \in Clients |-> h1]
MCPortOf == [c \in Clients |-> p1]

MCNameCuts == [n \in Names |-> {}]
MCPortCuts == [p \in Ports |-> {}]
=============================================================================
