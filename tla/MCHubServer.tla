---------------------------- MODULE MCHubServer ----------------------------
(* Instances of HubServer for TLC: clients at hosts of their own, with the *)
(* announced ports and the names one to one.                               *)
EXTENDS HubServer, TLC

CONSTANTS c1, c2, c3, n1, n2, n3, h1, h2, h3, p1, p2, p3

MCNameOf == [c \in Clients |-> CASE c = c1 -> n1 [] c = c2 -> n2 [] OTHER -> n3]
MCHostOf == [c \in Clients |-> CASE c = c1 -> h1 [] c = c2 -> h2 [] OTHER -> h3]
MCPortOf == [c \in Clients |-> CASE c = c1 -> p1 [] c = c2 -> p2 [] OTHER -> p3]

\* n1 begins n2, and p1 the port p2.
MCNameCuts == [n \in Names |-> IF n = n2 THEN {n1} ELSE {}]
MCPortCuts == [p \in Ports |-> IF p = p2 THEN {p1} ELSE {}]
=============================================================================
