---------------------------- MODULE MCChatSystem ----------------------------
(* Instance of ChatSystem for TLC: a pair with a third client that only    *)
(* connects, second logins, exits, an invitation repeated, two clients     *)
(* that invite the same third, and a client whose name begins another's.   *)
EXTENDS ChatSystem

CONSTANTS c1, c2, c3, n1, n2, n3, h1, h2, h3, p1, p2, p3, d1, d2

MCNameOf == [c \in Clients |-> CASE c = c1 -> n1 [] c = c2 -> n2 [] OTHER -> n3]
MCHostOf == [c \in Clients |-> CASE c = c1 -> h1 [] c = c2 -> h2 [] OTHER -> h3]
MCPortOf == [c \in Clients |-> CASE c = c1 -> p1 [] c = c2 -> p2 [] OTHER -> p3]

\* n3 begins n2, and p1 is read off a beginning of p3.
MCNameCuts == [n \in Names |-> IF n = n2 THEN {n3} ELSE {}]
MCPortCuts == [p \in Ports |-> IF p = p3 THEN {p1} ELSE {}]

In(c)   == [op |-> "login", arg |-> MCPortOf[c]]
Ls      == [op |-> "list", arg |-> NoName]
Inv(n)  == [op |-> "invite", arg |-> n]
Say     == [op |-> "data", arg |-> d1]
SayCode == [op |-> "data", arg |-> d2]
Out     == [op |-> "exit", arg |-> NoName]

Scenario(a, b, c) == (c1 :> a) @@ (c2 :> b) @@ (c3 :> c)

Pairs ==
    {Scenario(<<In(c1), Inv(n2), Say, Say>>, <<In(c2), Ls>>, <<>>),
     Scenario(<<In(c1), Inv(n2), Say>>, <<In(c2), In(c2)>>, <<>>),
     Scenario(<<In(c1), In(c1), Inv(n2)>>, <<In(c2), Out>>, <<>>),
     Scenario(<<In(c1)>>, <<In(c2), Inv(n1), Inv(n1)>>, <<>>),
     Scenario(<<In(c1), Inv(n2), Say>>, <<>>, <<In(c3)>>),
     Scenario(<<In(c1), Inv(n3), Say>>, <<In(c2)>>, <<>>),
     Scenario(<<In(c1), SayCode>>, <<In(c2)>>, <<>>),
     Scenario(<<In(c1), Inv(n2)>>, <<In(c2)>>, <<Out>>)}

\* Two clients invite the same third.
Crowd == Scenario(<<In(c1), Say>>, <<In(c2), Inv(n1)>>, <<In(c3), Inv(n1)>>)

MCScripts == Pairs \cup {Crowd}
MCMaxBusy == [s \in Scripts |-> IF s = Crowd THEN 1 ELSE 2]

ASSUME DistinctHere == DistinctClients
=============================================================================
