---------------------------- MODULE MCUserTable ----------------------------
(* Instances of UserTable for TLC: three names (two for the histories with *)
(* repeated logins), two hosts, storage for two users at first, so that    *)
(* the third login moves the list.                                         *)
EXTENDS UserTable, TLC

Symmetry == Permutations(Names) \cup Permutations(Hosts) \cup Permutations(Ports)
=============================================================================
