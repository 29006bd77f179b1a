--------------------------- MODULE PairingLedger ---------------------------
(***************************************************************************)
(* What the hub promises its users, with the list, its storage and the     *)
(* addresses left out: who is registered, who is whose opposite, who is    *)
(* playing, and whom the data of a player can reach.  UserTable implements *)
(* it as long as nobody logs in twice under one name.                      *)
(***************************************************************************)
EXTENDS Naturals

CONSTANTS Names, NoName

VARIABLES
    registered,   \* the users that have logged in
    partner,      \* the opposite each was last paired with, NoName if none
    playing,      \* the users in a game
    line,         \* the last relay: whose data, and which users it can reach
    up            \* FALSE once the hub is down

ledgerVars == <<registered, partner, playing, line, up>>

NoRelay == [from |-> NoName, reach |-> {}]

LedgerTypeOK ==
    /\ registered \subseteq Names
    /\ partner \in [Names -> Names \cup {NoName}]
    /\ playing \subseteq registered
    /\ line \in [from : Names \cup {NoName}, reach : SUBSET registered]
    /\ up \in BOOLEAN

LedgerInit ==
    /\ registered = {}
    /\ partner = [n \in Names |-> NoName]
    /\ playing = {}
    /\ line = NoRelay
    /\ up = TRUE

Register(n) ==
    /\ n \notin registered
    /\ registered' = registered \cup {n}
    /\ line' = NoRelay
    /\ UNCHANGED <<partner, playing, up>>

\* An invitation is not asked about: it pairs the two at once, and takes
\* either of them away from whomever it was playing with.
Pair(a, b) ==
    /\ a \in registered /\ b \in registered /\ a # b
    /\ partner' = [partner EXCEPT ![a] = b, ![b] = a]
    /\ playing' = playing \cup {a, b}
    /\ line' = NoRelay
    /\ UNCHANGED <<registered, up>>

\* Leaving ends the game of the user's opposite too.
Leave(a) ==
    /\ a \in registered /\ partner[a] # NoName
    /\ partner' = [partner EXCEPT ![partner[a]] = a]
    /\ playing' = playing \ {a, partner[a]}
    /\ line' = NoRelay
    /\ UNCHANGED <<registered, up>>

\* Data of a player can reach its partner or nobody; users that announced
\* the partner's address as their own share it.
Relayed(a, reach) ==
    /\ a \in playing
    /\ reach = {} \/ partner[a] \in reach
    /\ line' = [from |-> a, reach |-> reach]
    /\ UNCHANGED <<registered, partner, playing, up>>

Idle ==
    /\ line' = NoRelay
    /\ UNCHANGED <<registered, partner, playing, up>>

Halt ==
    /\ up' = FALSE
    /\ line' = NoRelay
    /\ UNCHANGED <<registered, partner, playing>>

LedgerNext ==
    /\ up
    /\ \/ \E n \in Names : Register(n) \/ Leave(n)
       \/ \E a, b \in Names : Pair(a, b)
       \/ \E a \in Names, reach \in SUBSET registered : Relayed(a, reach)
       \/ Idle
       \/ Halt

LedgerSpec == LedgerInit /\ [][LedgerNext]_ledgerVars
=============================================================================
