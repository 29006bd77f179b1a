----------------------------- MODULE UserTable -----------------------------
(***************************************************************************)
(* The list of logged users the hub keeps (g_UserList) and the handlers of *)
(* DispatchMsg that read and write it: Socket/CreateServer.cpp 57-255 and  *)
(* 412-432.  One action is one complete handler; the hub runs them one at  *)
(* a time on its own thread, so a handler is atomic with respect to the    *)
(* list.  The address `a' a handler is given is the one found in the hub's *)
(* client_addr when the message is dispatched; HubServer says which one    *)
(* that is.                                                                *)
(*                                                                         *)
(* A name, a host and a payload are opaque; "" as a name or a host and -1  *)
(* as a port are the values NoName, NoHost and NoPort.                     *)
(***************************************************************************)
EXTENDS Naturals, Sequences

CONSTANTS
    Names,      \* user names (never empty)
    Hosts,      \* IPv4 addresses of the clients
    Ports,      \* listener ports the clients announce
    Payloads,   \* game data relayed by ASK_DATA
    NoName,     \* the empty name
    NoHost,     \* the empty server_name
    NoPort,     \* server port -1 of a user that has none
    Slack,      \* spare elements the vector reserves when it grows (16 in cstl)
    MaxUsers    \* bound on the length of the list

ASSUME NoNameAssumption == NoName \notin Names
ASSUME NoHostAssumption == NoHost \notin Hosts
ASSUME NoPortAssumption == NoPort \notin Ports
ASSUME SlackAssumption  == Slack \in Nat

VARIABLES
    g_UserList,   \* the logged users, in order of login
    capacity,     \* elements the vector has storage for
    running,      \* FALSE once a handler has brought the process down
    sent          \* the SendInfo call of the last handler, NoSend if none

vars == <<g_UserList, capacity, running, sent>>

(***************************************************************************)
(* Users.                                                                  *)
(***************************************************************************)
User == [name : Names \cup {NoName},
         server_name : Hosts \cup {NoHost}, server_port : Ports \cup {NoPort},
         is_conn : BOOLEAN, conn_name : Names \cup {NoName},
         conn_server_name : Hosts \cup {NoHost},
         conn_server_port : Ports \cup {NoPort}]

\* _user_init and the constructor of User
BlankUser == [name |-> NoName, server_name |-> NoHost, server_port |-> NoPort,
              is_conn |-> FALSE, conn_name |-> NoName,
              conn_server_name |-> NoHost, conn_server_port |-> NoPort]

\* _user_copy: what u0 becomes.  Its last two assignments copy fields of u0
\* to themselves, so the address of the opposite stays that of u0.
CopyUser(u0, u1) ==
    [u1 EXCEPT !.conn_server_name = u0.conn_server_name,
               !.conn_server_port = u0.conn_server_port]

MakeUserNoPort(n, p, a) == [BlankUser EXCEPT !.name = n, !.server_name = a]

\* MakeUser of a login by n, announcing port p, dispatched with address a
MakeUser(n, p, a) ==
    [name |-> n, server_name |-> a, server_port |-> p,
     is_conn |-> FALSE, conn_name |-> NoName,
     conn_server_name |-> NoHost, conn_server_port |-> NoPort]

(***************************************************************************)
(* cstl vector_push_back.  A full vector moves to storage with room for    *)
(* half as many elements again, at least Slack: every element there is     *)
(* blank first and is then assigned with the registered copy.              *)
(***************************************************************************)
Grown(size) ==
    size + 1 + (IF (size + 1) \div 2 > Slack THEN (size + 1) \div 2 ELSE Slack)

Moved(list) == [i \in DOMAIN list |-> CopyUser(BlankUser, list[i])]

VectorPushBack(u) ==
    LET full == Len(g_UserList) = capacity
    IN  /\ capacity' = IF full THEN Grown(capacity) ELSE capacity
        /\ g_UserList' = Append(IF full THEN Moved(g_UserList) ELSE g_UserList,
                                CopyUser(BlankUser, u))

(***************************************************************************)
(* Searching the list.                                                     *)
(***************************************************************************)
Named(n) == {i \in DOMAIN g_UserList : g_UserList[i].name = n}

At(a) == {i \in DOMAIN g_UserList : g_UserList[i].server_name = a}

First(i, S) == i \in S /\ \A k \in S : i <= k

\* The loop of ConnectUser stops at the second hit, whatever its name.
FirstTwo(i, j, S) ==
    /\ i \in S /\ j \in S /\ i < j
    /\ \A k \in S : k = i \/ k >= j

(***************************************************************************)
(* SendInfo as the handlers see it: where the message goes and what it is. *)
(***************************************************************************)
NoSend == [kind |-> "none"]

Reply(kind, u, body) ==
    [kind |-> kind, host |-> u.server_name, port |-> u.server_port, body |-> body]

RelayToSelf(u, d) ==
    [kind |-> "data", host |-> u.server_name, port |-> u.server_port,
     from |-> u.name, body |-> d]

\* The relayed message goes to the address recorded for the opposite.
Relay(u, d) ==
    [kind |-> "data", host |-> u.conn_server_name, port |-> u.conn_server_port,
     from |-> u.name, body |-> d]

\* A handler dereferences a null pointer, or an iterator it never assigned.
Crash ==
    /\ running' = FALSE
    /\ sent' = NoSend
    /\ UNCHANGED <<g_UserList, capacity>>

(***************************************************************************)
(* ConnectUser(content, connect).                                          *)
(***************************************************************************)
OppositeWithOwnPort(u, v, connect) ==
    [u EXCEPT !.is_conn = connect, !.conn_name = v.name,
              !.conn_server_name = v.server_name, !.conn_server_port = u.server_port]

OppositeWithOwnName(u, v, connect) ==
    [u EXCEPT !.is_conn = connect, !.conn_name = u.name,
              !.conn_server_name = v.server_name, !.conn_server_port = v.server_port]

OppositeOverOwn(u, v, connect) ==
    [u EXCEPT !.is_conn = connect, !.conn_name = v.name,
              !.server_name = v.server_name, !.conn_server_port = v.server_port]

\* u after it was connected to (or disconnected from) v
Opposite(u, v, connect) ==
    [u EXCEPT !.is_conn = connect, !.conn_name = v.name,
              !.conn_server_name = v.server_name, !.conn_server_port = v.server_port]

ConnectUserFirstOnly(user1, user2, connect) ==
    LET hits == Named(user1) \cup Named(user2)
    IN  \/ \E i, j \in hits :
             /\ FirstTwo(i, j, hits)
             /\ g_UserList' = [g_UserList EXCEPT
                                 ![i] = Opposite(@, g_UserList[j], connect)]
             /\ sent' = NoSend
             /\ UNCHANGED <<capacity, running>>
        \/ (\A i, j \in hits : i = j) /\ Crash

ConnectUserNext(user1, user2, connect) ==
    LET hits == Named(user1) \cup Named(user2)
    IN  \/ \E i \in hits : \E j \in DOMAIN g_UserList :
             /\ First(i, hits) /\ j = i + 1
             /\ g_UserList' = [g_UserList EXCEPT
                                 ![i] = Opposite(@, g_UserList[j], connect),
                                 ![j] = Opposite(@, g_UserList[i], connect)]
             /\ sent' = NoSend
             /\ UNCHANGED <<capacity, running>>
        \/ (\A i, j \in hits : i = j) /\ Crash

ConnectUser(user1, user2, connect) ==
    LET hits == Named(user1) \cup Named(user2)
    IN  \/ \E i, j \in hits :
             /\ FirstTwo(i, j, hits)
             /\ g_UserList' = [g_UserList EXCEPT
                                 ![i] = Opposite(@, g_UserList[j], connect),
                                 ![j] = Opposite(@, g_UserList[i], connect)]
             /\ sent' = NoSend
             /\ UNCHANGED <<capacity, running>>
        \/ (\A i, j \in hits : i = j) /\ Crash

(***************************************************************************)
(* The handlers.                                                           *)
(***************************************************************************)
Quiet ==
    /\ sent' = NoSend
    /\ UNCHANGED <<g_UserList, capacity, running>>

\* What GetAllUsers writes: every user with its status, in list order.
Listing == [i \in DOMAIN g_UserList |->
               <<g_UserList[i].name, g_UserList[i].is_conn>>]

\* ASK_ALL_USER: the reply goes to the first user at the address, if any.
AskAllUser(a) ==
    \/ \E k \in At(a) :
         /\ First(k, At(a))
         /\ sent' = Reply("list", g_UserList[k], Listing)
         /\ UNCHANGED <<g_UserList, capacity, running>>
    \/ At(a) = {} /\ Crash

\* ASK_LOGIN: the user is appended and "OK" goes to the first user at the
\* address in the new list.
AskLogin(n, p, a) ==
    /\ Len(g_UserList) < MaxUsers
    /\ VectorPushBack(MakeUser(n, p, a))
    /\ \E k \in DOMAIN g_UserList' :
         /\ g_UserList'[k].server_name = a
         /\ \A m \in DOMAIN g_UserList' : g_UserList'[m].server_name = a => k <= m
         /\ sent' = Reply("ok", g_UserList'[k], <<>>)
    /\ UNCHANGED running

\* ASK_INVITE: user2 is NoName when the content has no ':'.
AskInvite(user1, user2) == ConnectUser(user1, user2, TRUE)

AskDataUnchecked(user, d) ==
    \/ \E k \in Named(user) :
         /\ First(k, Named(user))
         /\ sent' = RelayToSelf(g_UserList[k], d)
         /\ UNCHANGED <<g_UserList, capacity, running>>
    \/ Named(user) = {} /\ Quiet

\* ASK_DATA: relayed for the first user of that name, when it is playing.
AskData(user, d) ==
    \/ \E k \in Named(user) :
         /\ First(k, Named(user))
         /\ IF g_UserList[k].is_conn
              THEN sent' = Relay(g_UserList[k], d)
              ELSE sent' = NoSend
         /\ UNCHANGED <<g_UserList, capacity, running>>
    \/ Named(user) = {} /\ Quiet

\* ASK_EXIT_GAME: DisConnectUser names the opposite the first user of that
\* name has; an unknown user changes nothing.
AskExitGame(user) ==
    \/ \E k \in Named(user) :
         /\ First(k, Named(user))
         /\ ConnectUser(user, g_UserList[k].conn_name, FALSE)
    \/ Named(user) = {} /\ Quiet

\* Any other tag goes to the application's SockProc, which gets no access
\* to the list.
AskOther == Quiet

Init ==
    /\ g_UserList = <<>>
    /\ capacity = 0
    /\ running = TRUE
    /\ sent = NoSend

Login    == running /\ \E n \in Names, p \in Ports, a \in Hosts : AskLogin(n, p, a)
AllUser  == running /\ \E a \in Hosts : AskAllUser(a)
Invite   == running /\ \E u1 \in Names, u2 \in Names \cup {NoName} : AskInvite(u1, u2)
Data     == running /\ \E u \in Names, d \in Payloads : AskData(u, d)
ExitGame == running /\ \E u \in Names : AskExitGame(u)
Other    == running /\ AskOther

Next == Login \/ AllUser \/ Invite \/ Data \/ ExitGame \/ Other

Spec == Init /\ [][Next]_vars

(***************************************************************************)
(* Histories in which nobody logs in under a name already listed.          *)
(***************************************************************************)
DistinctNames ==
    \A i, j \in DOMAIN g_UserList : g_UserList[i].name = g_UserList[j].name => i = j

OnceNext == Next /\ DistinctNames'

OnceSpec == Init /\ [][OnceNext]_vars

(***************************************************************************)
(* The ledger the list stands for: with distinct names, a name has at most *)
(* one entry.                                                              *)
(***************************************************************************)
Entry(n) == g_UserList[CHOOSE i \in Named(n) : TRUE]

Listed == {n \in Names : Named(n) # {}}

Ledger == INSTANCE PairingLedger WITH
    registered <- Listed,
    partner    <- [n \in Names |-> IF n \in Listed THEN Entry(n).conn_name ELSE NoName],
    playing    <- {n \in Listed : Entry(n).is_conn},
    line       <- IF sent.kind = "data"
                    THEN [from  |-> sent.from,
                          reach |-> {n \in Listed : /\ Entry(n).server_name = sent.host
                                                    /\ Entry(n).server_port = sent.port}]
                    ELSE [from |-> NoName, reach |-> {}],
    up         <- running

\* As long as names are distinct (once they are not, they stay so), the hub's
\* handlers do what the ledger promises: an invitation pairs both sides, an exit
\* ends the game of both, and data never reaches a user other than the opposite
\* (or a sharer of its address).
ImplementsLedger ==
    /\ Ledger!LedgerInit
    /\ [][DistinctNames' => [Ledger!LedgerNext]_(Ledger!ledgerVars)]_vars

(***************************************************************************)
(* Properties.                                                             *)
(***************************************************************************)

\* The shape of the state.  Every listed user has a name, an address and a
\* port, and the vector has storage for all of them.
TypeOK ==
    /\ g_UserList \in Seq(User)
    /\ capacity \in Nat
    /\ Len(g_UserList) <= capacity
    /\ running \in BOOLEAN
    /\ \A i \in DOMAIN g_UserList :
         /\ g_UserList[i].name \in Names
         /\ g_UserList[i].server_name \in Hosts
         /\ g_UserList[i].server_port \in Ports

\* Login never renames, reorders, readdresses or drops an earlier user, not
\* even when the vector moves to new storage (vector_push_back, _user_copy).
IdentitiesKept ==
    /\ Len(g_UserList) <= Len(g_UserList')
    /\ \A i \in DOMAIN g_UserList :
         /\ g_UserList'[i].name = g_UserList[i].name
         /\ g_UserList'[i].server_name = g_UserList[i].server_name
         /\ g_UserList'[i].server_port = g_UserList[i].server_port

ListGrowsOnly == [][IdentitiesKept]_vars

\* Whoever was ever paired has an opposite that is another entry of the list
\* and was itself paired (ConnectUser writes both sides), whatever repeated
\* logins, third-party invitations and storage growth came in between.
PeerRegistered ==
    \A i \in DOMAIN g_UserList : g_UserList[i].conn_name # NoName =>
        \E j \in DOMAIN g_UserList \ {i} :
            /\ g_UserList[j].name = g_UserList[i].conn_name
            /\ g_UserList[j].conn_name # NoName

\* An address recorded for the opposite is complete and belongs to one other
\* entry bearing the opposite's name: never one user's host with another
\* user's port, also after a move has blanked it.
RouteSound ==
    \A i \in DOMAIN g_UserList :
        /\ g_UserList[i].conn_server_name = NoHost <=> g_UserList[i].conn_server_port = NoPort
        /\ g_UserList[i].is_conn => g_UserList[i].conn_name # NoName
        /\ g_UserList[i].conn_server_name # NoHost =>
             \E j \in DOMAIN g_UserList \ {i} :
                /\ g_UserList[j].name = g_UserList[i].conn_name
                /\ g_UserList[j].server_name = g_UserList[i].conn_server_name
                /\ g_UserList[j].server_port = g_UserList[i].conn_server_port

\* Relayed data leaves on behalf of a user that is playing, and reaches
\* either nobody (a blank address) or another entry, named as its opposite.
RelayStaysInPair ==
    sent.kind = "data" =>
        \E i \in DOMAIN g_UserList :
            /\ g_UserList[i].name = sent.from
            /\ g_UserList[i].is_conn
            /\ \/ sent.host = NoHost /\ sent.port = NoPort
               \/ \E j \in DOMAIN g_UserList \ {i} :
                    /\ g_UserList[j].name = g_UserList[i].conn_name
                    /\ g_UserList[j].server_name = sent.host
                    /\ g_UserList[j].server_port = sent.port

\* Exit by a user that was ever paired, or by anyone recorded as somebody's
\* opposite, always finds two entries to disconnect: it never reaches the
\* unassigned iterators of ConnectUser.
ExitFindsTwo(user) ==
    /\ Named(user) # {}
    /\ \A k \in Named(user) : First(k, Named(user)) =>
         \E i, j \in Named(user) \cup Named(g_UserList[k].conn_name) : i # j

PairedExitSafe ==
    \A i \in DOMAIN g_UserList : g_UserList[i].conn_name # NoName =>
        /\ ExitFindsTwo(g_UserList[i].name)
        /\ ExitFindsTwo(g_UserList[i].conn_name)

\* The "opposite's info" of a user that is playing is the address of a
\* listed user with the opposite's name.
OppositeInfoCurrent ==
    \A i \in DOMAIN g_UserList : g_UserList[i].is_conn =>
        \E j \in Named(g_UserList[i].conn_name) :
            /\ g_UserList[j].server_name = g_UserList[i].conn_server_name
            /\ g_UserList[j].server_port = g_UserList[i].conn_server_port
=============================================================================
