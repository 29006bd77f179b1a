----------------------------- MODULE HubServer -----------------------------
(***************************************************************************)
(* The hub: the accept / select / recv loop of CreateServer                *)
(* (Socket/CreateServer.cpp 257-409), the splitting of what recv returns   *)
(* (ProcessMsg) and the dispatch to the handlers of UserTable, together    *)
(* with the clients at the other end of its sockets.                       *)
(*                                                                         *)
(* A client is one ClientOpt: it has a fixed name, host and listener port  *)
(* and one connection to the hub.  TCP carries its requests as a stream of *)
(* pieces, and recv returns any non-empty prefix of the stream: requests   *)
(* arrive in fragments or together.  The pieces are cut wherever it makes  *)
(* a difference to the handlers: behind the tag, inside and behind either  *)
(* field, and before the final NUL.  A chunk is not put together with the  *)
(* one before: the handlers take a field that was cut for a whole one.     *)
(***************************************************************************)
EXTENDS UserTable, FiniteSets, SequencesExt

CONSTANTS
    Clients,
    NameOf, HostOf, PortOf,   \* user_name, address and local_port of each
    MaxListen,    \* MAX_LISTEN, slots of fd_A (10 in the code)
    MaxRequests,  \* bound on the requests a client makes
    Ops,          \* the requests clients make
    Leavers,      \* the clients that may end or lose their connection
    NameCuts,     \* the shorter names each name begins with
    PortCuts,     \* the ports read off the beginnings of each port
    ZeroPort,     \* port 0, what MakeUser reads when the port is missing
    NoData,       \* what TransferData relays when the data is missing
    CodeWords,    \* the names, ports and texts with the digits of a request's code
    BarTexts,     \* the texts with a "|||" of their own
    Free,         \* 0 in a slot of fd_A
    Invalid       \* INVALID_SOCKET

ASSUME HubAssumption ==
    /\ NameOf \in [Clients -> Names]
    /\ HostOf \in [Clients -> Hosts]
    /\ PortOf \in [Clients -> Ports]
    /\ Leavers \subseteq Clients
    /\ NameCuts \in [Names -> SUBSET Names] /\ PortCuts \in [Ports -> SUBSET Ports]
    /\ ZeroPort \in Ports /\ NoData \in Payloads
    /\ CodeWords \subseteq Names \cup Ports \cup Payloads /\ BarTexts \subseteq Payloads
    /\ MaxListen \in Nat \ {0}
    /\ Ops \subseteq {"login", "list", "invite", "data", "exit"}
    /\ Free \notin Clients /\ Invalid \notin Clients /\ Free # Invalid

VARIABLES
    link,         \* state of each client's connection
    stream,       \* pieces sent and not yet received by the hub
    requests,     \* what each client has asked, in order
    backlog,      \* connections waiting for accept
    fd_A,         \* the slots of connected sockets
    fdsr,         \* slots select found readable and the loop has not reached
    listening,    \* select found the listening socket readable
    client_addr,  \* address of the last connection accepted
    pc,           \* where the loop is
    served,       \* the client whose message was last dispatched
    handled       \* numbers of the requests of each client dispatched so far

tableVars == <<g_UserList, capacity, running, sent>>
clientVars == <<link, stream, requests>>
loopVars == <<backlog, fd_A, fdsr, listening, client_addr, pc>>
ghostVars == <<served, handled>>
hubVars == <<tableVars, clientVars, loopVars, ghostVars>>

Slots == 0 .. MaxListen - 1

Sockets == {fd_A[i] : i \in Slots} \ {Free}

(***************************************************************************)
(* Clients.                                                                *)
(***************************************************************************)
Connect(c) ==
    /\ link[c] = "idle" /\ pc # "stopped" /\ running
    /\ link' = [link EXCEPT ![c] = "up"]
    /\ backlog' = Append(backlog, c)
    /\ UNCHANGED <<tableVars, stream, requests, ghostVars,
                   fd_A, fdsr, listening, client_addr, pc>>

\* The pieces of the n-th request of a client: "tag|||", the beginning and the
\* rest of the name, ":" with a beginning of the second field (which may be
\* empty), its rest, and the final NUL.  A list request has just "a".
Parts(op) ==
    CASE op \in {"login", "invite", "data"} ->
           <<"tag", "name", "namerest", "second", "secondrest", "end">>
      [] op = "exit" -> <<"tag", "name", "namerest", "end">>
      [] OTHER -> <<"tag", "a", "end">>

Pieces(n, op) == [i \in DOMAIN Parts(op) |-> [n |-> n, part |-> Parts(op)[i]]]

\* What a client puts into the second field of a request.
Args(op, c) ==
    CASE op = "login"  -> {PortOf[c]}
      [] op = "invite" -> Names
      [] op = "data"   -> Payloads \ {NoData}
      [] OTHER         -> {NoName}

\* The sender thread sends the buffer a second time.
AskSentTwice(c, op, arg) ==
    /\ link[c] = "up" /\ Len(requests[c]) < MaxRequests
    /\ requests' = [requests EXCEPT ![c] = Append(@, [op |-> op, arg |-> arg])]
    /\ LET p == Pieces(Len(requests[c]) + 1, op)
       IN  stream' = [stream EXCEPT ![c] = @ \o p \o p]
    /\ UNCHANGED <<tableVars, link, loopVars, ghostVars>>

\* Login, GetUserList, ConnectUser, SendData and ExitGame of the client
\* library, once the sender thread has sent the buffer they filled.
Ask(c, op, arg) ==
    /\ link[c] = "up" /\ Len(requests[c]) < MaxRequests
    /\ requests' = [requests EXCEPT ![c] = Append(@, [op |-> op, arg |-> arg])]
    /\ stream' = [stream EXCEPT ![c] = @ \o Pieces(Len(requests[c]) + 1, op)]
    /\ UNCHANGED <<tableVars, link, loopVars, ghostVars>>

\* The client ends: what it sent can still be received.
Close(c) ==
    /\ link[c] = "up"
    /\ link' = [link EXCEPT ![c] = "closed"]
    /\ UNCHANGED <<tableVars, stream, requests, loopVars, ghostVars>>

\* The connection is reset: what was not yet received is lost.
Reset(c) ==
    /\ link[c] \in {"up", "closed"}
    /\ link' = [link EXCEPT ![c] = "reset"]
    /\ stream' = [stream EXCEPT ![c] = <<>>]
    /\ UNCHANGED <<tableVars, requests, loopVars, ghostVars>>

(***************************************************************************)
(* DispatchMsg of a chunk received from c.  ProcessMsg splits it at the    *)
(* first "|||" that something follows; the handlers read the content up to *)
(* its first NUL, so the next request in the chunk is dropped.             *)
(***************************************************************************)
Tagged(chunk) == Head(chunk).part = "tag" /\ Len(chunk) > 1

\* What can be read of a field of the n-th request in a chunk: one of its
\* beginnings, or nothing, when the chunk ends inside it, otherwise all of it.
NamesRead(c, parts) ==
    IF parts \subseteq {"tag", "name"} THEN NameCuts[NameOf[c]] ELSE {NameOf[c]}

SecondsRead(c, n, parts) ==
    LET request == requests[c][n]
    IN  CASE "secondrest" \in parts -> {request.arg}
          [] "second" \in parts /\ request.op = "login"  -> PortCuts[request.arg] \cup {ZeroPort}
          [] "second" \in parts /\ request.op = "invite" -> NameCuts[request.arg] \cup {NoName}
          [] "second" \in parts /\ request.op = "data"   -> Payloads
          [] "second" \notin parts /\ request.op = "login" -> {ZeroPort}
          [] "second" \notin parts /\ request.op = "data"  -> {NoData}
          [] OTHER -> {NoName}

\* A chunk that begins inside a field, at digits that make the code of a
\* request, and in which a "|||" follows: ProcessMsg takes the digits for a tag.
BeginsWithCode(c, chunk) ==
    LET first == Head(chunk)
        word  == IF first.part = "secondrest" THEN requests[c][first.n].arg ELSE NameOf[c]
    IN  /\ first.part \in {"name", "namerest", "secondrest"} /\ word \in CodeWords
        /\ \E i \in DOMAIN chunk :
             \/ chunk[i].part = "tag" /\ i < Len(chunk)
             \/ /\ chunk[i].part \in {"second", "secondrest"}
                /\ requests[c][chunk[i].n].arg \in BarTexts

Read(own, op, names, seconds) == [own : {own}, op : {op}, name : names, second : seconds]

\* What a handler may then be run on, its fields taken from anywhere behind.
Strays ==
    Read(FALSE, "login", Names, Ports) \cup Read(FALSE, "list", {NoName}, {NoName})
    \cup Read(FALSE, "invite", Names, Names \cup {NoName})
    \cup Read(FALSE, "data", Names, Payloads) \cup Read(FALSE, "exit", Names, {NoName})

\* The readings of a chunk: the operation and the fields it is run with, own
\* when the tag is the one of the request the chunk begins with.
Readings(c, chunk) ==
    LET n     == Head(chunk).n
        parts == {chunk[i].part : i \in {j \in DOMAIN chunk : chunk[j].n = n}}
        op    == requests[c][n].op
    IN  IF Tagged(chunk)
          THEN Read(TRUE, op, IF op = "list" THEN {NoName} ELSE NamesRead(c, parts),
                    SecondsRead(c, n, parts))
          ELSE Read(FALSE, "other", {NoName}, {NoName})
               \cup (IF BeginsWithCode(c, chunk) THEN Strays ELSE {})

Dispatch(r) ==
    CASE r.op = "login"  -> AskLogin(r.name, r.second, client_addr)
      [] r.op = "list"   -> AskAllUser(client_addr)
      [] r.op = "invite" -> AskInvite(r.name, r.second)
      [] r.op = "data"   -> AskData(r.name, r.second)
      [] r.op = "exit"   -> AskExitGame(r.name)
      [] OTHER           -> AskOther

(***************************************************************************)
(* The loop.                                                               *)
(***************************************************************************)
\* recv on the socket of c returns at once: with data, 0 or an error.
Readable(c) == stream[c] # <<>> \/ link[c] # "up"

SelectNoListener ==
    /\ pc = "select" /\ running /\ Invalid \notin Sockets
    /\ \E c \in Sockets : Readable(c)
    /\ fdsr' = {i \in Slots : fd_A[i] # Free /\ Readable(fd_A[i])}
    /\ listening' = FALSE
    /\ pc' = "scan"
    /\ UNCHANGED <<tableVars, clientVars, backlog, fd_A, client_addr, ghostVars>>

SelectFromSlotOne ==
    /\ pc = "select" /\ running /\ Invalid \notin Sockets
    /\ backlog # <<>> \/ \E c \in Sockets : Readable(c)
    /\ fdsr' = {i \in Slots \ {0} : fd_A[i] # Free /\ Readable(fd_A[i])}
    /\ listening' = (backlog # <<>>)
    /\ pc' = "scan"
    /\ UNCHANGED <<tableVars, clientVars, backlog, fd_A, client_addr, ghostVars>>

SelectUntested ==
    /\ pc = "select" /\ running /\ Invalid \notin Sockets
    /\ backlog # <<>> \/ \E c \in Sockets : Readable(c)
    /\ fdsr' = {i \in Slots : fd_A[i] # Free}
    /\ listening' = (backlog # <<>>)
    /\ pc' = "scan"
    /\ UNCHANGED <<tableVars, clientVars, backlog, fd_A, client_addr, ghostVars>>

\* select with a closed or invalid socket in the set fails and ends the
\* loop; without anything to read it times out and is called again.
Select ==
    /\ pc = "select" /\ running /\ Invalid \notin Sockets
    /\ \/ backlog # <<>>
       \/ \E c \in Sockets : Readable(c)
    /\ fdsr' = {i \in Slots : fd_A[i] # Free /\ Readable(fd_A[i])}
    /\ listening' = (backlog # <<>>)
    /\ pc' = "scan"
    /\ UNCHANGED <<tableVars, clientVars, backlog, fd_A, client_addr, ghostVars>>

\* The loop over the slots reaches slot i.
Reached(i) == pc = "scan" /\ running /\ First(i, fdsr)

Chunk(i, k) == SubSeq(stream[fd_A[i]], 1, k)

TakePeek(i, k, r) ==
    LET c == fd_A[i]
    IN  /\ Dispatch(r)
        /\ handled' = IF r.own THEN [handled EXCEPT ![c] = Append(@, Head(stream[c]).n)]
                               ELSE handled
        /\ served' = c
        /\ fdsr' = fdsr \ {i}
        /\ UNCHANGED <<link, stream, requests, backlog, fd_A, listening, client_addr, pc>>

\* recv returns the first k pieces of the stream, which are read as r.
Take(i, k, r) ==
    LET c == fd_A[i]
    IN  /\ Dispatch(r)
        /\ stream' = [stream EXCEPT ![c] = SubSeq(@, k + 1, Len(@))]
        /\ handled' = IF r.own THEN [handled EXCEPT ![c] = Append(@, Head(stream[c]).n)]
                               ELSE handled
        /\ served' = c
        /\ fdsr' = fdsr \ {i}
        /\ UNCHANGED <<link, requests, backlog, fd_A, listening, client_addr, pc>>

Recv(i) ==
    /\ Reached(i)
    /\ \E k \in 1 .. Len(stream[fd_A[i]]) :
         \E r \in Readings(fd_A[i], Chunk(i, k)) : Take(i, k, r)

RecvClosedKeepsBit(i) ==
    LET c == fd_A[i]
    IN  /\ Reached(i) /\ stream[c] = <<>> /\ link[c] # "up"
        /\ fd_A' = [fd_A EXCEPT ![i] = Free]
        /\ UNCHANGED <<tableVars, clientVars, backlog, fdsr, listening, client_addr, pc, ghostVars>>

RecvClosedKeepsSlot(i) ==
    LET c == fd_A[i]
    IN  /\ Reached(i) /\ stream[c] = <<>> /\ link[c] # "up"
        /\ fdsr' = fdsr \ {i}
        /\ UNCHANGED <<tableVars, clientVars, backlog, fd_A, listening, client_addr, pc, ghostVars>>

\* The user goes with its connection.
RecvClosedUnlists(i) ==
    LET c == fd_A[i]
    IN  /\ Reached(i) /\ stream[c] = <<>> /\ link[c] # "up"
        /\ fd_A' = [fd_A EXCEPT ![i] = Free]
        /\ fdsr' = fdsr \ {i}
        /\ g_UserList' = SelectSeq(g_UserList, LAMBDA u : u.name # NameOf[c])
        /\ UNCHANGED <<capacity, running, sent, clientVars, backlog, listening, client_addr,
                       pc, ghostVars>>

\* recv returned 0 or an error: the slot is freed.  The user stays listed.
RecvClosed(i) ==
    LET c == fd_A[i]
    IN  /\ Reached(i) /\ stream[c] = <<>> /\ link[c] # "up"
        /\ fd_A' = [fd_A EXCEPT ![i] = Free]
        /\ fdsr' = fdsr \ {i}
        /\ UNCHANGED <<tableVars, clientVars, backlog, listening, client_addr, pc, ghostVars>>

\* No slot left to read and no connection to accept: the loop starts over.
Again ==
    /\ pc = "scan" /\ running /\ fdsr = {} /\ ~ listening
    /\ pc' = "select"
    /\ UNCHANGED <<tableVars, clientVars, backlog, fd_A, fdsr, listening, client_addr, ghostVars>>

AnySlots == Slots

FreeSlots == {i \in Slots : fd_A[i] = Free}

\* CreateServer leaves the loop and closes every socket it holds, then the
\* process ends: the listening socket goes with its backlog.
Stopped(dropped) ==
    LET cut == (Sockets \cup ToSet(backlog) \cup dropped) \ {Invalid}
    IN  /\ pc' = "stopped"
        /\ fd_A' = [i \in Slots |-> Free]
        /\ backlog' = <<>>
        /\ listening' = FALSE
        /\ link' = [c \in Clients |-> IF c \in cut THEN "cut" ELSE link[c]]
        /\ UNCHANGED <<tableVars, stream, requests, fdsr, ghostVars>>

Accepting == pc = "scan" /\ running /\ fdsr = {} /\ listening

Accept ==
    LET c == Head(backlog)
    IN  /\ Accepting /\ FreeSlots # {}
        /\ \E i \in FreeSlots :
             First(i, FreeSlots) /\ fd_A' = [fd_A EXCEPT ![i] = c]
        /\ client_addr' = HostOf[c]
        /\ backlog' = Tail(backlog)
        /\ listening' = FALSE
        /\ pc' = "select"
        /\ UNCHANGED <<tableVars, clientVars, fdsr, ghostVars>>

\* accept fails on a connection that was reset while it waited.  new_fd is
\* unsigned, so new_fd <= 0 does not see INVALID_SOCKET and it gets a slot.
AcceptFails ==
    /\ Accepting /\ link[Head(backlog)] = "reset"
    /\ IF FreeSlots # {}
         THEN /\ \E i \in FreeSlots :
                   First(i, FreeSlots) /\ fd_A' = [fd_A EXCEPT ![i] = Invalid]
              /\ backlog' = Tail(backlog)
              /\ listening' = FALSE
              /\ pc' = "select"
              /\ UNCHANGED <<tableVars, clientVars, fdsr, ghostVars>>
         ELSE Stopped({})
    /\ UNCHANGED client_addr

\* No free slot: the new connection is told "bye" and the loop is left.
AcceptFull ==
    /\ Accepting /\ FreeSlots = {}
    /\ client_addr' = HostOf[Head(backlog)]
    /\ Stopped({Head(backlog)})

SelectFails ==
    /\ pc = "select" /\ running /\ Invalid \in Sockets
    /\ Stopped({})
    /\ UNCHANGED client_addr

HubInit ==
    /\ Init
    /\ link = [c \in Clients |-> "idle"]
    /\ stream = [c \in Clients |-> <<>>]
    /\ requests = [c \in Clients |-> <<>>]
    /\ backlog = <<>>
    /\ fd_A = [i \in Slots |-> Free]
    /\ fdsr = {} /\ listening = FALSE
    /\ client_addr = NoHost
    /\ pc = "select"
    /\ served = Free
    /\ handled = [c \in Clients |-> <<>>]

HubStep ==
    \/ Select \/ Again \/ Accept \/ AcceptFails \/ AcceptFull \/ SelectFails
    \/ \E i \in Slots : Recv(i) \/ RecvClosed(i)

ClientStep ==
    \E c \in Clients :
        \/ Connect(c)
        \/ c \in Leavers /\ (Close(c) \/ Reset(c))
        \/ \E op \in Ops : \E arg \in Args(op, c) : Ask(c, op, arg)

HubNext == HubStep \/ ClientStep

HubSpec == HubInit /\ [][HubNext]_hubVars /\ WF_hubVars(HubStep)

(***************************************************************************)
(* Properties.                                                             *)
(***************************************************************************)

Down == pc = "stopped" \/ ~ running

HubTypeOK ==
    /\ link \in [Clients -> {"idle", "up", "closed", "reset", "cut"}]
    /\ \A c \in Clients : \A i \in DOMAIN stream[c] :
         stream[c][i].n \in DOMAIN requests[c]
    /\ fd_A \in [Slots -> Clients \cup {Free, Invalid}]
    /\ fdsr \subseteq {i \in Slots : fd_A[i] \in Clients}
    /\ ToSet(backlog) \subseteq Clients
    /\ listening \in BOOLEAN
    /\ client_addr \in Hosts \cup {NoHost}
    /\ pc \in {"select", "scan", "stopped"}
    /\ served \in Clients \cup {Free}
    /\ \A c \in Clients : handled[c] \in Seq(DOMAIN requests[c])

\* A live connection is never lost: while the hub is up it waits in the
\* backlog or occupies exactly one slot of fd_A, through every interleaving
\* of accepts, failed accepts and slots freed within one pass of the loop.
NobodyForgotten ==
    ~ Down => \A c \in Clients : link[c] = "up" =>
        Cardinality({i \in DOMAIN backlog : backlog[i] = c}
                    \cup {<<i>> : i \in {j \in Slots : fd_A[j] = c}}) = 1

\* A slot that select reported and the loop has not reached yet can still be
\* read at once: recv, on the hub's only thread, never blocks.
RecvNeverBlocks ==
    \A i \in fdsr : Readable(fd_A[i])

\* The requests of a client are dispatched under their own tags in the order it
\* made them, each at most once, however TCP cut them; the ones cut or joined
\* wrongly are lost.  (A text with a code and bars of its own can be taken for a
\* request besides: Framing's EachRequestOnce says when.)
InOrderAtMostOnce ==
    \A c \in Clients : \A i, j \in DOMAIN handled[c] :
        i < j => handled[c][i] < handled[c][j]

\* The loop drives the list through whole handlers only, each with the
\* address of some accepted client: a slot freed by a client that left, its
\* reuse by the next one and the end of the loop leave the list alone.
ImplementsTable == Spec

\* A connection that waits is accepted (or refused by a hub that stops).
BacklogServed ==
    \A c \in Clients : c \in ToSet(backlog) ~> c \notin ToSet(backlog) \/ Down

\* What a client sent is taken off its socket, unless the hub goes down.
StreamsDrained ==
    \A c \in Clients : stream[c] # <<>> ~> stream[c] = <<>> \/ Down

\* The slot of a client that is gone becomes free again.
SlotsReclaimed ==
    \A c \in Clients :
        (c \in Sockets /\ link[c] \in {"closed", "reset"}) ~> c \notin Sockets \/ Down

\* "Get the user who sent request": a reply goes to the client that asked.
ReplyToRequester ==
    sent.kind \in {"ok", "list"} => sent.host = HostOf[served]

\* "create a server and runs forever".
RunsForever == pc # "stopped"

\* "accept() failed": the failure is reported and no slot is taken.
FailedAcceptIgnored == Invalid \notin Sockets
=============================================================================
