------------------------------ MODULE Listener ------------------------------
(***************************************************************************)
(* A client's process and the hub that answers it.  StartClient            *)
(* (CreateClient.cpp 7-25) starts two threads: the sender of ClientSession *)
(* and a listener, which is the same CreateServer as the hub.  The hub     *)
(* opens one connection to the listener per answer (SendInfo,              *)
(* CommonFunctions.cpp 113-130), one call after the other.  So a client of *)
(* HubServer is here one connection: that of the k-th answer is k.         *)
(*                                                                         *)
(* The two threads share Winsock.  Of the sender only its beginning and    *)
(* its end matter here.  An answer is a single piece without a tag:        *)
(* DispatchMsg gives it to the application's SockProc.  It is shorter than *)
(* one segment and than the listener's buffer, so that recv takes it       *)
(* whole.                                                                  *)
(***************************************************************************)
EXTENDS HubServer, Winsock

CONSTANT Backlog   \* the connections listen lets wait (10 in the code)

ASSUME ListenerAssumption ==
    /\ IsFiniteSet(Clients) /\ Clients = 1 .. Cardinality(Clients)
    /\ Threads = {"listener", "sender"}
    /\ Backlog \in Nat

VARIABLES
    delayed,    \* whether what was sent may be overtaken by a later connection
    started,    \* the listener: starting, preparing, listening or exited
    sock_fd,    \* whether the listening socket is open
    call,       \* the answer the hub is sending
    stage,      \* where the hub's sender thread is
    posted,     \* the answers send took
    wire,       \* what left the hub and has not arrived
    shown,      \* the answers SockProc was given, in order
    earlier     \* the answers that had arrived when a connection was opened

procVars == <<delayed, started, sock_fd>>
hubSide == <<call, stage, posted>>
listenerVars == <<hubVars, winsockVars, procVars, hubSide, wire, shown, earlier>>

\* The listening socket lets connections wait.  It stays open when the loop has
\* ended: only the sockets in fd_A are closed, and the sender may hold Winsock.
Listening == sock_fd /\ Len(backlog) < Backlog

Cut(gone) == [k \in Clients |-> IF k \in gone THEN "cut" ELSE link[k]]

\* What the last WSACleanup does to the sockets of the process.
IfShutDown ==
    IF refs' = 0
      THEN /\ link' = Cut(Sockets \cup ToSet(backlog))
           /\ stream' = [k \in Clients |-> <<>>]
           /\ backlog' = <<>>
           /\ sock_fd' = FALSE
      ELSE UNCHANGED <<link, stream, backlog, sock_fd>>

(***************************************************************************)
(* The preparation of CreateServer, which in the end listens or calls exit *)
(* and takes the client's process with it, and the sender's thread.        *)
(***************************************************************************)
ListenerStartup ==
    /\ started = "starting"
    /\ \/ Startup("listener") /\ started' = "preparing"
       \/ StartupFails("listener") /\ started' = "exited"
    /\ UNCHANGED <<hubVars, delayed, sock_fd, hubSide, wire, shown, earlier>>

\* socket, setsockopt, bind and listen
Prepare ==
    /\ started = "preparing"
    /\ \/ refs > 0 /\ started' = "listening" /\ sock_fd' = TRUE /\ UNCHANGED winsockVars
       \/ End("listener") /\ started' = "exited" /\ UNCHANGED sock_fd
    /\ UNCHANGED <<hubVars, delayed, hubSide, wire, shown, earlier>>

SenderStartup ==
    /\ started # "exited"
    /\ Startup("sender") \/ StartupFails("sender")
    /\ IfShutDown
    /\ UNCHANGED <<tableVars, requests, fd_A, fdsr, listening, client_addr, pc,
                   ghostVars, delayed, started, hubSide, wire, shown, earlier>>

\* Any of the ways in which CreateClient ends.
SenderEnds ==
    /\ started # "exited"
    /\ End("sender")
    /\ IfShutDown
    /\ UNCHANGED <<tableVars, requests, fd_A, fdsr, listening, client_addr, pc,
                   ghostVars, delayed, started, hubSide, wire, shown, earlier>>

(***************************************************************************)
(* The hub.                                                                *)
(***************************************************************************)
Arrived == {k \in posted : <<k, "answer">> \notin ToSet(wire)}

\* connect returns once the connection waits in the listener's backlog.
HubConnects ==
    /\ call \in Clients /\ stage = "connect"
    /\ Listening
    /\ delayed \/ wire = <<>>
    /\ link' = [link EXCEPT ![call] = "up"]
    /\ backlog' = Append(backlog, call)
    /\ earlier' = [earlier EXCEPT ![call] = Arrived]
    /\ stage' = "send"
    /\ UNCHANGED <<tableVars, stream, requests, fd_A, fdsr, listening, client_addr,
                   pc, ghostVars, winsockVars, procVars, call, posted, wire, shown>>

\* Nobody listens or the backlog is full: connect fails, the answer is lost.
HubRefused ==
    /\ call \in Clients /\ stage = "connect"
    /\ ~ Listening
    /\ call' = call + 1
    /\ UNCHANGED <<hubVars, winsockVars, procVars, stage, posted, wire, shown, earlier>>

HubSends ==
    /\ call \in Clients /\ stage = "send"
    /\ wire' = Append(wire, <<call, "answer">>)
    /\ posted' = posted \cup {call}
    /\ stage' = "close"
    /\ UNCHANGED <<hubVars, winsockVars, procVars, call, shown, earlier>>

\* closesocket at the end of the thread, and SendInfo returns.
HubCloses ==
    /\ call \in Clients /\ stage = "close"
    /\ wire' = Append(wire, <<call, "end">>)
    /\ stage' = "connect"
    /\ call' = call + 1
    /\ UNCHANGED <<hubVars, winsockVars, procVars, posted, shown, earlier>>

HubSide == HubConnects \/ HubRefused \/ HubSends \/ HubCloses

(***************************************************************************)
(* The network keeps the order within a connection, and across connections *)
(* unless delayed.                                                         *)
(***************************************************************************)
MayArrive(i) ==
    \A j \in 1 .. i - 1 : delayed /\ wire[j][1] # wire[i][1]

Arrive(i) ==
    LET k == wire[i][1]
    IN  /\ MayArrive(i)
        /\ wire' = RemoveAt(wire, i)
        /\ IF link[k] # "up" THEN UNCHANGED <<link, stream>>
           ELSE IF wire[i][2] = "answer"
             THEN /\ stream' = [stream EXCEPT ![k] = Append(@, [n |-> 1, part |-> "answer"])]
                  /\ UNCHANGED link
             ELSE link' = [link EXCEPT ![k] = "closed"] /\ UNCHANGED stream
        /\ UNCHANGED <<tableVars, requests, loopVars, ghostVars,
                       winsockVars, procVars, hubSide, shown, earlier>>

(***************************************************************************)
(* The listener's loop.                                                    *)
(***************************************************************************)
ShowSlotNumber(i) ==
    /\ Recv(i)
    /\ shown' = Append(shown, i)
    /\ UNCHANGED <<winsockVars, procVars, hubSide, wire, earlier>>

ShowAnswer(i) ==
    /\ Recv(i)
    /\ shown' = Append(shown, fd_A[i])
    /\ UNCHANGED <<winsockVars, procVars, hubSide, wire, earlier>>

Turn ==
    /\ \/ sock_fd /\ (Select \/ Accept)
       \/ Again
       \/ \E i \in Slots : RecvClosed(i)
    /\ UNCHANGED <<winsockVars, procVars, hubSide, wire, shown, earlier>>

\* accept after Winsock was shut down: its result takes a slot.
AcceptShutDown ==
    /\ Accepting /\ ~ sock_fd
    /\ \E i \in FreeSlots :
         First(i, FreeSlots) /\ fd_A' = [fd_A EXCEPT ![i] = Invalid]
    /\ listening' = FALSE
    /\ pc' = "select"
    /\ UNCHANGED <<tableVars, clientVars, backlog, fdsr, client_addr, ghostVars, winsockVars,
                   procVars, hubSide, wire, shown, earlier>>

\* The loop is left, for want of a slot or because select fails: it closes the
\* connections it holds and calls WSACleanup.  The process goes on, and as long
\* as the sender holds Winsock so does the backlog.
LoopEnds ==
    /\ \/ Accepting /\ FreeSlots = {}
       \/ pc = "select" /\ ~ sock_fd
    /\ End("listener")
    /\ LET refused == IF Accepting /\ backlog # <<>> THEN {Head(backlog)} ELSE {}
           waiting == IF refs' = 0 THEN <<>> ELSE SelectSeq(backlog, LAMBDA k : k \notin refused)
       IN  /\ backlog' = waiting
           /\ sock_fd' = (refs' > 0 /\ sock_fd)
           /\ client_addr' = IF refused = {} THEN client_addr ELSE HostOf[Head(backlog)]
           /\ link' = Cut((Sockets \ {Invalid}) \cup (ToSet(backlog) \ ToSet(waiting)))
    /\ pc' = "stopped"
    /\ fd_A' = [i \in Slots |-> Free]
    /\ listening' = FALSE
    /\ UNCHANGED <<tableVars, stream, requests, fdsr, ghostVars,
                   delayed, started, hubSide, wire, shown, earlier>>

ListenerStep ==
    \/ ListenerStartup \/ Prepare
    \/ /\ started = "listening"
       /\ Turn \/ AcceptShutDown \/ LoopEnds \/ \E i \in Slots : ShowAnswer(i)

SenderStep == SenderStartup \/ SenderEnds

ListenerInit ==
    /\ HubInit /\ WinsockInit
    /\ delayed \in BOOLEAN
    /\ started = "starting" /\ sock_fd = FALSE
    /\ call = 1 /\ stage = "connect" /\ posted = {}
    /\ wire = <<>> /\ shown = <<>>
    /\ earlier = [k \in Clients |-> {}]

Network == \E i \in DOMAIN wire : Arrive(i)

ListenerNext == HubSide \/ Network \/ ListenerStep \/ SenderStep

\* The listener's thread and the hub's are scheduled, and what is sent arrives.
\* The sender need not begin, nor end.
ListenerSpec ==
    /\ ListenerInit /\ [][ListenerNext]_listenerVars
    /\ WF_listenerVars(ListenerStep)
    /\ WF_listenerVars(HubSide)
    /\ WF_listenerVars(Network)

(***************************************************************************)
(* Properties.                                                             *)
(***************************************************************************)
ListenerTypeOK ==
    /\ link \in [Clients -> {"idle", "up", "closed", "cut"}]
    /\ fd_A \in [Slots -> Clients \cup {Free, Invalid}]
    /\ started \in {"starting", "preparing", "listening", "exited"}
    /\ stage \in {"connect", "send", "close"}
    /\ posted \subseteq Clients
    /\ ToSet(wire) \subseteq Clients \X {"answer", "end"}
    /\ ToSet(shown) \subseteq posted

\* The numbers of S from the smallest to the largest.
InOrder(S) ==
    CHOOSE q \in [1 .. Cardinality(S) -> S] : \A i, j \in DOMAIN q : i < j => q[i] < q[j]

\* The answers sent and not yet shown, in the order they were sent; on a
\* network that keeps no order the mailbox stays empty.
Box == INSTANCE Mailbox WITH
    Answers <- Clients,
    queue   <- IF delayed THEN <<>> ELSE InOrder(posted \ ToSet(shown)),
    shown   <- IF delayed THEN <<>> ELSE shown

\* Although the listener walks its slots in their own order, accepts into the
\* first slot that is free and reads a connection only on a later pass, the
\* answers are shown in the order the hub sent them, each once, none left out
\* before another, when the network keeps their order.
ImplementsMailbox == Box!BoxSpec

\* On such a network the connections the hub has closed are given back fast
\* enough: two slots are enough for any number of answers, and unless a
\* WSAStartup failed the listener never ends: neither for want of a slot nor
\* because the end of the sender's thread shut Winsock down under it.
NeverEnds == ~ delayed /\ failures = 0 => pc # "stopped"

\* On any network, an answer that had arrived before a connection was opened is
\* shown before the answer of that connection.
ArrivedFirstShownFirst ==
    \A n \in DOMAIN shown : \A j \in earlier[shown[n]] :
        \E m \in 1 .. n - 1 : shown[m] = j

\* An answer that the hub could send is shown, unless the listener ends: only
\* the answers sent before it listens are lost.
AnswersShown ==
    \A k \in Clients : k \in posted ~> k \in ToSet(shown) \/ Down
=============================================================================
