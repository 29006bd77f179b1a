--------------------------- MODULE ClientSession ---------------------------
(***************************************************************************)
(* A client's session (StartClient and the five requests, CreateClient.cpp *)
(* 7-25 and CommonFunctions.cpp 28-111): the application thread hands each *)
(* request to the sender thread through buffer and pending.  The requests  *)
(* differ only in what they write, so they are one action per access of    *)
(* the ClientOpt with the message as a parameter.                          *)
(***************************************************************************)
EXTENDS CreateClient

CONSTANT MaxTaken   \* bound on the requests that return 0

VARIABLES
    app,        \* where the application thread is
    request,    \* the message of the call it is in
    taken       \* the requests that returned 0, in order

appVars == <<app, request, taken>>
sessionVars == <<threadVars, appVars>>

\* StartClient allocates the buffer, clears the flags and starts the thread.
SessionInit ==
    /\ buffer = Garbage /\ data_len = Garbage
    /\ pending = FALSE /\ runonce = FALSE /\ allocated = TRUE
    /\ thr = "starting" /\ net = <<>>
    /\ app = "idle" /\ request = Garbage /\ taken = <<>>

CallWithoutCheck(m) ==
    /\ app = "idle" /\ Len(taken) < MaxTaken
    /\ app' = "writing" /\ request' = m
    /\ UNCHANGED <<threadVars, taken>>

\* Login, ExitGame, GetUserList, ConnectUser, SendData: while a request is
\* pending another one is refused (-1) and changes nothing.
Call(m) ==
    /\ app = "idle" /\ Len(taken) < MaxTaken
    /\ ~ pending
    /\ app' = "writing" /\ request' = m
    /\ UNCHANGED <<threadVars, taken>>

\* itoa and the first strcat overwrite what the buffer held ...
BeginWrite ==
    /\ app = "writing"
    /\ buffer' = Garbage
    /\ app' = "composing"
    /\ UNCHANGED <<data_len, pending, runonce, allocated, thr, net, request, taken>>

EndWriteRaises ==
    /\ app = "composing"
    /\ buffer' = request
    /\ pending' = TRUE
    /\ app' = "sizing"
    /\ UNCHANGED <<data_len, runonce, allocated, thr, net, request, taken>>

\* ... and the last strcat completes the message.
EndWrite ==
    /\ app = "composing"
    /\ buffer' = request
    /\ app' = "sizing"
    /\ UNCHANGED <<data_len, pending, runonce, allocated, thr, net, request, taken>>

SetLength ==
    /\ app = "sizing"
    /\ data_len' = request
    /\ app' = "raising"
    /\ UNCHANGED <<buffer, pending, runonce, allocated, thr, net, request, taken>>

RaiseAfterReset ==
    /\ app = "raising"
    /\ pending' = TRUE
    /\ taken' = Append(taken, Garbage)
    /\ app' = "idle" /\ request' = Garbage
    /\ UNCHANGED <<buffer, data_len, runonce, allocated, thr, net>>

\* pending is set last, and the call returns 0.
RaisePending ==
    /\ app = "raising"
    /\ pending' = TRUE
    /\ taken' = Append(taken, request)
    /\ app' = "idle" /\ request' = Garbage
    /\ UNCHANGED <<buffer, data_len, runonce, allocated, thr, net>>

AppStep ==
    \/ \E m \in Messages : Call(m)
    \/ BeginWrite \/ EndWrite \/ SetLength \/ RaisePending

SessionNext == (ThreadStep /\ UNCHANGED appVars) \/ AppStep

SessionSpec == SessionInit /\ [][SessionNext]_sessionVars

\* Both threads are scheduled, and the calls of the socket library return.
FairSessionSpec ==
    /\ SessionSpec
    /\ WF_sessionVars(ThreadStep /\ UNCHANGED appVars)
    /\ WF_sessionVars(BeginWrite \/ EndWrite \/ SetLength \/ RaisePending)

(***************************************************************************)
(* Properties.                                                             *)
(***************************************************************************)
SessionTypeOK ==
    /\ ThreadTypeOK
    /\ app \in {"idle", "writing", "composing", "sizing", "raising"}
    /\ request \in Messages \cup {Garbage}
    /\ taken \in Seq(Messages)

\* What went out on the connection is the requests that returned 0, whole,
\* in order and once each, up to the last one, which may still be pending:
\* the two threads never use the buffer at the same time in a harmful order.
WireIsTaken ==
    /\ Len(net) <= Len(taken) /\ Len(taken) <= Len(net) + 1
    /\ \A i \in 1 .. Len(net) : net[i] = <<taken[i], taken[i]>>

\* While the thread may be reading the buffer to send it, the application
\* is not inside a call that changes it.
NoWriteDuringSend ==
    thr \in {"sending", "sent"} => app = "idle"

Channel == INSTANCE OneSlotChannel WITH
    delivered <- [i \in DOMAIN net |-> net[i][1]],
    broken    <- thr = "failed"

\* The session is a one-slot channel: a request that returned 0 leaves before
\* the next one is accepted, and nothing leaves a session that broke.
ImplementsChannel == Channel!ChannelSpec

\* A request that returned 0 is sent, unless the sender thread has ended.
TakenIsSent == Channel!ChannelLive
=============================================================================
