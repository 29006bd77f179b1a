--------------------------- MODULE ListenerProofs ---------------------------
(***************************************************************************)
(* Theorems about Winsock and about the listener of a client's process.    *)
(*                                                                         *)
(* The listener never ends, on a network that keeps order and as long as   *)
(* no WSAStartup failed: for any number of answers, and as soon as it has  *)
(* two slots.  The hub opens its connections one after the other, so that  *)
(* at most one is still open; a pass that finds a connection waiting finds *)
(* every slot readable, empties at most one of them and frees the others.  *)
(*                                                                         *)
(* On any network, and however the threads of the process end, what had    *)
(* arrived before a connection was opened is shown before what came with   *)
(* it (ListenerArrivedFirst, from the invariant Course).                   *)
(***************************************************************************)
EXTENDS Listener, SequenceTheorems, FiniteSetTheorems, TLAPS

-----------------------------------------------------------------------------
(***************************************************************************)
(* Theorems about Winsock, for any finite set of threads and any number of *)
(* failed calls of WSAStartup.                                             *)
(***************************************************************************)

WinsockTypeOK ==
    /\ thread \in [Threads -> {"new", "holding", "over"}]
    /\ refs \in Nat
    /\ failures \in Nat

WinsockInv == WinsockTypeOK /\ RefsHeld

\* The holders are finitely many.
LEMMA HoldersFinite ==
    IsFiniteSet(Holders) /\ Cardinality(Holders) \in Nat
  <1>1. Holders \subseteq Threads
    BY DEF Holders
  <1>2. IsFiniteSet(Holders)
    BY <1>1, WinsockAssumption, FS_Subset
  <1> QED BY <1>2, FS_CardinalityType

\* A successful WSAStartup adds one holder.
LEMMA StartupAddsHolder ==
    ASSUME WinsockTypeOK, NEW t \in Threads, Startup(t)
    PROVE  Cardinality(Holders') = Cardinality(Holders) + 1
  <1>1. t \notin Holders
    BY DEF Startup, Holders
  <1>2. Holders' = Holders \cup {t}
    BY DEF Startup, Holders, WinsockTypeOK
  <1> QED BY <1>1, <1>2, HoldersFinite, FS_AddElement

\* The end of a thread that holds Winsock takes one holder away.
LEMMA EndRemovesHolder ==
    ASSUME WinsockTypeOK, NEW t \in Threads, End(t)
    PROVE  Cardinality(Holders) > 0 /\ Cardinality(Holders') = Cardinality(Holders) - 1
  <1>1. t \in Holders
    BY DEF End, Holders
  <1>2. Holders' = Holders \ {t}
    BY DEF End, Holders, WinsockTypeOK
  <1>3. Cardinality(Holders) # 0
    BY <1>1, HoldersFinite, FS_EmptySet
  <1> QED BY <1>1, <1>2, <1>3, HoldersFinite, FS_RemoveElement

\* A failed WSAStartup leaves the holders alone.
LEMMA FailureKeepsHolders ==
    ASSUME WinsockTypeOK, NEW t \in Threads, StartupFails(t)
    PROVE  Holders' = Holders
  BY DEF StartupFails, Holders, WinsockTypeOK

\* The type and the count are inductive together: WSACleanup at the end of a
\* holder takes away its own count, unless that was lost to a failure, and
\* WSACleanup after a failed WSAStartup takes away one that the failures pay.
LEMMA WinsockStep ==
    ASSUME WinsockInv, [WinsockNext]_winsockVars
    PROVE  WinsockInv'
  <1> USE DEF WinsockInv
  <1>1. Cardinality(Holders) \in Nat
    BY HoldersFinite
  <1>2. ASSUME NEW t \in Threads, Startup(t) PROVE WinsockInv'
    <2>1. Cardinality(Holders') = Cardinality(Holders) + 1
      BY <1>2, StartupAddsHolder
    <2>2. WinsockTypeOK'
      BY <1>2 DEF Startup, WinsockTypeOK
    <2> QED BY <1>1, <1>2, <2>1, <2>2 DEF Startup, RefsHeld, WinsockTypeOK
  <1>3. ASSUME NEW t \in Threads, StartupFails(t) PROVE WinsockInv'
    <2>1. Holders' = Holders
      BY <1>3, FailureKeepsHolders
    <2>2. WinsockTypeOK'
      BY <1>3 DEF StartupFails, WSACleanup, WinsockTypeOK
    <2> QED BY <1>1, <1>3, <2>1, <2>2 DEF StartupFails, WSACleanup, RefsHeld, WinsockTypeOK
  <1>4. ASSUME NEW t \in Threads, End(t) PROVE WinsockInv'
    <2>1. Cardinality(Holders) > 0 /\ Cardinality(Holders') = Cardinality(Holders) - 1
      BY <1>4, EndRemovesHolder
    <2>2. WinsockTypeOK'
      BY <1>4 DEF End, WSACleanup, WinsockTypeOK
    <2> QED BY <1>1, <1>4, <2>1, <2>2 DEF End, WSACleanup, RefsHeld, WinsockTypeOK
  <1>5. CASE UNCHANGED winsockVars
    BY <1>5 DEF winsockVars, WinsockTypeOK, RefsHeld, Holders
  <1> QED BY <1>2, <1>3, <1>4, <1>5 DEF WinsockNext

LEMMA WinsockBegin == WinsockInit => WinsockInv
  <1> SUFFICES ASSUME WinsockInit PROVE WinsockInv
    OBVIOUS
  <1>1. Holders = {}
    BY DEF WinsockInit, Holders
  <1>2. Cardinality(Holders) = 0
    BY <1>1, FS_EmptySet
  <1>3. WinsockTypeOK
    BY DEF WinsockInit, WinsockTypeOK
  <1> QED BY <1>2, <1>3 DEF WinsockInit, WinsockInv, RefsHeld

THEOREM WinsockInvHolds == WinsockSpec => []WinsockInv
  <1> QED BY WinsockBegin, WinsockStep, PTL DEF WinsockSpec

\* As long as no WSAStartup failed, every thread that started Winsock keeps it
\* until its own WSACleanup, however early other threads end.
THEOREM WinsockRefsHeld == WinsockSpec => []RefsHeld
  <1>1. WinsockInv => RefsHeld
    BY DEF WinsockInv
  <1> QED BY <1>1, WinsockInvHolds, PTL

\* The same, as what a thread relies on: with no failure, the count is not 0
\* while some thread holds Winsock.
THEOREM HolderKeepsWinsock ==
    WinsockSpec => [](failures = 0 /\ Holders # {} => refs > 0)
  <1>1. WinsockInv => (failures = 0 /\ Holders # {} => refs > 0)
    <2> SUFFICES ASSUME WinsockInv, failures = 0, Holders # {} PROVE refs > 0
      OBVIOUS
    <2>1. Cardinality(Holders) # 0
      BY HoldersFinite, FS_EmptySet
    <2> QED BY <2>1, HoldersFinite DEF WinsockInv, WinsockTypeOK, RefsHeld
  <1> QED BY <1>1, WinsockInvHolds, PTL

-----------------------------------------------------------------------------
(* The slots of the listener and what its connections carry.               *)

LEMMA ClientNumbers == Clients \subseteq Nat \ {0}
  BY ListenerAssumption, FS_CardinalityType

A == [n |-> 1, part |-> "answer"]

\* What the invariants are about: the order is kept and Winsock not disturbed.
Undisturbed == ~ delayed /\ failures = 0

(***************************************************************************)
(* The process: as long as nobody listens there is nothing to cut.         *)
(***************************************************************************)
Process ==
    /\ started \in {"starting", "preparing", "listening", "exited"}
    /\ started \in {"preparing", "listening"} => thread["listener"] = "holding"
    /\ started = "starting" => thread["listener"] = "new"
    /\ sock_fd = (started = "listening")
    /\ pc \in {"select", "scan"}
    /\ ~ sock_fd =>
         /\ backlog = <<>> /\ wire = <<>> /\ stage = "connect"
         /\ \A i \in Slots : fd_A[i] = Free
         /\ \A k \in Clients : stream[k] = <<>> /\ link[k] = "idle"

(***************************************************************************)
(* The hub and the network.                                                *)
(***************************************************************************)
WholeOn(k) == <<<<k, "answer">>, <<k, "end">>>>
AnswerOn(k) == <<<<k, "answer">>>>
EndOn(k) == <<<<k, "end">>>>

Sending ==
    /\ call \in Nat /\ stage \in {"connect", "send", "close"}
    /\ stage # "connect" => call \in Clients
    /\ stage = "send" => wire = <<>>
    /\ stage = "close" => wire = <<>> \/ wire = AnswerOn(call)
    /\ stage = "connect" => wire = <<>> \/ \E k \in Clients :
                                              k < call /\ wire \in {WholeOn(k), EndOn(k)}

\* Connection k is not yet opened.
Ahead(k) == k > call \/ (k = call /\ stage = "connect")

\* The answer on k has not arrived.
Awaited(k) ==
    \/ Ahead(k)
    \/ k = call /\ stage = "send"
    \/ wire = AnswerOn(k) \/ wire = WholeOn(k)

\* At most one connection is open: the one whose end has not arrived.
Open(k) ==
    \/ k = call /\ stage # "connect"
    \/ stage = "connect" /\ (wire = WholeOn(k) \/ wire = EndOn(k))

Connections ==
    /\ link \in [Clients -> {"idle", "up", "closed"}]
    /\ stream \in [Clients -> Seq({A})]
    /\ \A k \in Clients :
         /\ stream[k] = <<>> \/ Len(stream[k]) = 1
         /\ Ahead(k) => link[k] = "idle"
         /\ Awaited(k) => stream[k] = <<>>
         /\ link[k] = "up" => Open(k)

(***************************************************************************)
(* The backlog and the slots hold connections in the order of their calls. *)
(***************************************************************************)
Queue ==
    /\ backlog \in Seq(Clients)
    /\ \A m \in 1 .. Len(backlog) : link[backlog[m]] # "idle"
    /\ \A l, m \in 1 .. Len(backlog) : l < m => backlog[l] < backlog[m]
    /\ fd_A \in [Slots -> Clients \cup {Free}]
    /\ \A i \in Slots : fd_A[i] # Free =>
         /\ link[fd_A[i]] # "idle"
         /\ \A m \in 1 .. Len(backlog) : fd_A[i] < backlog[m]
    /\ \A k \in Clients : link[k] = "up" =>
         /\ \A m \in 1 .. Len(backlog) : backlog[m] <= k
         /\ \A i \in Slots : fd_A[i] # Free => fd_A[i] <= k

(***************************************************************************)
(* The passes of the loop.                                                 *)
(***************************************************************************)
Fresh(i) ==
    fd_A[i] # Free /\ (link[fd_A[i]] = "up" \/ stream[fd_A[i]] # <<>>)

\* Slot i is still taken when the pass is over.
Stays(i) == fd_A[i] # Free /\ (i \notin fdsr \/ stream[fd_A[i]] # <<>>)

AcceptingPass == pc = "scan" /\ listening

Passes ==
    /\ listening \in BOOLEAN
    /\ fdsr \subseteq Slots /\ \A i \in fdsr : fd_A[i] # Free
    /\ ~ AcceptingPass => \A i, j \in Slots : Fresh(i) /\ Fresh(j) => i = j
    /\ AcceptingPass =>
         /\ backlog # <<>>
         /\ \A i \in Slots : fd_A[i] # Free =>
              /\ link[fd_A[i]] = "closed"
              /\ i \notin fdsr => stream[fd_A[i]] = <<>>
         /\ \A i, j \in Slots : Stays(i) /\ Stays(j) => i = j

Calm == Process /\ Sending /\ Connections /\ Queue /\ Passes

ListenerInv == WinsockInv /\ (Undisturbed => Calm)

-----------------------------------------------------------------------------
(* Winsock.                                                                *)

\* A step of the process is one of Winsock, or leaves it alone.
LEMMA WinsockOfListener ==
    ASSUME WinsockInv, [ListenerNext]_listenerVars
    PROVE  WinsockInv' /\ (Undisturbed' => Undisturbed)
<1>1. Threads = {"listener", "sender"}
  BY ListenerAssumption
<1>2. [WinsockNext]_winsockVars
  BY <1>1 DEF ListenerNext, listenerVars, winsockVars, HubSide, HubConnects, HubRefused,
              HubSends, HubCloses, Network, Arrive, ListenerStep, ListenerStartup, Prepare,
              Turn, AcceptShutDown, LoopEnds, ShowAnswer, SenderStep, SenderStartup,
              SenderEnds, WinsockNext
<1>3. delayed' = delayed
  BY DEF ListenerNext, listenerVars, procVars, HubSide, HubConnects, HubRefused,
         HubSends, HubCloses, Network, Arrive, ListenerStep, ListenerStartup, Prepare,
         Turn, AcceptShutDown, LoopEnds, ShowAnswer, SenderStep, SenderStartup,
         SenderEnds
<1>4. failures' = 0 => failures = 0
  BY <1>2 DEF WinsockNext, winsockVars, Startup, StartupFails, End, WinsockInv, WinsockTypeOK
<1> QED
  BY <1>2, <1>3, <1>4, WinsockStep DEF Undisturbed

\* While the listener holds Winsock the count is not 0.
LEMMA ListenerHolds ==
    ASSUME WinsockInv, failures = 0, thread["listener"] = "holding"
    PROVE  refs > 0
<1>1. "listener" \in Holders
  BY ListenerAssumption DEF Holders
<1>2. Cardinality(Holders) # 0
  BY <1>1, HoldersFinite, FS_EmptySet
<1> QED
  BY <1>2, HoldersFinite DEF WinsockInv, WinsockTypeOK, RefsHeld

-----------------------------------------------------------------------------
(* The threads of the process.                                             *)

LEMMA LoopKept ==
    ASSUME Calm, UNCHANGED <<hubVars, call, stage, wire>>
    PROVE  Sending' /\ Connections' /\ Queue' /\ Passes'
<1>1. UNCHANGED <<link, stream, backlog, fd_A, fdsr, listening, pc, call, stage, wire>>
  BY DEF hubVars, clientVars, loopVars
<1>2. Sending' /\ Connections'
  BY <1>1 DEF Calm, Sending, Connections, Ahead, Awaited, Open
<1>3. Queue' /\ Passes'
  BY <1>1 DEF Calm, Queue, Passes, AcceptingPass, Fresh, Stays
<1> QED
  BY <1>2, <1>3

LEMMA ListenerThread ==
    ASSUME WinsockInv, Undisturbed', Calm, ListenerStartup \/ Prepare
    PROVE  Calm'
<1>1. failures' = 0 /\ failures \in Nat /\ thread \in [Threads -> {"new", "holding", "over"}]
      /\ "listener" \in Threads
  BY ListenerAssumption DEF Undisturbed, WinsockInv, WinsockTypeOK
<1>2. Sending' /\ Connections' /\ Queue' /\ Passes'
  BY LoopKept DEF ListenerStartup, Prepare, hubSide
<1>3. CASE ListenerStartup
  <2>1. Startup("listener") /\ started = "starting" /\ started' = "preparing"
    BY <1>1, <1>3 DEF ListenerStartup, StartupFails
  <2>2. Process'
    BY <1>1, <1>3, <2>1
       DEF Calm, Process, ListenerStartup, Startup, hubVars, clientVars, loopVars, hubSide
  <2> QED
    BY <1>2, <2>2 DEF Calm
<1>4. CASE Prepare
  <2>1. UNCHANGED <<link, stream, backlog, fd_A, pc, wire, stage>> /\ started = "preparing"
    BY <1>4 DEF Prepare, hubVars, clientVars, loopVars, hubSide
  <2>2. CASE started' = "listening" /\ sock_fd' = TRUE /\ UNCHANGED winsockVars
    BY <1>2, <2>1, <2>2 DEF Calm, Process, winsockVars
  <2>3. CASE started' = "exited" /\ UNCHANGED sock_fd
    BY <1>2, <2>1, <2>3 DEF Calm, Process
  <2> QED
    BY <1>4, <2>2, <2>3 DEF Prepare
<1> QED
  BY <1>3, <1>4

\* The sender's end shuts Winsock down only before the listener has started it.
LEMMA SenderThread ==
    ASSUME WinsockInv, WinsockInv', Undisturbed', Calm, SenderStep
    PROVE  Calm'
<1>1. failures' = 0 /\ thread \in [Threads -> {"new", "holding", "over"}]
      /\ "listener" \in Threads /\ "sender" \in Threads
  BY ListenerAssumption DEF Undisturbed, WinsockInv, WinsockTypeOK
<1>2. thread'["listener"] = thread["listener"] /\ started # "exited" /\ IfShutDown
      /\ UNCHANGED <<tableVars, requests, fd_A, fdsr, listening, client_addr, pc, ghostVars,
                     started, call, stage, wire>>
  BY <1>1 DEF SenderStep, SenderStartup, SenderEnds, Startup, StartupFails, End, hubSide
<1>3. UNCHANGED <<link, stream, backlog, sock_fd>>
  <2>1. CASE refs' # 0
    BY <1>2, <2>1 DEF IfShutDown
  <2>2. CASE refs' = 0
    <3>1. thread'["listener"] # "holding"
      <4> SUFFICES ASSUME thread'["listener"] = "holding" PROVE FALSE
        OBVIOUS
      <4>1. "listener" \in Holders'
        BY <1>1 DEF Holders
      <4>2. IsFiniteSet(Holders') /\ Cardinality(Holders') \in Nat
        <5>1. Holders' \subseteq Threads
          BY DEF Holders
        <5> QED
          BY <5>1, WinsockAssumption, FS_Subset, FS_CardinalityType
      <4>3. Cardinality(Holders') # 0
        BY <4>1, <4>2, FS_EmptySet
      <4>4. Cardinality(Holders') <= refs' + failures'
        BY DEF WinsockInv, RefsHeld
      <4> QED
        BY <1>1, <2>2, <4>2, <4>3, <4>4
    <3>2. ~ sock_fd
      BY <1>2, <3>1 DEF Calm, Process
    <3>3. /\ backlog = <<>> /\ \A i \in Slots : fd_A[i] = Free
          /\ \A k \in Clients : stream[k] = <<>>
      BY <3>2 DEF Calm, Process
    <3>4. Sockets = {} /\ ToSet(backlog) = {}
      BY <3>3 DEF Sockets, ToSet
    <3>5. link' = link
      BY <1>2, <2>2, <3>4 DEF IfShutDown, Cut, Calm, Connections
    <3>6. stream' = stream
      BY <1>2, <2>2, <3>3 DEF IfShutDown, Calm, Connections
    <3> QED
      BY <1>2, <2>2, <3>2, <3>3, <3>5, <3>6 DEF IfShutDown, Calm, Process
  <2> QED
    BY <2>1, <2>2
<1>4. UNCHANGED <<hubVars, call, stage, wire>>
  BY <1>2, <1>3 DEF hubVars, clientVars, loopVars
<1>5. Process'
  BY <1>2, <1>3 DEF Calm, Process
<1> QED
  BY <1>4, <1>5, LoopKept DEF Calm

-----------------------------------------------------------------------------
(* The hub and the network.                                                *)

LEMMA Wires ==
    ASSUME NEW j, NEW k
    PROVE  /\ WholeOn(j) = WholeOn(k) => j = k
           /\ AnswerOn(j) = AnswerOn(k) => j = k
           /\ EndOn(j) = EndOn(k) => j = k
           /\ WholeOn(j) # AnswerOn(k) /\ WholeOn(j) # EndOn(k) /\ AnswerOn(j) # EndOn(k)
           /\ WholeOn(j) # <<>> /\ AnswerOn(j) # <<>> /\ EndOn(j) # <<>>
<1>1. /\ Len(WholeOn(j)) = 2 /\ Len(AnswerOn(j)) = 1 /\ Len(EndOn(j)) = 1
      /\ Len(WholeOn(k)) = 2 /\ Len(AnswerOn(k)) = 1 /\ Len(EndOn(k)) = 1
  BY DEF WholeOn, AnswerOn, EndOn
<1>2. /\ WholeOn(j)[1][1] = j /\ AnswerOn(j)[1][1] = j /\ EndOn(j)[1][1] = j
      /\ WholeOn(k)[1][1] = k /\ AnswerOn(k)[1][1] = k /\ EndOn(k)[1][1] = k
      /\ AnswerOn(j)[1][2] = "answer" /\ EndOn(k)[1][2] = "end"
  BY DEF WholeOn, AnswerOn, EndOn
<1> HIDE DEF WholeOn, AnswerOn, EndOn
<1> QED
  BY <1>1, <1>2

LEMMA WiresAre ==
    ASSUME NEW k
    PROVE  LET M == {<<k, "answer">>, <<k, "end">>}
           IN  /\ <<>> \in Seq(M) /\ Len(<<>>) = 0
               /\ AnswerOn(k) \in Seq(M) /\ Len(AnswerOn(k)) = 1 /\ AnswerOn(k)[1] = <<k, "answer">>
               /\ EndOn(k) \in Seq(M) /\ Len(EndOn(k)) = 1 /\ EndOn(k)[1] = <<k, "end">>
               /\ WholeOn(k) \in Seq(M) /\ Len(WholeOn(k)) = 2
               /\ WholeOn(k)[1] = <<k, "answer">> /\ WholeOn(k)[2] = <<k, "end">>
  BY DEF AnswerOn, EndOn, WholeOn

\* What there can be on its way is short.
LEMMA TwoEqual ==
    ASSUME NEW S, NEW s \in Seq(S), NEW t \in Seq(S),
           Len(s) = 2, Len(t) = 2, s[1] = t[1], s[2] = t[2]
    PROVE  s = t
<1>1. \A m \in 1 .. 2 : m = 1 \/ m = 2
  OBVIOUS
<1>2. \A m \in 1 .. 2 : s[m] = t[m]
  BY <1>1, Zenon
<1>3. \A m \in 1 .. Len(s) : s[m] = t[m]
  BY <1>2
<1> QED
  BY <1>3, SeqEqual

LEMMA Grows ==
    ASSUME NEW k
    PROVE  /\ Append(<<>>, <<k, "answer">>) = AnswerOn(k)
           /\ Append(<<>>, <<k, "end">>) = EndOn(k)
           /\ Append(AnswerOn(k), <<k, "end">>) = WholeOn(k)
<1> DEFINE M == {<<k, "answer">>, <<k, "end">>}
<1>1. \A s \in Seq(M) : \A e \in M :
        /\ Append(s, e) \in Seq(M) /\ Len(Append(s, e)) = Len(s) + 1
        /\ \A m \in 1 .. Len(s) : Append(s, e)[m] = s[m]
        /\ Append(s, e)[Len(s) + 1] = e
  BY AppendProperties
<1>2. \A s, t \in Seq(M) :
        Len(s) = Len(t) /\ (\A m \in 1 .. Len(s) : s[m] = t[m]) => s = t
  BY SeqEqual
<1>3. <<k, "answer">> \in M /\ <<k, "end">> \in M
  OBVIOUS
<1> HIDE DEF M
<1>w. /\ <<>> \in Seq(M) /\ Len(<<>>) = 0
      /\ AnswerOn(k) \in Seq(M) /\ Len(AnswerOn(k)) = 1 /\ AnswerOn(k)[1] = <<k, "answer">>
      /\ EndOn(k) \in Seq(M) /\ Len(EndOn(k)) = 1 /\ EndOn(k)[1] = <<k, "end">>
      /\ WholeOn(k) \in Seq(M) /\ Len(WholeOn(k)) = 2
      /\ WholeOn(k)[1] = <<k, "answer">> /\ WholeOn(k)[2] = <<k, "end">>
  BY WiresAre DEF M
<1>4. ASSUME NEW e \in M, NEW t \in Seq(M), Len(t) = 1, t[1] = e
      PROVE  Append(<<>>, e) = t
  <2>1. /\ Append(<<>>, e) \in Seq(M) /\ Len(Append(<<>>, e)) = 1
        /\ Append(<<>>, e)[1] = e
    BY <1>1, <1>w
  <2>2. \A m \in 1 .. 1 : Append(<<>>, e)[m] = t[m]
    BY <1>4, <2>1
  <2> QED
    BY <1>2, <1>4, <2>1, <2>2
<1>5. Append(<<>>, <<k, "answer">>) = AnswerOn(k) /\ Append(<<>>, <<k, "end">>) = EndOn(k)
  BY <1>3, <1>4, <1>w
<1>6. Append(AnswerOn(k), <<k, "end">>) = WholeOn(k)
  <2>1. /\ Append(AnswerOn(k), <<k, "end">>) \in Seq(M)
        /\ Len(Append(AnswerOn(k), <<k, "end">>)) = 2
        /\ Append(AnswerOn(k), <<k, "end">>)[1] = <<k, "answer">>
        /\ Append(AnswerOn(k), <<k, "end">>)[2] = <<k, "end">>
    BY <1>1, <1>3, <1>w
  <2> QED
    BY <1>w, <2>1, TwoEqual
<1> QED
  BY <1>5, <1>6

\* RemoveAt takes the place p out and leaves the others in their order.
LEMMA RemovedAt ==
    ASSUME NEW S, NEW s \in Seq(S), NEW p \in 1 .. Len(s)
    PROVE  /\ RemoveAt(s, p) \in Seq(S) /\ Len(RemoveAt(s, p)) = Len(s) - 1
           /\ \A m \in 1 .. Len(s) - 1 :
                RemoveAt(s, p)[m] = IF m < p THEN s[m] ELSE s[m + 1]
<1>1. Len(s) \in Nat /\ p \in Nat /\ 1 <= p /\ p <= Len(s)
  BY LenProperties
<1> DEFINE a == SubSeq(s, 1, p - 1)
           b == SubSeq(s, p + 1, Len(s))
<1>2. /\ a \in Seq(S) /\ Len(a) = p - 1 /\ \A m \in 1 .. p - 1 : a[m] = s[m]
  <2>1. \A m \in 1 .. p - 1 : m \in 1 .. Len(s)
    BY <1>1
  <2>2. \A m \in 1 .. p - 1 : s[m] \in S
    BY <2>1, ElementOfSeq
  <2>3. /\ a \in Seq(S) /\ Len(a) = IF 1 <= p - 1 THEN p - 1 - 1 + 1 ELSE 0
        /\ \A m \in 1 .. p - 1 - 1 + 1 : a[m] = s[1 + m - 1]
    BY <1>1, <2>2, SubSeqProperties
  <2> HIDE DEF a
  <2>4. Len(a) = p - 1
    BY <1>1, <2>3
  <2>5. ASSUME NEW m \in 1 .. p - 1 PROVE a[m] = s[m]
    <3>1. m \in 1 .. p - 1 - 1 + 1 /\ 1 + m - 1 = m
      BY <1>1
    <3> QED
      BY <2>3, <3>1
  <2> QED
    BY <2>3, <2>4, <2>5
<1>3. /\ b \in Seq(S) /\ Len(b) = Len(s) - p /\ \A m \in 1 .. Len(s) - p : b[m] = s[p + m]
  <2>1. \A m \in p + 1 .. Len(s) : m \in 1 .. Len(s)
    BY <1>1
  <2>2. \A m \in p + 1 .. Len(s) : s[m] \in S
    BY <2>1, ElementOfSeq
  <2>3. /\ b \in Seq(S)
        /\ Len(b) = IF p + 1 <= Len(s) THEN Len(s) - (p + 1) + 1 ELSE 0
        /\ \A m \in 1 .. Len(s) - (p + 1) + 1 : b[m] = s[p + 1 + m - 1]
    BY <1>1, <2>2, SubSeqProperties
  <2> HIDE DEF b
  <2>4. Len(b) = Len(s) - p
    <3>1. ASSUME NEW n \in Nat, p <= n, NEW l, l = IF p + 1 <= n THEN n - (p + 1) + 1 ELSE 0
          PROVE  l = n - p
      BY <1>1, <3>1
    <3> QED
      BY <1>1, <2>3, <3>1
  <2>5. ASSUME NEW m \in 1 .. Len(s) - p PROVE b[m] = s[p + m]
    <3>1. m \in 1 .. Len(s) - (p + 1) + 1 /\ p + 1 + m - 1 = p + m
      BY <1>1
    <3> QED
      BY <2>3, <3>1
  <2> QED
    BY <2>3, <2>4, <2>5
<1>4. RemoveAt(s, p) = a \o b
  BY DEF RemoveAt
<1> HIDE DEF a, b
<1>5. /\ a \o b \in Seq(S) /\ Len(a \o b) = Len(a) + Len(b)
      /\ \A m \in 1 .. Len(a) + Len(b) :
            (a \o b)[m] = IF m <= Len(a) THEN a[m] ELSE b[m - Len(a)]
  BY <1>2, <1>3, ConcatProperties
<1>6. Len(a) + Len(b) = Len(s) - 1
  BY <1>1, <1>2, <1>3
<1>7. ASSUME NEW m \in 1 .. Len(s) - 1
      PROVE  (a \o b)[m] = IF m < p THEN s[m] ELSE s[m + 1]
  <2>1. (a \o b)[m] = IF m <= Len(a) THEN a[m] ELSE b[m - Len(a)]
    BY <1>5, <1>6
  <2>2. CASE m < p
    <3>1. m <= Len(a) /\ m \in 1 .. p - 1
      BY <1>1, <1>2, <2>2
    <3> QED
      BY <1>2, <2>1, <2>2, <3>1
  <2>3. CASE ~ m < p
    <3>1. ~ m <= Len(a) /\ m - Len(a) = m - (p - 1) /\ m - (p - 1) \in 1 .. Len(s) - p
          /\ p + (m - (p - 1)) = m + 1
      BY <1>1, <1>2, <2>3
    <3> QED
      BY <1>3, <2>1, <2>3, <3>1
  <2> QED
    BY <2>2, <2>3
<1> QED
  BY <1>4, <1>5, <1>6, <1>7

LEMMA Shrinks ==
    ASSUME NEW k
    PROVE  /\ RemoveAt(WholeOn(k), 1) = EndOn(k)
           /\ RemoveAt(AnswerOn(k), 1) = <<>>
           /\ RemoveAt(EndOn(k), 1) = <<>>
<1> DEFINE M == {<<k, "answer">>, <<k, "end">>}
<1>1. \A s \in Seq(M) : Len(s) > 0 =>
        /\ RemoveAt(s, 1) \in Seq(M) /\ Len(RemoveAt(s, 1)) = Len(s) - 1
        /\ \A m \in 1 .. Len(s) - 1 : RemoveAt(s, 1)[m] = s[m + 1]
  <2> SUFFICES ASSUME NEW s \in Seq(M), Len(s) > 0
               PROVE  /\ RemoveAt(s, 1) \in Seq(M) /\ Len(RemoveAt(s, 1)) = Len(s) - 1
                      /\ \A m \in 1 .. Len(s) - 1 : RemoveAt(s, 1)[m] = s[m + 1]
    OBVIOUS
  <2>1. 1 \in 1 .. Len(s) /\ \A m \in 1 .. Len(s) - 1 : ~ m < 1
    BY LenProperties
  <2> HIDE DEF M
  <2> QED
    BY <2>1, RemovedAt
<1>2. \A s, t \in Seq(M) :
        Len(s) = Len(t) /\ (\A m \in 1 .. Len(s) : s[m] = t[m]) => s = t
  BY SeqEqual
<1> HIDE DEF M
<1>w. /\ EndOn(k) \in Seq(M) /\ Len(EndOn(k)) = 1 /\ EndOn(k)[1] = <<k, "end">>
      /\ AnswerOn(k) \in Seq(M) /\ Len(AnswerOn(k)) = 1
      /\ WholeOn(k) \in Seq(M) /\ Len(WholeOn(k)) = 2 /\ WholeOn(k)[2] = <<k, "end">>
  BY WiresAre DEF M
<1>3. RemoveAt(WholeOn(k), 1) = EndOn(k)
  <2>1. /\ RemoveAt(WholeOn(k), 1) \in Seq(M) /\ Len(RemoveAt(WholeOn(k), 1)) = 1
        /\ RemoveAt(WholeOn(k), 1)[1] = <<k, "end">>
    <3>1. \A s \in Seq(M) : Len(s) = 2 =>
            /\ RemoveAt(s, 1) \in Seq(M) /\ Len(RemoveAt(s, 1)) = 1
            /\ RemoveAt(s, 1)[1] = s[2]
      <4> SUFFICES ASSUME NEW s \in Seq(M), Len(s) = 2
                   PROVE  /\ RemoveAt(s, 1) \in Seq(M) /\ Len(RemoveAt(s, 1)) = 1
                          /\ RemoveAt(s, 1)[1] = s[2]
        OBVIOUS
      <4>1. Len(s) > 0
        OBVIOUS
      <4>2. /\ RemoveAt(s, 1) \in Seq(M) /\ Len(RemoveAt(s, 1)) = Len(s) - 1
            /\ \A m \in 1 .. Len(s) - 1 : RemoveAt(s, 1)[m] = s[m + 1]
        BY <1>1, <4>1, Zenon
      <4>3. 1 \in 1 .. Len(s) - 1 /\ 1 + 1 = 2 /\ Len(s) - 1 = 1
        OBVIOUS
      <4>4. RemoveAt(s, 1)[1] = s[1 + 1]
        BY <4>2, <4>3, Zenon
      <4> QED
        BY <4>2, <4>3, <4>4
    <3> QED
      BY <1>w, <3>1
  <2>2. \A m \in 1 .. 1 : RemoveAt(WholeOn(k), 1)[m] = EndOn(k)[m]
    BY <1>w, <2>1
  <2> QED
    BY <1>2, <1>w, <2>1, <2>2
<1>4. ASSUME NEW s \in Seq(M), Len(s) = 1 PROVE RemoveAt(s, 1) = <<>>
  <2>1. Len(s) > 0 /\ Len(s) - 1 = 0
    BY <1>4
  <2>2. RemoveAt(s, 1) \in Seq(M) /\ Len(RemoveAt(s, 1)) = 0
    BY <1>1, <2>1
  <2> QED
    BY <2>2, EmptySeq
<1>5. RemoveAt(AnswerOn(k), 1) = <<>> /\ RemoveAt(EndOn(k), 1) = <<>>
  BY <1>4, <1>w
<1> QED
  BY <1>3, <1>5

LEMMA HubConnecting ==
    ASSUME Undisturbed, Calm, HubConnects
    PROVE  Calm'
<1>1. /\ call \in Clients /\ call \in Nat /\ stage = "connect" /\ wire = <<>> /\ sock_fd
      /\ link' = [link EXCEPT ![call] = "up"] /\ stage' = "send"
      /\ backlog' = Append(backlog, call)
      /\ UNCHANGED <<stream, fd_A, fdsr, listening, pc, call, wire, started, sock_fd, thread>>
  BY DEF Undisturbed, Calm, Sending, HubConnects, Listening, procVars, winsockVars
<1>2. Process' /\ Sending'
  BY <1>1 DEF Calm, Process, Sending
\* Nothing else is open.
<1>3. \A k \in Clients : link[k] \in {"idle", "closed"} /\ (k = call => link[k] = "idle")
  BY <1>1, Wires DEF Calm, Connections, Open, Ahead
<1>4. Connections'
  <2>1. link' \in [Clients -> {"idle", "up", "closed"}] /\ stream' \in [Clients -> Seq({A})]
    BY <1>1 DEF Calm, Connections
  <2>2. ASSUME NEW k \in Clients
        PROVE  /\ stream'[k] = <<>> \/ Len(stream'[k]) = 1
               /\ Ahead(k)' => link'[k] = "idle"
               /\ Awaited(k)' => stream'[k] = <<>>
               /\ link'[k] = "up" => Open(k)'
    <3>1. k \in Nat
      BY ClientNumbers
    <3>2. Awaited(k)' => Awaited(k)
      BY <1>1, <3>1 DEF Awaited, Ahead
    <3>3. k # call => link'[k] = link[k] /\ (Ahead(k)' => Ahead(k))
      BY <1>1, <3>1 DEF Ahead, Calm, Connections
    <3>4. k = call => Open(k)' /\ ~ Ahead(k)'
      BY <1>1, <3>1 DEF Open, Ahead
    <3> QED
      BY <1>1, <1>3, <3>2, <3>3, <3>4 DEF Calm, Connections
  <2> QED
    BY <2>1, <2>2 DEF Connections
\* The connection goes behind all the others.
<1>5. /\ Len(backlog) \in Nat /\ Len(backlog') = Len(backlog) + 1
      /\ \A m \in 1 .. Len(backlog) : backlog'[m] = backlog[m] /\ backlog[m] \in Clients
      /\ backlog'[Len(backlog) + 1] = call
      /\ backlog' \in Seq(Clients)
  BY <1>1, AppendProperties, LenProperties, ElementOfSeq DEF Calm, Queue
<1>6. \A k \in Clients : link[k] # "idle" => k < call /\ k \in Nat
  BY <1>1, ClientNumbers DEF Calm, Connections, Ahead
<1>7. /\ \A m \in 1 .. Len(backlog) : backlog[m] < call /\ link[backlog[m]] # "idle"
      /\ \A i \in Slots : fd_A[i] # Free =>
            fd_A[i] \in Clients /\ fd_A[i] < call /\ link[fd_A[i]] # "idle"
  BY <1>5, <1>6 DEF Calm, Queue
<1>8. \A k \in Clients : link'[k] = "up" <=> k = call
  BY <1>1, <1>3 DEF Calm, Connections
<1>9. \A k \in Clients : link[k] # "idle" => link'[k] # "idle"
  BY <1>1 DEF Calm, Connections
<1>10. link'[call] # "idle"
  BY <1>1, <1>8
<1>11. Queue'
  <2>1. \A m \in 1 .. Len(backlog') : link'[backlog'[m]] # "idle" /\ backlog'[m] <= call
    <3> SUFFICES ASSUME NEW m \in 1 .. Len(backlog')
                 PROVE  link'[backlog'[m]] # "idle" /\ backlog'[m] <= call
      OBVIOUS
    <3>1. CASE m = Len(backlog) + 1
      BY <1>1, <1>5, <1>10, <3>1
    <3>2. CASE m \in 1 .. Len(backlog)
      <4>1. backlog'[m] = backlog[m] /\ backlog[m] \in Clients /\ backlog[m] \in Nat
        BY <1>5, <3>2, ClientNumbers
      <4> QED
        BY <1>1, <1>7, <1>9, <3>2, <4>1
    <3> QED
      BY <1>5, <3>1, <3>2
  <2>2. \A l, m \in 1 .. Len(backlog') : l < m => backlog'[l] < backlog'[m]
    BY <1>5, <1>7 DEF Calm, Queue
  <2>3. \A i \in Slots : fd_A'[i] # Free =>
          /\ link'[fd_A'[i]] # "idle" /\ fd_A'[i] <= call
          /\ \A m \in 1 .. Len(backlog') : fd_A'[i] < backlog'[m]
    <3> SUFFICES ASSUME NEW i \in Slots, fd_A[i] # Free
                 PROVE  /\ link'[fd_A[i]] # "idle" /\ fd_A[i] <= call
                        /\ \A m \in 1 .. Len(backlog') : fd_A[i] < backlog'[m]
      BY <1>1
    <3>1. fd_A[i] \in Clients /\ fd_A[i] \in Nat /\ fd_A[i] < call /\ link'[fd_A[i]] # "idle"
      BY <1>7, <1>9, ClientNumbers
    <3>2. \A m \in 1 .. Len(backlog) : fd_A[i] < backlog[m]
      BY DEF Calm, Queue
    <3> QED
      BY <1>1, <1>5, <3>1, <3>2
  <2> QED
    BY <1>1, <1>5, <1>8, <2>1, <2>2, <2>3 DEF Calm, Queue
<1>12. Passes'
  <2>1. \A i \in Slots : fd_A[i] # Free => link'[fd_A[i]] = link[fd_A[i]]
    BY <1>1, <1>7, ClientNumbers DEF Calm, Connections
  <2>2. \A i \in Slots : (Fresh(i)' <=> Fresh(i)) /\ (Stays(i)' <=> Stays(i))
    BY <1>1, <2>1 DEF Fresh, Stays
  <2>3. backlog' # <<>>
    BY <1>5
  <2> QED
    BY <1>1, <2>1, <2>2, <2>3 DEF Calm, Passes, AcceptingPass
<1> QED
  BY <1>2, <1>4, <1>11, <1>12 DEF Calm

\* The steps of the hub that leave the listener's sockets alone.
LEMMA ListenerUntouched ==
    ASSUME Calm, Sending', sock_fd \/ (wire' = <<>> /\ stage' = "connect"),
           UNCHANGED <<link, stream, backlog, fd_A, fdsr, listening, pc, started, sock_fd, thread>>,
           \A k \in Clients : (Ahead(k)' => Ahead(k)) /\ (Awaited(k)' => Awaited(k))
                              /\ (Open(k) => Open(k)')
    PROVE  Calm'
<1>1. Process'
  BY DEF Calm, Process
<1>2. Connections'
  BY DEF Calm, Connections
<1>3. Queue'
  BY DEF Calm, Queue
<1>4. Passes'
  BY DEF Calm, Passes, AcceptingPass, Fresh, Stays
<1> QED
  BY <1>1, <1>2, <1>3, <1>4 DEF Calm

LEMMA HubRefusing ==
    ASSUME Calm, HubRefused
    PROVE  Calm'
<1>1. /\ call \in Nat /\ call' = call + 1 /\ stage = "connect" /\ stage' = "connect"
      /\ wire' = wire /\ (sock_fd \/ wire = <<>>)
      /\ UNCHANGED <<link, stream, backlog, fd_A, fdsr, listening, pc, started, sock_fd, thread>>
  BY DEF HubRefused, Calm, Sending, Process, hubVars, clientVars, loopVars, procVars, winsockVars
<1>2. Sending'
  <2>1. wire = <<>> \/ \E k \in Clients : k < call /\ wire \in {WholeOn(k), EndOn(k)}
    BY <1>1 DEF Calm, Sending
  <2>2. \A k \in Clients : k < call => k < call'
    BY <1>1, ClientNumbers
  <2>3. wire' = <<>> \/ \E k \in Clients : k < call' /\ wire' \in {WholeOn(k), EndOn(k)}
    BY <1>1, <2>1, <2>2
  <2> QED
    BY <1>1, <2>3 DEF Sending
<1>3. ASSUME NEW k \in Clients
      PROVE  /\ (Ahead(k)' => Ahead(k)) /\ (Awaited(k)' => Awaited(k)) /\ (Open(k) => Open(k)')
  BY <1>1, ClientNumbers DEF Ahead, Awaited, Open
<1> QED
  BY <1>1, <1>2, <1>3, ListenerUntouched

LEMMA HubSending ==
    ASSUME Calm, HubSends
    PROVE  Calm'
<1>1. /\ call \in Clients /\ call \in Nat /\ call' = call /\ stage = "send" /\ stage' = "close"
      /\ wire = <<>> /\ wire' = AnswerOn(call) /\ sock_fd
      /\ UNCHANGED <<link, stream, backlog, fd_A, fdsr, listening, pc, started, sock_fd, thread>>
  BY Grows DEF HubSends, Calm, Sending, Process, hubVars, clientVars, loopVars, procVars, winsockVars
<1>2. Sending'
  BY <1>1 DEF Sending
<1>3. ASSUME NEW k \in Clients
      PROVE  /\ (Ahead(k)' => Ahead(k)) /\ (Awaited(k)' => Awaited(k)) /\ (Open(k) => Open(k)')
  BY <1>1, Wires DEF Ahead, Awaited, Open
<1> QED
  BY <1>1, <1>2, <1>3, ListenerUntouched

LEMMA HubClosing ==
    ASSUME Calm, HubCloses
    PROVE  Calm'
<1>1. /\ call \in Clients /\ call \in Nat /\ call' = call + 1
      /\ stage = "close" /\ stage' = "connect"
      /\ wire = <<>> \/ (wire = AnswerOn(call) /\ sock_fd)
      /\ wire' = Append(wire, <<call, "end">>) /\ sock_fd
      /\ UNCHANGED <<link, stream, backlog, fd_A, fdsr, listening, pc, started, sock_fd, thread>>
  BY DEF HubCloses, Calm, Sending, Process, hubVars, clientVars, loopVars, procVars, winsockVars
<1>2. \/ wire = <<>> /\ wire' = EndOn(call)
      \/ wire = AnswerOn(call) /\ wire' = WholeOn(call)
  BY <1>1, Grows
<1>3. Sending'
  BY <1>1, <1>2 DEF Sending
<1>4. ASSUME NEW k \in Clients
      PROVE  /\ (Ahead(k)' => Ahead(k)) /\ (Awaited(k)' => Awaited(k)) /\ (Open(k) => Open(k)')
  <2>1. Ahead(k)' => Ahead(k)
    BY <1>1, ClientNumbers DEF Ahead
  <2>2. Awaited(k)' => Awaited(k)
    <3>1. CASE wire' = EndOn(call)
      BY <1>1, <2>1, <3>1, Wires DEF Awaited
    <3>2. CASE wire = AnswerOn(call) /\ wire' = WholeOn(call)
      BY <1>1, <2>1, <3>2, Wires DEF Awaited
    <3> QED
      BY <1>2, <3>1, <3>2
  <2>3. Open(k) => Open(k)'
    BY <1>1, <1>2 DEF Open
  <2> QED
    BY <2>1, <2>2, <2>3
<1> QED
  BY <1>1, <1>3, <1>4, ListenerUntouched

\* An order that is kept: only the first of what is on its way can arrive.
LEMMA Arriving ==
    ASSUME Undisturbed, Calm, NEW p \in DOMAIN wire, Arrive(p)
    PROVE  \E k \in Clients :
              /\ \/ wire = WholeOn(k) /\ wire' = EndOn(k)
                 \/ wire = AnswerOn(k) /\ wire' = <<>>
                 \/ wire = EndOn(k) /\ wire' = <<>>
              /\ \/ link[k] # "up" /\ UNCHANGED <<link, stream>>
                 \/ /\ link[k] = "up" /\ wire # EndOn(k) /\ UNCHANGED link
                    /\ stream' = [stream EXCEPT ![k] = Append(@, A)]
                 \/ /\ link[k] = "up" /\ wire = EndOn(k) /\ UNCHANGED stream
                    /\ link' = [link EXCEPT ![k] = "closed"]
<1>1. PICK k \in Clients : wire \in {WholeOn(k), AnswerOn(k), EndOn(k)}
  <2>1. wire # <<>>
    BY DEF Arrive
  <2> QED
    BY <2>1 DEF Calm, Sending
<1>2. /\ wire[1][1] = k /\ (wire[1][2] = "answer" <=> wire # EndOn(k))
      /\ DOMAIN wire \subseteq Nat \ {0}
  <2>1. Len(WholeOn(k)) = 2 /\ WholeOn(k)[1] = <<k, "answer">> /\ Len(AnswerOn(k)) = 1
        /\ AnswerOn(k)[1] = <<k, "answer">> /\ Len(EndOn(k)) = 1 /\ EndOn(k)[1] = <<k, "end">>
    BY WiresAre
  <2>2. wire \in Seq({<<k, "answer">>, <<k, "end">>})
    BY <1>1, WiresAre
  <2>3. DOMAIN wire = 1 .. Len(wire) /\ Len(wire) \in Nat
    BY <2>2, LenProperties
  <2> QED
    BY <1>1, <2>1, <2>3, Wires
<1>3. p = 1
  <2>1. \A j \in 1 .. p - 1 : FALSE
    BY DEF Arrive, MayArrive, Undisturbed
  <2>2. p \in Nat \ {0}
    BY <1>2
  <2>3. p > 1 => 1 \in 1 .. p - 1
    BY <2>2
  <2> QED
    BY <2>1, <2>2, <2>3
<1>4. wire' = RemoveAt(wire, 1)
  BY <1>3 DEF Arrive
<1>5. \/ wire = WholeOn(k) /\ wire' = EndOn(k)
      \/ wire = AnswerOn(k) /\ wire' = <<>>
      \/ wire = EndOn(k) /\ wire' = <<>>
  BY <1>1, <1>4, Shrinks
<1>6. IF link[k] # "up" THEN UNCHANGED <<link, stream>>
      ELSE IF wire[1][2] = "answer"
        THEN stream' = [stream EXCEPT ![k] = Append(@, A)] /\ UNCHANGED link
        ELSE link' = [link EXCEPT ![k] = "closed"] /\ UNCHANGED stream
  BY <1>2, <1>3 DEF Arrive, A
<1> QED
  BY <1>2, <1>5, <1>6

LEMMA NetworkArrives ==
    ASSUME Undisturbed, Calm, Network
    PROVE  Calm'
<1>1. PICK p \in DOMAIN wire : Arrive(p)
  BY DEF Network
<1>2. UNCHANGED <<backlog, fd_A, fdsr, listening, pc, started, sock_fd, thread, call, stage>>
  BY <1>1 DEF Arrive, loopVars, procVars, winsockVars, hubSide
<1>3. PICK k \in Clients :
         /\ \/ wire = WholeOn(k) /\ wire' = EndOn(k)
            \/ wire = AnswerOn(k) /\ wire' = <<>>
            \/ wire = EndOn(k) /\ wire' = <<>>
         /\ \/ link[k] # "up" /\ UNCHANGED <<link, stream>>
            \/ /\ link[k] = "up" /\ wire # EndOn(k) /\ UNCHANGED link
               /\ stream' = [stream EXCEPT ![k] = Append(@, A)]
            \/ /\ link[k] = "up" /\ wire = EndOn(k) /\ UNCHANGED stream
               /\ link' = [link EXCEPT ![k] = "closed"]
  BY <1>1, Arriving
<1>4. call \in Nat /\ k \in Nat /\ sock_fd
  BY <1>3, ClientNumbers, Wires DEF Calm, Sending, Process
<1>5. Process'
  BY <1>2, <1>4 DEF Calm, Process
<1>6. Sending'
  BY <1>2, <1>3, Wires DEF Calm, Sending
\* The answer comes first, into an empty stream; the end closes the connection.
<1>7. stream[k] = <<>> \/ wire = EndOn(k)
  BY <1>3, Wires DEF Calm, Connections, Awaited
<1>8. /\ link' \in [Clients -> {"idle", "up", "closed"}]
      /\ stream' \in [Clients -> Seq({A})]
      /\ stream'[k] = <<>> \/ Len(stream'[k]) = 1
      /\ \A j \in Clients : j # k => link'[j] = link[j] /\ stream'[j] = stream[j]
      /\ \A j \in Clients : /\ link'[j] = "up" => link[j] = "up"
                            /\ link'[j] = "idle" <=> link[j] = "idle"
                            /\ link[j] # "up" => stream'[j] = stream[j] /\ link'[j] = link[j]
  <2>1. /\ link \in [Clients -> {"idle", "up", "closed"}] /\ stream \in [Clients -> Seq({A})]
        /\ stream[k] = <<>> \/ Len(stream[k]) = 1
    BY DEF Calm, Connections
  <2>2. CASE link[k] # "up" /\ UNCHANGED <<link, stream>>
    BY <2>1, <2>2
  <2>3. CASE link[k] = "up" /\ wire # EndOn(k) /\ UNCHANGED link
             /\ stream' = [stream EXCEPT ![k] = Append(@, A)]
    <3>1. stream[k] = <<>> /\ Append(stream[k], A) \in Seq({A})
          /\ Len(Append(stream[k], A)) = 1
      BY <1>7, <2>1, <2>3, AppendProperties, EmptySeq
    <3>2. stream' \in [Clients -> Seq({A})] /\ stream'[k] = Append(stream[k], A)
          /\ \A j \in Clients : j # k => stream'[j] = stream[j]
      BY <2>1, <2>3, <3>1
    <3> QED
      BY <2>1, <2>3, <3>1, <3>2
  <2>4. CASE link[k] = "up" /\ wire = EndOn(k) /\ UNCHANGED stream
             /\ link' = [link EXCEPT ![k] = "closed"]
    BY <2>1, <2>4
  <2> QED
    BY <1>3, <2>2, <2>3, <2>4
<1>9. ASSUME NEW j \in Clients
      PROVE  /\ stream'[j] = <<>> \/ Len(stream'[j]) = 1
             /\ Ahead(j)' => link'[j] = "idle"
             /\ Awaited(j)' => stream'[j] = <<>>
             /\ link'[j] = "up" => Open(j)'
  <2>1. Ahead(j)' <=> Ahead(j)
    BY <1>2 DEF Ahead
  <2>2. /\ stream[j] = <<>> \/ Len(stream[j]) = 1
        /\ Ahead(j) => link[j] = "idle"
        /\ Awaited(j) => stream[j] = <<>>
        /\ link[j] = "up" => Open(j)
    BY DEF Calm, Connections
  <2>3. Awaited(j)' => Awaited(j) /\ (link[j] # "up" \/ j # k)
    <3>1. wire' # AnswerOn(j) /\ wire' # WholeOn(j)
      BY <1>3, Wires
    <3>2. ASSUME Awaited(j)'
          PROVE  Ahead(j) \/ (j = call /\ stage = "send")
      BY <1>2, <2>1, <3>1, <3>2 DEF Awaited
    <3>3. stage = "send" => FALSE
      BY <1>3, Wires DEF Calm, Sending
    <3> QED
      BY <2>2, <3>2, <3>3 DEF Awaited
  <2>4. link'[j] = "up" => Open(j)'
    <3> SUFFICES ASSUME link'[j] = "up" PROVE Open(j)'
      OBVIOUS
    <3>1. Open(j)
      BY <1>8, <2>2
    <3>2. CASE stage # "connect"
      BY <1>2, <3>1, <3>2 DEF Open
    <3>3. CASE stage = "connect" /\ (wire = WholeOn(j) \/ wire = EndOn(j))
      <4>1. j = k
        BY <1>3, <3>3, Wires
      <4>2. wire # EndOn(k)
        BY <1>3, <1>8, <4>1, Wires DEF Calm, Connections
      <4>3. wire' = EndOn(j)
        BY <1>3, <3>3, <4>1, <4>2, Wires
      <4> QED
        BY <1>2, <3>3, <4>3 DEF Open
    <3> QED
      BY <3>1, <3>2, <3>3 DEF Open
  <2> QED
    BY <1>8, <2>1, <2>2, <2>3, <2>4
<1>10. Connections'
  BY <1>8, <1>9 DEF Connections
<1>11. Queue'
  <2>1. \A m \in 1 .. Len(backlog) : backlog[m] \in Clients
    BY ElementOfSeq DEF Calm, Queue
  <2>2. \A i \in Slots : fd_A[i] # Free => fd_A[i] \in Clients
    BY DEF Calm, Queue
  <2> QED
    BY <1>2, <1>8, <2>1, <2>2 DEF Calm, Queue
<1>12. Passes'
  <2>1. \A i \in Slots : fd_A[i] # Free => fd_A[i] \in Clients
    BY DEF Calm, Queue
  <2>2. \A i \in Slots : Fresh(i)' => Fresh(i)
    BY <1>2, <1>8, <2>1 DEF Fresh
  <2>3. ASSUME AcceptingPass, NEW i \in Slots, fd_A[i] # Free
        PROVE  /\ link'[fd_A[i]] = "closed" /\ stream'[fd_A[i]] = stream[fd_A[i]]
               /\ Stays(i)' <=> Stays(i)
    <3>1. link[fd_A[i]] = "closed"
      BY <2>3 DEF Calm, Passes
    <3> QED
      BY <1>2, <1>8, <2>1, <2>3, <3>1 DEF Stays
  <2>4. AcceptingPass' <=> AcceptingPass
    BY <1>2 DEF AcceptingPass
  <2>5. CASE AcceptingPass
    <3>1. \A i \in Slots : Stays(i)' => Stays(i)
      BY <1>2, <2>3, <2>5 DEF Stays
    <3> QED
      BY <1>2, <2>3, <2>4, <2>5, <3>1 DEF Calm, Passes
  <2>6. CASE ~ AcceptingPass
    BY <1>2, <2>2, <2>4, <2>6 DEF Calm, Passes
  <2> QED
    BY <2>5, <2>6
<1> QED
  BY <1>5, <1>6, <1>10, <1>11, <1>12 DEF Calm

-----------------------------------------------------------------------------
(* The listener's loop.                                                    *)

\* What a step of the loop must keep, when it changes only its own variables.
LEMMA LoopStep ==
    ASSUME Calm, sock_fd, UNCHANGED <<link, call, stage, wire, started, sock_fd, thread>>,
           pc' \in {"select", "scan"}, Queue', Passes',
           stream' \in [Clients -> Seq({A})],
           \A k \in Clients : stream'[k] = stream[k] \/ stream'[k] = <<>>
    PROVE  Calm'
<1>1. Process'
  BY DEF Calm, Process
<1>2. Sending'
  BY DEF Calm, Sending
<1>3. Connections'
  BY DEF Calm, Connections, Ahead, Awaited, Open
<1> QED
  BY <1>1, <1>2, <1>3 DEF Calm

\* recv takes a beginning of the answer off the stream, and the slot off the pass.
LEMMA ShowTakes ==
    ASSUME NEW i \in Slots, ShowAnswer(i)
    PROVE  /\ pc = "scan" /\ i \in fdsr /\ fdsr' = fdsr \ {i} /\ stream[fd_A[i]] # <<>>
           /\ shown' = Append(shown, fd_A[i])
           /\ UNCHANGED <<link, backlog, fd_A, listening, pc, winsockVars, procVars, hubSide,
                          wire, earlier>>
           /\ \E k \in 1 .. Len(stream[fd_A[i]]) :
                 stream' = [stream EXCEPT ![fd_A[i]] = SubSeq(@, k + 1, Len(@))]
<1>1. /\ Reached(i) /\ shown' = Append(shown, fd_A[i])
      /\ UNCHANGED <<winsockVars, procVars, hubSide, wire, earlier>>
  BY DEF ShowAnswer, Recv
<1>2. PICK k \in 1 .. Len(stream[fd_A[i]]) : \E r : Take(i, k, r)
  BY DEF ShowAnswer, Recv
<1>3. PICK r : Take(i, k, r)
  BY <1>2
<1>4. /\ stream' = [stream EXCEPT ![fd_A[i]] = SubSeq(@, k + 1, Len(@))]
      /\ fdsr' = fdsr \ {i} /\ UNCHANGED <<link, backlog, fd_A, listening, pc>>
  BY <1>3 DEF Take
<1>5. stream[fd_A[i]] # <<>>
  <2> SUFFICES ASSUME stream[fd_A[i]] = <<>> PROVE FALSE
    OBVIOUS
  <2>1. Len(stream[fd_A[i]]) = 0
    OBVIOUS
  <2> QED
    BY <1>2, <2>1
<1> QED
  BY <1>1, <1>2, <1>4, <1>5 DEF Reached, First

\* The answer is taken whole.
LEMMA LoopShows ==
    ASSUME Calm, started = "listening", NEW i \in Slots, ShowAnswer(i)
    PROVE  Calm'
<1> DEFINE c == fd_A[i]
<1>1. /\ i \in fdsr /\ fdsr' = fdsr \ {i} /\ stream[c] # <<>> /\ pc = "scan"
      /\ UNCHANGED <<link, backlog, fd_A, listening, pc, call, stage, wire, started, sock_fd, thread>>
      /\ \E k \in 1 .. Len(stream[c]) :
            stream' = [stream EXCEPT ![c] = SubSeq(stream[c], k + 1, Len(stream[c]))]
  BY ShowTakes DEF procVars, hubSide, winsockVars
<1>2. c \in Clients /\ sock_fd
  BY <1>1 DEF Calm, Queue, Passes, Process
<1> HIDE DEF c
<1>3. stream' = [stream EXCEPT ![c] = <<>>]
  <2>1. Len(stream[c]) = 1 /\ stream[c] \in Seq({A})
    BY <1>1, <1>2 DEF Calm, Connections
  <2>2. SubSeq(stream[c], 2, 1) = <<>>
    BY SubSeqEmpty
  <2>3. PICK k \in 1 .. 1 :
            stream' = [stream EXCEPT ![c] = SubSeq(stream[c], k + 1, Len(stream[c]))]
    BY <1>1, <2>1
  <2>4. k + 1 = 2
    OBVIOUS
  <2> QED
    BY <2>1, <2>2, <2>3, <2>4
<1>4. /\ stream' \in [Clients -> Seq({A})] /\ stream'[c] = <<>>
      /\ \A k \in Clients : stream'[k] = stream[k] \/ stream'[k] = <<>>
  <2>1. stream \in [Clients -> Seq({A})] /\ <<>> \in Seq({A})
    BY EmptySeq DEF Calm, Connections
  <2> QED
    BY <1>2, <1>3, <2>1
<1>5. Queue'
  BY <1>1 DEF Calm, Queue
<1>6. Passes'
  <2>1. \A j \in Slots : fd_A[j] # Free => fd_A[j] \in Clients
    BY DEF Calm, Queue
  <2>2. \A j \in Slots : Fresh(j)' => Fresh(j)
    BY <1>1, <1>4, <2>1 DEF Fresh
  <2>3. \A j \in Slots : Stays(j)' => Stays(j)
    <3> SUFFICES ASSUME NEW j \in Slots, Stays(j)' PROVE Stays(j)
      OBVIOUS
    <3>1. CASE j = i
      BY <1>1, <3>1 DEF Stays, c
    <3>2. CASE j # i
      BY <1>1, <1>4, <2>1, <3>2 DEF Stays
    <3> QED
      BY <3>1, <3>2
  <2>4. AcceptingPass' <=> AcceptingPass
    BY <1>1 DEF AcceptingPass
  <2>5. CASE AcceptingPass
    <3>1. ASSUME NEW j \in Slots, fd_A[j] # Free, j \notin fdsr' PROVE stream'[fd_A[j]] = <<>>
      <4>1. CASE j = i
        BY <1>4, <4>1 DEF c
      <4>2. CASE j # i
        BY <1>1, <1>4, <2>1, <2>5, <3>1, <4>2 DEF Calm, Passes
      <4> QED
        BY <4>1, <4>2
    <3> QED
      BY <1>1, <2>3, <2>4, <2>5, <3>1 DEF Calm, Passes
  <2>6. CASE ~ AcceptingPass
    BY <1>1, <2>2, <2>4, <2>6 DEF Calm, Passes
  <2> QED
    BY <2>5, <2>6
<1> QED
  BY <1>1, <1>2, <1>4, <1>5, <1>6, LoopStep

LEMMA LoopFrees ==
    ASSUME Calm, started = "listening", NEW i \in Slots, RecvClosed(i),
           UNCHANGED <<winsockVars, procVars, hubSide, wire>>
    PROVE  Calm'
<1>1. /\ fdsr' = fdsr \ {i} /\ fd_A' = [fd_A EXCEPT ![i] = Free] /\ pc = "scan" /\ i \in fdsr
      /\ UNCHANGED <<link, stream, backlog, listening, pc, call, stage, wire, started, sock_fd, thread>>
  BY DEF RecvClosed, Reached, First, procVars, hubSide, winsockVars, clientVars
<1>2. fd_A' \in [Slots -> Clients \cup {Free}] /\ fd_A'[i] = Free
      /\ \A j \in Slots : j # i => fd_A'[j] = fd_A[j]
  BY <1>1 DEF Calm, Queue
<1>3. sock_fd /\ pc' \in {"select", "scan"} /\ stream' \in [Clients -> Seq({A})]
  BY <1>1 DEF Calm, Process, Connections
<1>4. Queue'
  BY <1>1, <1>2 DEF Calm, Queue
<1>5. Passes'
  <2>1. \A j \in Slots : (Fresh(j)' => Fresh(j)) /\ (Stays(j)' => Stays(j))
    BY <1>1, <1>2 DEF Fresh, Stays
  <2> QED
    BY <1>1, <1>2, <2>1 DEF Calm, Passes, AcceptingPass
<1> QED
  BY <1>1, <1>3, <1>4, <1>5, LoopStep

LEMMA LoopAgain ==
    ASSUME Calm, started = "listening", Again, UNCHANGED <<winsockVars, procVars, hubSide, wire>>
    PROVE  Calm'
<1>1. /\ ~ listening /\ pc' = "select"
      /\ UNCHANGED <<fd_A, fdsr, link, stream, backlog, listening, call, stage, wire, started,
                     sock_fd, thread>>
  BY DEF Again, procVars, hubSide, winsockVars, clientVars
<1>2. sock_fd /\ stream' \in [Clients -> Seq({A})]
  BY <1>1 DEF Calm, Process, Connections
<1>3. Queue' /\ Passes'
  BY <1>1 DEF Calm, Queue, Passes, AcceptingPass, Fresh
<1> QED
  BY <1>1, <1>2, <1>3, LoopStep

\* A connection that waits is younger than every one that has a slot.
LEMMA LoopSelects ==
    ASSUME Calm, started = "listening", Select, UNCHANGED <<winsockVars, procVars, hubSide, wire>>
    PROVE  Calm'
<1>1. /\ pc = "select" /\ pc' = "scan" /\ listening' = (backlog # <<>>)
      /\ fdsr' = {i \in Slots : fd_A[i] # Free /\ Readable(fd_A[i])}
      /\ UNCHANGED <<fd_A, link, stream, backlog, call, stage, wire, started, sock_fd, thread>>
  BY DEF Select, procVars, hubSide, winsockVars, clientVars
<1>2. sock_fd /\ stream' \in [Clients -> Seq({A})]
  BY <1>1 DEF Calm, Process, Connections
<1>3. Queue'
  BY <1>1 DEF Calm, Queue
<1>4. \A i, j \in Slots : Fresh(i) /\ Fresh(j) => i = j
  BY <1>1 DEF Calm, Passes, AcceptingPass
<1>5. \A i \in Slots : Fresh(i)' <=> Fresh(i)
  BY <1>1 DEF Fresh
<1>6. ASSUME backlog # <<>>, NEW i \in Slots, fd_A[i] # Free
      PROVE  /\ link[fd_A[i]] = "closed" /\ i \in fdsr'
             /\ Stays(i)' => Fresh(i)
  <2>1. backlog \in Seq(Clients) /\ 1 \in 1 .. Len(backlog) /\ backlog[1] \in Clients
    BY <1>6, EmptySeq, LenProperties, ElementOfSeq DEF Calm, Queue
  <2>2. fd_A[i] \in Clients /\ fd_A[i] < backlog[1] /\ link[fd_A[i]] # "idle"
        /\ (link[fd_A[i]] = "up" => backlog[1] <= fd_A[i])
    BY <1>6, <2>1 DEF Calm, Queue
  <2>3. link[fd_A[i]] # "up"
    <3>1. \A j, k \in Clients : ~ (j < k /\ k <= j)
      BY ClientNumbers
    <3> QED
      BY <2>1, <2>2, <3>1
  <2>4. link[fd_A[i]] = "closed"
    BY <2>2, <2>3 DEF Calm, Connections
  <2>5. i \in fdsr'
    BY <1>1, <1>6, <2>3 DEF Readable
  <2> QED
    BY <1>1, <1>6, <2>4, <2>5 DEF Stays, Fresh
<1>7. Passes'
  <2>1. listening' \in BOOLEAN /\ fdsr' \subseteq Slots /\ \A i \in fdsr' : fd_A'[i] # Free
    BY <1>1
  <2>2. CASE backlog = <<>>
    BY <1>1, <1>4, <1>5, <2>1, <2>2 DEF Passes, AcceptingPass
  <2>3. CASE backlog # <<>>
    <3>1. AcceptingPass' /\ backlog' # <<>>
      BY <1>1, <2>3 DEF AcceptingPass
    <3>2. \A i \in Slots : fd_A'[i] # Free => link'[fd_A'[i]] = "closed" /\ i \in fdsr'
      BY <1>1, <1>6, <2>3
    <3>3. \A i, j \in Slots : Stays(i)' /\ Stays(j)' => i = j
      <4>1. \A i \in Slots : Stays(i)' => fd_A[i] # Free
        BY <1>1 DEF Stays
      <4> QED
        BY <1>4, <1>6, <2>3, <4>1
    <3> QED
      BY <2>1, <3>1, <3>2, <3>3 DEF Passes
  <2> QED
    BY <2>2, <2>3
<1> QED
  BY <1>1, <1>2, <1>3, <1>7, LoopStep

\* What still has a slot then has been emptied.
LEMMA LoopAccepts ==
    ASSUME Calm, started = "listening", Accept, UNCHANGED <<winsockVars, procVars, hubSide, wire>>
    PROVE  Calm'
<1>1. /\ AcceptingPass /\ fdsr = {} /\ fdsr' = {} /\ pc' = "select" /\ listening' = FALSE
      /\ backlog' = Tail(backlog)
      /\ UNCHANGED <<link, stream, call, stage, wire, started, sock_fd, thread>>
      /\ \E i \in FreeSlots : fd_A' = [fd_A EXCEPT ![i] = Head(backlog)]
  BY DEF Accept, Accepting, AcceptingPass, procVars, hubSide, winsockVars, clientVars
<1>2. PICK i \in Slots : fd_A[i] = Free /\ fd_A' = [fd_A EXCEPT ![i] = Head(backlog)]
  BY <1>1 DEF FreeSlots
<1>3. sock_fd /\ stream' \in [Clients -> Seq({A})]
  BY <1>1 DEF Calm, Process, Connections
<1>4. backlog \in Seq(Clients) /\ backlog # <<>> /\ Len(backlog) \in Nat
  BY <1>1, LenProperties DEF Calm, Queue, Passes
<1>5. /\ Head(backlog) = backlog[1] /\ Head(backlog) \in Clients /\ backlog' \in Seq(Clients)
      /\ 1 \in 1 .. Len(backlog)
      /\ \A m \in 1 .. Len(backlog') : backlog'[m] = backlog[m + 1]
                                       /\ m + 1 \in 1 .. Len(backlog) /\ 1 < m + 1
      /\ \A l, m \in 1 .. Len(backlog') : l < m => l + 1 < m + 1
  <2>1. /\ Tail(backlog) \in Seq(Clients) /\ Len(Tail(backlog)) = Len(backlog) - 1
        /\ \A m \in 1 .. Len(Tail(backlog)) : Tail(backlog)[m] = backlog[m + 1]
    BY <1>4, HeadTailProperties
  <2>2. Head(backlog) = backlog[1] /\ Head(backlog) \in Clients /\ Len(backlog) > 0
    BY <1>4, HeadTailProperties, EmptySeq
  <2> QED
    BY <1>1, <1>4, <2>1, <2>2
<1>6. /\ fd_A' \in [Slots -> Clients \cup {Free}] /\ fd_A'[i] = Head(backlog)
      /\ \A j \in Slots : j # i => fd_A'[j] = fd_A[j]
  BY <1>2, <1>5 DEF Calm, Queue
<1>7. Queue'
  <2>1. \A l, m \in 1 .. Len(backlog) : l < m => backlog[l] < backlog[m]
    BY DEF Calm, Queue
  <2>2. \A m \in 1 .. Len(backlog) : link[backlog[m]] # "idle"
    BY DEF Calm, Queue
  <2>3. \A j \in Slots : fd_A[j] # Free =>
          link[fd_A[j]] # "idle" /\ \A m \in 1 .. Len(backlog) : fd_A[j] < backlog[m]
    BY DEF Calm, Queue
  <2>4. \A k \in Clients : link[k] = "up" =>
          /\ \A m \in 1 .. Len(backlog) : backlog[m] <= k
          /\ \A j \in Slots : fd_A[j] # Free => fd_A[j] <= k
    BY DEF Calm, Queue
  <2>5. \A m \in 1 .. Len(backlog') : link'[backlog'[m]] # "idle"
    BY <1>1, <1>5, <2>2
  <2>6. \A l, m \in 1 .. Len(backlog') : l < m => backlog'[l] < backlog'[m]
    BY <1>5, <2>1
  <2>7. ASSUME NEW j \in Slots, fd_A'[j] # Free
        PROVE  link'[fd_A'[j]] # "idle" /\ \A m \in 1 .. Len(backlog') : fd_A'[j] < backlog'[m]
    <3>1. CASE j = i
      BY <1>1, <1>5, <1>6, <2>1, <2>2, <3>1
    <3>2. CASE j # i
      BY <1>1, <1>5, <1>6, <2>3, <2>7, <3>2
    <3> QED
      BY <3>1, <3>2
  <2>8. ASSUME NEW k \in Clients, link'[k] = "up"
        PROVE  /\ \A m \in 1 .. Len(backlog') : backlog'[m] <= k
               /\ \A j \in Slots : fd_A'[j] # Free => fd_A'[j] <= k
    BY <1>1, <1>5, <1>6, <2>4, <2>8
  <2> QED
    BY <1>5, <1>6, <2>5, <2>6, <2>7, <2>8 DEF Queue
<1>8. Passes'
  <2>1. \A j \in Slots : fd_A[j] # Free => link[fd_A[j]] = "closed" /\ stream[fd_A[j]] = <<>>
    BY <1>1 DEF Calm, Passes
  <2>2. ASSUME NEW j \in Slots, Fresh(j)' PROVE j = i
    BY <1>1, <1>6, <2>1, <2>2 DEF Fresh
  <2>3. ~ AcceptingPass'
    BY <1>1 DEF AcceptingPass
  <2> QED
    BY <1>1, <2>2, <2>3 DEF Passes
<1> QED
  BY <1>1, <1>3, <1>7, <1>8, LoopStep

\* Two slots are never both taken when a pass is over.
LEMMA NeverFull ==
    ASSUME MaxListen >= 2, Calm, Accepting
    PROVE  FreeSlots # {}
<1>1. 0 \in Slots /\ 1 \in Slots
  BY HubAssumption DEF Slots
<1>2. AcceptingPass /\ fdsr = {}
  BY DEF Accepting, AcceptingPass
<1>3. \A i, j \in Slots : Stays(i) /\ Stays(j) => i = j
  BY <1>2 DEF Calm, Passes
<1>4. ~ Stays(0) \/ ~ Stays(1)
  BY <1>1, <1>3
<1> QED
  BY <1>1, <1>2, <1>4 DEF Stays, FreeSlots

LEMMA ListenerLoop ==
    ASSUME MaxListen >= 2, Calm, started = "listening",
           Turn \/ AcceptShutDown \/ LoopEnds \/ \E i \in Slots : ShowAnswer(i)
    PROVE  Calm'
<1>1. sock_fd
  BY DEF Calm, Process
<1>2. CASE Turn
  BY <1>2, LoopAgain, LoopSelects, LoopAccepts, LoopFrees DEF Turn
<1>3. CASE AcceptShutDown
  BY <1>1, <1>3 DEF AcceptShutDown
<1>4. CASE LoopEnds
  BY <1>1, <1>4, NeverFull DEF LoopEnds
<1>5. CASE \E i \in Slots : ShowAnswer(i)
  BY <1>5, LoopShows
<1> QED
  BY <1>2, <1>3, <1>4, <1>5

-----------------------------------------------------------------------------
(* The theorems.                                                           *)

LEMMA ListenerBegins ==
    ASSUME ListenerInit
    PROVE  ListenerInv
<1>1. WinsockInv
  BY WinsockBegin DEF ListenerInit
<1>2. /\ started = "starting" /\ sock_fd = FALSE /\ call = 1 /\ stage = "connect" /\ wire = <<>>
      /\ link = [k \in Clients |-> "idle"] /\ stream = [k \in Clients |-> <<>>]
      /\ backlog = <<>> /\ fd_A = [i \in Slots |-> Free] /\ fdsr = {} /\ listening = FALSE
      /\ pc = "select" /\ thread = [t \in Threads |-> "new"]
  BY DEF ListenerInit, HubInit, WinsockInit
<1>3. "listener" \in Threads
  BY ListenerAssumption
<1>4. Process
  BY <1>2, <1>3 DEF Process
<1>5. Sending
  BY <1>2 DEF Sending
<1>6. Connections
  BY <1>2, EmptySeq DEF Connections
<1>7. Queue
  BY <1>2, EmptySeq DEF Queue
<1>8. Passes
  BY <1>2 DEF Passes, AcceptingPass, Fresh
<1> QED
  BY <1>1, <1>4, <1>5, <1>6, <1>7, <1>8 DEF ListenerInv, Calm

LEMMA ListenerGoesOn ==
    ASSUME MaxListen >= 2, ListenerInv, [ListenerNext]_listenerVars
    PROVE  ListenerInv'
<1>1. WinsockInv /\ WinsockInv' /\ (Undisturbed' => Undisturbed)
  BY WinsockOfListener DEF ListenerInv
<1> SUFFICES ASSUME Undisturbed' PROVE Calm'
  BY <1>1 DEF ListenerInv
<1>2. Undisturbed /\ Calm
  BY <1>1 DEF ListenerInv
<1>3. CASE HubSide
  BY <1>2, <1>3, HubConnecting, HubRefusing, HubSending, HubClosing DEF HubSide
<1>4. CASE Network
  BY <1>2, <1>4, NetworkArrives
<1>5. CASE ListenerStep
  BY <1>1, <1>2, <1>5, ListenerThread, ListenerLoop DEF ListenerStep
<1>6. CASE SenderStep
  BY <1>1, <1>2, <1>6, SenderThread
<1>7. CASE UNCHANGED listenerVars
  <2>1. UNCHANGED <<hubVars, call, stage, wire, started, sock_fd, thread, fd_A, pc, link, stream,
                    backlog>>
    BY <1>7 DEF listenerVars, hubSide, procVars, winsockVars, hubVars, loopVars, clientVars
  <2>2. Process'
    BY <1>2, <2>1 DEF Calm, Process
  <2> QED
    BY <1>2, <2>1, <2>2, LoopKept DEF Calm
<1> QED
  BY <1>3, <1>4, <1>5, <1>6, <1>7 DEF ListenerNext

\* Winsock's count stays that of the threads of the process that hold it,
\* whatever the two of them and the network do.
THEOREM ListenerRefsHeld == ListenerSpec => []RefsHeld
<1>1. ListenerInit => WinsockInv
  BY WinsockBegin DEF ListenerInit
<1>2. WinsockInv /\ [ListenerNext]_listenerVars => WinsockInv'
  BY WinsockOfListener
<1>3. WinsockInv => RefsHeld
  BY DEF WinsockInv
<1> QED
  BY <1>1, <1>2, <1>3, PTL DEF ListenerSpec

\* With two slots the listener of a client's process never ends, however many
\* answers the hub sends, unless a WSAStartup failed or a connection overtook
\* another.
THEOREM ListenerNeverEnds ==
    ASSUME MaxListen >= 2
    PROVE  ListenerSpec => []NeverEnds
<1>1. ListenerInit => ListenerInv
  BY ListenerBegins
<1>2. ListenerInv /\ [ListenerNext]_listenerVars => ListenerInv'
  BY ListenerGoesOn
<1>3. ListenerInv => NeverEnds
  BY DEF ListenerInv, Undisturbed, NeverEnds, Calm, Process
<1> QED
  BY <1>1, <1>2, <1>3, PTL DEF ListenerSpec

-----------------------------------------------------------------------------
(* Any network: what had arrived first is shown first.                     *)

Coming(k) == \E p \in 1 .. Len(wire) : wire[p] = <<k, "answer">>

Seen(k) == \E n \in 1 .. Len(shown) : shown[n] = k

Waiting(k) == \E m \in 1 .. Len(backlog) : backlog[m] = k

Placed(k) == \E i \in Slots : fd_A[i] = k

Opened(k) == k < call \/ (k = call /\ stage # "connect")

\* The hub's side: an answer is sent once, and before the end of its connection.
Books ==
    /\ call \in Nat /\ stage \in {"connect", "send", "close"}
    /\ stage # "connect" => call \in Clients
    /\ posted \subseteq Clients
    /\ \A j \in posted : j < call \/ (j = call /\ stage = "close")
    /\ wire \in Seq(Clients \X {"answer", "end"})
    /\ \A p \in 1 .. Len(wire) :
         /\ wire[p][2] = "answer" => wire[p][1] \in posted
         /\ wire[p][2] = "end" => wire[p][1] < call
    /\ \A p, q \in 1 .. Len(wire) :
         wire[p][1] = wire[q][1] /\ wire[p][2] = "end" /\ wire[q][2] = "answer" => q < p

\* What was noted when a connection was opened, and what has been shown.
History ==
    /\ earlier \in [Clients -> SUBSET Clients]
    /\ \A k \in Clients : \A j \in earlier[k] : j \in posted /\ ~ Coming(j)
    /\ shown \in Seq(Clients) /\ \A n \in 1 .. Len(shown) : shown[n] \in posted
    /\ \A n \in 1 .. Len(shown) : \A j \in earlier[shown[n]] :
         \E m \in 1 .. n - 1 : shown[m] = j

Ends ==
    /\ link \in [Clients -> {"idle", "up", "closed", "cut"}]
    /\ stream \in [Clients -> Seq({A})]
    /\ fd_A \in [Slots -> Clients \cup {Free, Invalid}]
    /\ started \in {"starting", "preparing", "listening", "exited"}

\* The loop, as long as it runs.
Loop ==
    /\ backlog \in Seq(Clients)
    /\ fdsr \subseteq Slots /\ \A i \in fdsr : fd_A[i] \in Clients
    /\ \A k \in Clients : Waiting(k) \/ Placed(k) => Opened(k)
    /\ \A k \in Clients : stream[k] # <<>> => k \in posted
    /\ ~ sock_fd => \A k \in Clients : stream[k] = <<>> /\ link[k] # "up"
    /\ started \in {"starting", "preparing"} =>
         /\ ~ sock_fd /\ posted = {} /\ backlog = <<>> /\ wire = <<>> /\ stage = "connect"
         /\ pc = "select" /\ \A i \in Slots : fd_A[i] = Free

\* The loop and its sockets, as long as Winsock is there: where each answer is
\* that has arrived, and those that had arrived before another.
Arrivals ==
    /\ \A j \in posted : ~ Coming(j) =>
         Seen(j) \/ (stream[j] # <<>> /\ (Waiting(j) \/ Placed(j)))
    /\ \A j \in Clients : Coming(j) \/ (j = call /\ stage = "send") => link[j] = "up"
    /\ \A j \in Clients : link[j] = "up" => Waiting(j) \/ Placed(j)

Order ==
    /\ \A i \in Slots : fd_A[i] \in Clients => \A j \in earlier[fd_A[i]] : Seen(j)
    /\ pc = "scan" /\ listening =>
         /\ backlog # <<>>
         /\ \A j \in earlier[backlog[1]] : Seen(j) \/ \E i \in fdsr : fd_A[i] = j
    /\ \A m \in 1 .. Len(backlog) : \A j \in earlier[backlog[m]] :
         Seen(j) \/ Placed(j) \/ \E l \in 1 .. m - 1 : backlog[l] = j

Course ==
    /\ Books /\ History /\ Ends
    /\ pc # "stopped" => Loop /\ (sock_fd => Arrivals /\ Order)

\* What holds of the hub's side and of what was shown holds as long as neither moves.
LEMMA BooksKept ==
    ASSUME Books, UNCHANGED <<call, stage, posted, wire>>
    PROVE  Books'
  BY DEF Books

LEMMA HistoryKept ==
    ASSUME History, UNCHANGED <<posted, wire, earlier, shown>>
    PROVE  History'
  BY DEF History, Coming

LEMMA CourseKept ==
    ASSUME Course, UNCHANGED <<call, stage, posted, wire, earlier, shown, link, stream, fd_A,
                               backlog, fdsr, pc, listening, sock_fd, started>>
    PROVE  Course'
<1>1. Books' /\ History'
  BY BooksKept, HistoryKept DEF Course
<1>2. Ends'
  BY DEF Course, Ends
<1>3. pc # "stopped" => Loop'
  BY DEF Course, Loop, Waiting, Placed, Opened
<1>4. Arrivals => Arrivals'
  BY DEF Arrivals, Coming, Seen, Waiting, Placed
<1>5. Order => Order'
  BY DEF Order, Seen, Placed
<1> QED
  BY <1>1, <1>2, <1>3, <1>4, <1>5 DEF Course

LEMMA WireKnown ==
    ASSUME Books
    PROVE  /\ Len(wire) \in Nat /\ DOMAIN wire = 1 .. Len(wire)
           /\ \A p \in 1 .. Len(wire) :
                wire[p] \in Clients \X {"answer", "end"} /\ wire[p] = <<wire[p][1], wire[p][2]>>
<1>1. wire \in Seq(Clients \X {"answer", "end"})
  BY DEF Books
<1>2. \A p \in 1 .. Len(wire) : wire[p] \in Clients \X {"answer", "end"}
  BY <1>1, ElementOfSeq
<1> QED
  BY <1>1, <1>2, LenProperties

\* What had arrived when a connection is opened.
LEMMA ArrivedAre ==
    ASSUME Books
    PROVE  Arrived \subseteq Clients /\ \A j : j \in Arrived <=> j \in posted /\ ~ Coming(j)
  BY WireKnown DEF Arrived, Books, Coming, ToSet

-----------------------------------------------------------------------------
(* The threads of the process.                                             *)

LEMMA CourseListenerThread ==
    ASSUME Course, ListenerStartup \/ Prepare
    PROVE  Course'
<1>1. UNCHANGED <<call, stage, posted, wire, earlier, shown, link, stream, fd_A,
                  backlog, fdsr, pc, listening>>
  BY DEF ListenerStartup, Prepare, hubVars, clientVars, loopVars, hubSide
<1>2. /\ started \in {"starting", "preparing"}
      /\ \/ started' \in {"preparing", "exited"} /\ UNCHANGED sock_fd
         \/ started' = "listening"
  BY DEF ListenerStartup, Prepare
<1>3. Books' /\ History' /\ Ends'
  BY <1>1, <1>2, BooksKept, HistoryKept DEF Course, Ends
<1>4. pc # "stopped" => Loop'
  BY <1>1, <1>2 DEF Course, Loop, Waiting, Placed, Opened
\* As yet there is nothing to be shown.
<1>5. pc # "stopped" => Arrivals' /\ Order'
  <2> SUFFICES ASSUME pc # "stopped" PROVE Arrivals' /\ Order'
    OBVIOUS
  <2>1. /\ posted = {} /\ backlog = <<>> /\ wire = <<>> /\ stage = "connect" /\ pc = "select"
        /\ \A i \in Slots : fd_A[i] = Free
        /\ \A k \in Clients : link[k] # "up"
    BY <1>2 DEF Course, Loop
  <2>2. ~ Coming(1) /\ Len(wire) = 0 /\ Len(backlog) = 0 /\ Free \notin Clients
    BY <2>1, HubAssumption DEF Coming
  <2>3. Arrivals'
    BY <1>1, <2>1, <2>2 DEF Arrivals, Coming
  <2>4. Order'
    BY <1>1, <2>1, <2>2 DEF Order
  <2> QED
    BY <2>3, <2>4
<1> QED
  BY <1>1, <1>3, <1>4, <1>5 DEF Course

LEMMA CourseSenderThread ==
    ASSUME Course, SenderStep
    PROVE  Course'
<1>1. /\ started # "exited" /\ IfShutDown
      /\ UNCHANGED <<fd_A, fdsr, listening, pc, started, call, stage, posted, wire, shown, earlier>>
  BY DEF SenderStep, SenderStartup, SenderEnds, hubSide
<1>2. CASE refs' # 0
  BY <1>1, <1>2, CourseKept DEF IfShutDown
<1>3. CASE refs' = 0
  <2>1. /\ link' = Cut(Sockets \cup ToSet(backlog)) /\ stream' = [k \in Clients |-> <<>>]
        /\ backlog' = <<>> /\ sock_fd' = FALSE
    BY <1>1, <1>3 DEF IfShutDown
  <2>2. Books' /\ History'
    BY <1>1, BooksKept, HistoryKept DEF Course
  <2>3. Ends'
    BY <1>1, <2>1, EmptySeq DEF Course, Ends, Cut
  <2>4. ASSUME pc # "stopped" PROVE Loop'
    <3>1. Loop
      BY <2>4 DEF Course
    <3>2. backlog' \in Seq(Clients) /\ Len(backlog') = 0
      BY <2>1, EmptySeq
    <3>3. \A k \in Clients : Waiting(k)' \/ Placed(k)' => Opened(k)'
      BY <1>1, <3>1, <3>2 DEF Loop, Waiting, Placed, Opened
    <3>4. \A k \in Clients : link'[k] # "up"
      <4> SUFFICES ASSUME NEW k \in Clients, link[k] = "up" PROVE link'[k] # "up"
        BY <2>1 DEF Cut
      <4>1. Waiting(k) \/ Placed(k)
        BY <2>4, <3>1 DEF Course, Loop, Arrivals
      <4>2. DOMAIN backlog = 1 .. Len(backlog)
        BY <3>1, LenProperties DEF Loop
      <4>3. k \in Sockets \cup ToSet(backlog)
        BY <4>1, <4>2, HubAssumption DEF Waiting, Placed, Sockets, ToSet
      <4> QED
        BY <2>1, <4>3 DEF Cut
    <3>5. \A k \in Clients : stream'[k] = <<>>
      BY <2>1
    <3> QED
      BY <1>1, <2>1, <3>1, <3>2, <3>3, <3>4, <3>5 DEF Loop
  <2> QED
    BY <1>1, <2>1, <2>2, <2>3, <2>4 DEF Course
<1> QED
  BY <1>2, <1>3

-----------------------------------------------------------------------------
(* The hub.                                                                *)

LEMMA CourseHubConnects ==
    ASSUME Course, HubConnects
    PROVE  Course'
<1>1. /\ call \in Clients /\ call \in Nat /\ stage = "connect" /\ stage' = "send" /\ sock_fd
      /\ link' = [link EXCEPT ![call] = "up"] /\ backlog' = Append(backlog, call)
      /\ earlier' = [earlier EXCEPT ![call] = Arrived]
      /\ UNCHANGED <<stream, fd_A, fdsr, listening, pc, started, sock_fd, call, posted, wire, shown>>
  BY ClientNumbers DEF HubConnects, Listening, procVars
<1>2. Books'
  BY <1>1 DEF Course, Books
<1>3. /\ Arrived \subseteq Clients /\ call \notin posted
      /\ \A j : j \in Arrived <=> j \in posted /\ ~ Coming(j)
  BY <1>1, ArrivedAre DEF Course, Books
<1>4. \A k : (Coming(k)' <=> Coming(k)) /\ (Seen(k)' <=> Seen(k)) /\ (Placed(k)' <=> Placed(k))
  BY <1>1 DEF Coming, Seen, Placed
<1>5. /\ earlier' \in [Clients -> SUBSET Clients] /\ earlier'[call] = Arrived
      /\ \A k \in Clients : k # call => earlier'[k] = earlier[k]
      /\ link' \in [Clients -> {"idle", "up", "closed", "cut"}] /\ link'[call] = "up"
      /\ \A k \in Clients : k # call => link'[k] = link[k]
  BY <1>1, <1>3 DEF Course, History, Ends
<1>6. History'
  <2>1. \A n \in 1 .. Len(shown) : shown[n] \in posted /\ shown[n] \in Clients /\ shown[n] # call
    BY <1>3, ElementOfSeq DEF Course, History
  <2>2. \A k \in Clients : \A j \in earlier'[k] : j \in posted /\ ~ Coming(j)
    BY <1>3, <1>5 DEF Course, History
  <2> QED
    BY <1>1, <1>4, <1>5, <2>1, <2>2 DEF Course, History
<1>7. Ends'
  BY <1>1, <1>5 DEF Course, Ends
<1>8. ASSUME pc # "stopped" PROVE Loop' /\ Arrivals' /\ Order'
  <2>1. Loop /\ Arrivals /\ Order
    BY <1>1, <1>8 DEF Course
  <2>2. /\ Len(backlog) \in Nat /\ Len(backlog') = Len(backlog) + 1
        /\ \A m \in 1 .. Len(backlog) : backlog'[m] = backlog[m] /\ backlog[m] \in Clients
        /\ backlog'[Len(backlog) + 1] = call
        /\ backlog' \in Seq(Clients)
        /\ \A m \in 1 .. Len(backlog') : m \in 1 .. Len(backlog) \/ m = Len(backlog) + 1
        /\ 1 .. Len(backlog) \subseteq 1 .. Len(backlog')
        /\ Len(backlog) + 1 \in 1 .. Len(backlog')
    BY <1>1, <2>1, AppendProperties, LenProperties, ElementOfSeq DEF Loop
  <2>3. \A k : Waiting(k)' <=> Waiting(k) \/ k = call
    BY <2>2 DEF Waiting
  <2>4. \A k \in Clients : Waiting(k) \/ Placed(k) => k # call /\ Opened(k)
    BY <1>1, <2>1 DEF Loop, Opened
  <2>5. Loop'
    <3>1. \A k \in Clients : Waiting(k)' \/ Placed(k)' => Opened(k)'
      BY <1>1, <1>4, <2>3, <2>4 DEF Opened
    <3> QED
      BY <1>1, <2>1, <2>2, <3>1 DEF Loop
  <2>6. Arrivals'
    <3>1. \A j \in posted : ~ Coming(j)' =>
            Seen(j)' \/ (stream'[j] # <<>> /\ (Waiting(j)' \/ Placed(j)'))
      BY <1>1, <1>4, <2>1, <2>3 DEF Arrivals
    <3>2. \A j \in Clients : Coming(j)' \/ (j = call /\ stage' = "send") => link'[j] = "up"
      BY <1>4, <1>5, <2>1 DEF Arrivals
    <3>3. \A j \in Clients : link'[j] = "up" => Waiting(j)' \/ Placed(j)'
      BY <1>4, <1>5, <2>1, <2>3 DEF Arrivals
    <3> QED
      BY <1>1, <3>1, <3>2, <3>3 DEF Arrivals
  <2>7. Order'
    <3>1. ASSUME NEW i \in Slots, fd_A[i] \in Clients
          PROVE  \A j \in earlier'[fd_A[i]] : Seen(j)'
      <4>1. fd_A[i] # call
        BY <2>4, <3>1 DEF Placed
      <4> QED
        BY <1>4, <1>5, <2>1, <3>1, <4>1 DEF Order
    <3>2. ASSUME pc = "scan", listening
          PROVE  backlog' # <<>> /\ \A j \in earlier'[backlog'[1]] :
                                       Seen(j)' \/ \E i \in fdsr : fd_A[i] = j
      <4>1. backlog # <<>> /\ \A j \in earlier[backlog[1]] : Seen(j) \/ \E i \in fdsr : fd_A[i] = j
        BY <2>1, <3>2 DEF Order
      <4>2. 1 \in 1 .. Len(backlog)
        BY <2>1, <4>1, EmptySeq DEF Loop
      <4>3. backlog'[1] = backlog[1] /\ backlog[1] \in Clients /\ backlog[1] # call
        BY <2>2, <2>4, <4>2 DEF Waiting
      <4>4. backlog' # <<>>
        BY <2>2
      <4> QED
        BY <1>4, <1>5, <4>1, <4>3, <4>4
    <3>3. ASSUME NEW m \in 1 .. Len(backlog'), NEW j \in earlier'[backlog'[m]]
          PROVE  Seen(j)' \/ Placed(j)' \/ \E l \in 1 .. m - 1 : backlog'[l] = j
      <4>1. CASE m \in 1 .. Len(backlog)
        <5>1. backlog'[m] = backlog[m] /\ backlog[m] \in Clients /\ backlog[m] # call
          BY <2>2, <2>4, <4>1 DEF Waiting
        <5>2. j \in earlier[backlog[m]]
          BY <1>5, <3>3, <5>1
        <5>3. Seen(j) \/ Placed(j) \/ \E l \in 1 .. m - 1 : backlog[l] = j
          BY <2>1, <4>1, <5>2 DEF Order
        <5>4. \A l \in 1 .. m - 1 : l \in 1 .. Len(backlog)
          BY <2>2, <4>1
        <5> QED
          BY <1>4, <2>2, <5>3, <5>4
      <4>2. CASE m = Len(backlog) + 1
        <5>1. j \in posted /\ ~ Coming(j)
          BY <1>3, <1>5, <2>2, <3>3, <4>2
        <5>2. Seen(j) \/ Waiting(j) \/ Placed(j)
          BY <2>1, <5>1 DEF Arrivals
        <5>3. Waiting(j) => \E l \in 1 .. m - 1 : backlog'[l] = j
          <6>1. m - 1 = Len(backlog)
            BY <2>2, <4>2
          <6> QED
            BY <2>2, <6>1 DEF Waiting
        <5> QED
          BY <1>4, <5>2, <5>3
      <4> QED
        BY <2>2, <4>1, <4>2
    <3> QED
      BY <1>1, <3>1, <3>2, <3>3 DEF Order
  <2> QED
    BY <2>5, <2>6, <2>7
<1> QED
  BY <1>1, <1>2, <1>6, <1>7, <1>8 DEF Course
\* The hub's steps after the connection is opened leave the listener's side alone.
LEMMA CourseHubSteps ==
    ASSUME Course, Books', call' \in Nat, posted \subseteq posted',
           UNCHANGED <<earlier, shown, link, stream, fd_A, backlog, fdsr, pc, listening,
                       sock_fd, started>>,
           pc # "stopped" /\ started \in {"starting", "preparing"} =>
                posted' = posted /\ wire' = wire /\ stage' = "connect",
           \A k \in Clients : Opened(k) => Opened(k)',
           \A k \in posted : Coming(k)' <=> Coming(k),
           \A k \in posted' : k \notin posted => Coming(k)',
           \A k \in Clients : Coming(k)' \/ (k = call' /\ stage' = "send") =>
                Coming(k) \/ (k = call /\ stage = "send")
    PROVE  Course'
<1>1. History'
  BY DEF Course, History
<1>2. Ends'
  BY DEF Course, Ends
<1>3. pc # "stopped" => Loop'
  BY DEF Course, Loop, Waiting, Placed
<1>4. Arrivals => Arrivals'
  BY DEF Arrivals, Seen, Waiting, Placed
<1>5. Order => Order'
  BY DEF Order, Seen, Placed
<1> QED
  BY <1>1, <1>2, <1>3, <1>4, <1>5 DEF Course

LEMMA CourseHubRefused ==
    ASSUME Course, HubRefused
    PROVE  Course'
<1>1. /\ call \in Clients /\ call \in Nat /\ call' = call + 1 /\ stage = "connect"
      /\ UNCHANGED <<stage, posted, wire, earlier, shown, link, stream, fd_A, backlog, fdsr,
                     pc, listening, sock_fd, started>>
  BY ClientNumbers DEF HubRefused, hubVars, clientVars, loopVars, procVars
<1>2. posted \subseteq Nat /\ \A k \in Clients : k \in Nat
  BY ClientNumbers DEF Course, Books
<1>3. \A p \in 1 .. Len(wire) : wire[p][1] \in Nat
  BY <1>2, WireKnown DEF Course
<1>4. Books'
  BY <1>1, <1>2, <1>3 DEF Course, Books
<1>5. \A k : Coming(k)' <=> Coming(k)
  BY <1>1 DEF Coming
<1>6. \A k \in Clients : Opened(k) => Opened(k)'
  BY <1>1, <1>2 DEF Opened
<1> QED
  BY <1>1, <1>4, <1>5, <1>6, CourseHubSteps

\* What is added to the wire comes last.
LEMMA WireGrows ==
    ASSUME Books, NEW e \in Clients \X {"answer", "end"}, wire' = Append(wire, e)
    PROVE  /\ wire' \in Seq(Clients \X {"answer", "end"}) /\ Len(wire') = Len(wire) + 1
           /\ Len(wire) \in Nat /\ wire'[Len(wire) + 1] = e
           /\ \A p \in 1 .. Len(wire) : wire'[p] = wire[p]
           /\ \A p \in 1 .. Len(wire') : p \in 1 .. Len(wire) \/ p = Len(wire) + 1
           /\ \A k : Coming(k)' <=> Coming(k) \/ e = <<k, "answer">>
<1>1. /\ wire' \in Seq(Clients \X {"answer", "end"}) /\ Len(wire') = Len(wire) + 1
      /\ Len(wire) \in Nat /\ wire'[Len(wire) + 1] = e
      /\ \A p \in 1 .. Len(wire) : wire'[p] = wire[p]
  BY AppendProperties, LenProperties DEF Books
<1>2. \A p \in 1 .. Len(wire') : p \in 1 .. Len(wire) \/ p = Len(wire) + 1
  BY <1>1
<1>3. 1 .. Len(wire) \subseteq 1 .. Len(wire') /\ Len(wire) + 1 \in 1 .. Len(wire')
  BY <1>1
<1>4. \A k : Coming(k)' <=> Coming(k) \/ e = <<k, "answer">>
  BY <1>1, <1>2, <1>3 DEF Coming
<1> QED
  BY <1>1, <1>2, <1>4

LEMMA CourseHubSends ==
    ASSUME Course, HubSends
    PROVE  Course'
<1>1. /\ call \in Clients /\ call \in Nat /\ call' = call /\ stage = "send" /\ stage' = "close"
      /\ wire' = Append(wire, <<call, "answer">>) /\ posted' = posted \cup {call}
      /\ UNCHANGED <<earlier, shown, link, stream, fd_A, backlog, fdsr,
                     pc, listening, sock_fd, started>>
  BY ClientNumbers DEF HubSends, hubVars, clientVars, loopVars, procVars
<1> DEFINE e == <<call, "answer">>
<1>2. e \in Clients \X {"answer", "end"} /\ e[1] = call /\ e[2] = "answer"
  BY <1>1
<1> HIDE DEF e
<1>3. /\ wire' \in Seq(Clients \X {"answer", "end"}) /\ Len(wire') = Len(wire) + 1
      /\ Len(wire) \in Nat /\ wire'[Len(wire) + 1] = e
      /\ \A p \in 1 .. Len(wire) : wire'[p] = wire[p]
      /\ \A p \in 1 .. Len(wire') : p \in 1 .. Len(wire) \/ p = Len(wire) + 1
      /\ \A k : Coming(k)' <=> Coming(k) \/ e = <<k, "answer">>
  BY <1>1, <1>2, WireGrows DEF Course, e
<1>4. \A j \in posted : j \in Clients /\ j \in Nat /\ j < call
  BY <1>1, ClientNumbers DEF Course, Books
\* The connection's end is not yet on its way.
<1>5. Books'
  <2>1. \A p \in 1 .. Len(wire') :
          /\ wire'[p][2] = "answer" => wire'[p][1] \in posted'
          /\ wire'[p][2] = "end" => wire'[p][1] < call'
    BY <1>1, <1>2, <1>3 DEF Course, Books
  <2>2. ASSUME NEW p \in 1 .. Len(wire'), NEW q \in 1 .. Len(wire'),
               wire'[p][1] = wire'[q][1], wire'[p][2] = "end", wire'[q][2] = "answer"
        PROVE  q < p
    <3>1. p \in 1 .. Len(wire)
      BY <1>2, <1>3, <2>2
    <3>2. wire[p][1] < call /\ wire[p][1] # call
      BY <1>1, <1>3, <2>2, <3>1 DEF Course, Books
    <3>3. q \in 1 .. Len(wire)
      BY <1>2, <1>3, <2>2, <3>1, <3>2
    <3> QED
      BY <1>3, <2>2, <3>1, <3>3 DEF Course, Books
  <2>3. \A j \in posted' : j < call' \/ (j = call' /\ stage' = "close")
    BY <1>1, <1>4
  <2> QED
    BY <1>1, <1>3, <2>1, <2>2, <2>3 DEF Course, Books
<1>6. \A k : e = <<k, "answer">> <=> k = call
  BY <1>2 DEF e
<1>7. pc # "stopped" => started \notin {"starting", "preparing"}
  BY <1>1 DEF Course, Loop
<1> QED
  BY <1>1, <1>3, <1>4, <1>5, <1>6, <1>7, CourseHubSteps DEF Opened

LEMMA CourseHubCloses ==
    ASSUME Course, HubCloses
    PROVE  Course'
<1>1. /\ call \in Clients /\ call \in Nat /\ call' = call + 1
      /\ stage = "close" /\ stage' = "connect"
      /\ wire' = Append(wire, <<call, "end">>)
      /\ UNCHANGED <<posted, earlier, shown, link, stream, fd_A, backlog, fdsr,
                     pc, listening, sock_fd, started>>
  BY ClientNumbers DEF HubCloses, hubVars, clientVars, loopVars, procVars
<1> DEFINE e == <<call, "end">>
<1>2. e \in Clients \X {"answer", "end"} /\ e[1] = call /\ e[2] = "end"
  BY <1>1
<1>3. \A k : e # <<k, "answer">>
  OBVIOUS
<1> HIDE DEF e
<1>4. /\ wire' \in Seq(Clients \X {"answer", "end"}) /\ Len(wire') = Len(wire) + 1
      /\ Len(wire) \in Nat /\ wire'[Len(wire) + 1] = e
      /\ \A p \in 1 .. Len(wire) : wire'[p] = wire[p]
      /\ \A p \in 1 .. Len(wire') : p \in 1 .. Len(wire) \/ p = Len(wire) + 1
      /\ \A k : Coming(k)' <=> Coming(k)
  BY <1>1, <1>2, <1>3, WireGrows DEF Course, e
<1>5. \A k \in Clients : k \in Nat
  BY ClientNumbers
<1>6. Books'
  <2>1. ASSUME NEW p \in 1 .. Len(wire')
        PROVE  /\ wire'[p][2] = "answer" => wire'[p][1] \in posted'
               /\ wire'[p][2] = "end" => wire'[p][1] < call'
    <3>1. CASE p = Len(wire) + 1
      BY <1>1, <1>2, <1>4, <3>1
    <3>2. CASE p \in 1 .. Len(wire)
      <4>1. wire[p][1] \in Nat
        BY <1>5, <3>2, WireKnown DEF Course
      <4> QED
        BY <1>1, <1>4, <3>2, <4>1 DEF Course, Books
    <3> QED
      BY <1>4, <3>1, <3>2
  <2>2. ASSUME NEW p \in 1 .. Len(wire'), NEW q \in 1 .. Len(wire'),
               wire'[p][1] = wire'[q][1], wire'[p][2] = "end", wire'[q][2] = "answer"
        PROVE  q < p
    <3>1. q \in 1 .. Len(wire)
      BY <1>2, <1>4, <2>2
    <3>2. CASE p = Len(wire) + 1
      BY <1>4, <3>1, <3>2
    <3>3. CASE p \in 1 .. Len(wire)
      BY <1>4, <2>2, <3>1, <3>3 DEF Course, Books
    <3> QED
      BY <1>4, <3>2, <3>3
  <2>3. \A j \in posted' : j < call'
    BY <1>1, <1>5 DEF Course, Books
  <2> QED
    BY <1>1, <1>4, <2>1, <2>2, <2>3 DEF Course, Books
<1>7. \A k \in Clients : Opened(k) => Opened(k)'
  BY <1>1, <1>5 DEF Opened
<1>8. pc # "stopped" => started \notin {"starting", "preparing"}
  BY <1>1 DEF Course, Loop
<1> QED
  BY <1>1, <1>4, <1>6, <1>7, <1>8, CourseHubSteps

-----------------------------------------------------------------------------
(* The network.                                                            *)

LEMMA WireShrinks ==
    ASSUME Books, NEW p \in 1 .. Len(wire), wire' = RemoveAt(wire, p)
    PROVE  /\ wire' \in Seq(Clients \X {"answer", "end"})
           /\ \A m \in 1 .. Len(wire') : \E o \in 1 .. Len(wire) : wire'[m] = wire[o] /\ o # p
           /\ \A l, m \in 1 .. Len(wire') : \E o, q \in 1 .. Len(wire) :
                wire'[l] = wire[o] /\ wire'[m] = wire[q] /\ (o < q <=> l < m)
           /\ \A k : Coming(k)' => \E o \in 1 .. Len(wire) : wire[o] = <<k, "answer">> /\ o # p
           /\ \A k : Coming(k) => Coming(k)' \/ wire[p] = <<k, "answer">>
<1> DEFINE Was(m) == IF m < p THEN m ELSE m + 1
<1>1. /\ wire' \in Seq(Clients \X {"answer", "end"}) /\ Len(wire') = Len(wire) - 1
      /\ Len(wire) \in Nat /\ p \in Nat
      /\ \A m \in 1 .. Len(wire) - 1 : wire'[m] = IF m < p THEN wire[m] ELSE wire[m + 1]
  <2>1. wire \in Seq(Clients \X {"answer", "end"})
    BY DEF Books
  <2>2. Len(wire) \in Nat
    BY <2>1, LenProperties
  <2>3. /\ RemoveAt(wire, p) \in Seq(Clients \X {"answer", "end"})
        /\ Len(RemoveAt(wire, p)) = Len(wire) - 1
        /\ \A m \in 1 .. Len(wire) - 1 :
             RemoveAt(wire, p)[m] = IF m < p THEN wire[m] ELSE wire[m + 1]
    BY <2>1, RemovedAt
  <2> QED
    BY <2>2, <2>3
<1>2. \A m \in 1 .. Len(wire') :
        Was(m) \in 1 .. Len(wire) /\ Was(m) # p /\ wire'[m] = wire[Was(m)]
  BY <1>1
<1>3. \A l, m \in 1 .. Len(wire') : Was(l) < Was(m) <=> l < m
  BY <1>1
<1>4. \A o \in 1 .. Len(wire) : o # p => \E m \in 1 .. Len(wire') : Was(m) = o
  <2> SUFFICES ASSUME NEW o \in 1 .. Len(wire), o # p
               PROVE  \E m \in 1 .. Len(wire') : Was(m) = o
    OBVIOUS
  <2>1. CASE o < p
    <3>1. o \in 1 .. Len(wire') /\ Was(o) = o
      BY <1>1, <2>1
    <3> QED
      BY <3>1
  <2>2. CASE o > p
    <3>1. o - 1 \in 1 .. Len(wire') /\ Was(o - 1) = o
      BY <1>1, <2>2
    <3> QED
      BY <3>1
  <2>3. o < p \/ o > p
    BY <1>1
  <2> QED
    BY <2>1, <2>2, <2>3
<1> HIDE DEF Was
<1>5. \A k : Coming(k)' => \E o \in 1 .. Len(wire) : wire[o] = <<k, "answer">> /\ o # p
  BY <1>2 DEF Coming
<1>6. \A k : Coming(k) => Coming(k)' \/ wire[p] = <<k, "answer">>
  <2> SUFFICES ASSUME NEW k, NEW o \in 1 .. Len(wire), wire[o] = <<k, "answer">>, o # p
               PROVE  Coming(k)'
    BY DEF Coming
  <2>1. PICK m \in 1 .. Len(wire') : Was(m) = o
    BY <1>4
  <2>2. wire'[m] = <<k, "answer">>
    BY <1>2, <2>1
  <2> QED
    BY <2>2 DEF Coming
<1>7. \A m \in 1 .. Len(wire') : \E o \in 1 .. Len(wire) : wire'[m] = wire[o] /\ o # p
  BY <1>2
<1>8. \A l, m \in 1 .. Len(wire') : \E o, q \in 1 .. Len(wire) :
        wire'[l] = wire[o] /\ wire'[m] = wire[q] /\ (o < q <=> l < m)
  BY <1>2, <1>3
<1> QED
  BY <1>1, <1>5, <1>6, <1>7, <1>8

LEMMA CourseArrive ==
    ASSUME Course, Network
    PROVE  Course'
<1>1. PICK p \in DOMAIN wire : Arrive(p)
  BY DEF Network
<1>2. p \in 1 .. Len(wire) /\ wire[p] \in Clients \X {"answer", "end"}
      /\ wire[p] = <<wire[p][1], wire[p][2]>> /\ DOMAIN wire = 1 .. Len(wire)
  BY WireKnown DEF Course
<1>k. PICK k \in Clients : k = wire[p][1]
  BY <1>2
<1>3. /\ wire' = RemoveAt(wire, p)
      /\ UNCHANGED <<call, stage, posted, earlier, shown, fd_A, backlog, fdsr, pc, listening,
                     sock_fd, started>>
      /\ \A q \in 1 .. p - 1 : wire[q][1] # k
      /\ IF link[k] # "up" THEN UNCHANGED <<link, stream>>
         ELSE IF wire[p][2] = "answer"
           THEN stream' = [stream EXCEPT ![k] = Append(@, A)] /\ UNCHANGED link
           ELSE link' = [link EXCEPT ![k] = "closed"] /\ UNCHANGED stream
  BY <1>1, <1>2, <1>k DEF Arrive, MayArrive, A, loopVars, procVars, hubSide
<1>4. /\ wire' \in Seq(Clients \X {"answer", "end"})
      /\ \A m \in 1 .. Len(wire') : \E o \in 1 .. Len(wire) : wire'[m] = wire[o] /\ o # p
      /\ \A l, m \in 1 .. Len(wire') : \E o, q \in 1 .. Len(wire) :
           wire'[l] = wire[o] /\ wire'[m] = wire[q] /\ (o < q <=> l < m)
      /\ \A j : Coming(j)' => \E o \in 1 .. Len(wire) : wire[o] = <<j, "answer">> /\ o # p
      /\ \A j : Coming(j) => Coming(j)' \/ wire[p] = <<j, "answer">>
  BY <1>2, <1>3, WireShrinks DEF Course
<1>5. \A j : Coming(j)' => Coming(j)
  BY <1>4 DEF Coming
\* The end of a connection comes after its answer.
<1>6. wire[p][2] = "end" => ~ Coming(k)' /\ k < call
  <2> SUFFICES ASSUME wire[p][2] = "end" PROVE ~ Coming(k)' /\ k < call
    OBVIOUS
  <2>1. k < call
    BY <1>2, <1>k DEF Course, Books
  <2>2. ASSUME Coming(k)' PROVE FALSE
    <3>1. PICK o \in 1 .. Len(wire) : wire[o] = <<k, "answer">> /\ o # p
      BY <1>4, <2>2
    <3>2. wire[o][1] = wire[p][1] /\ wire[o][2] = "answer"
      BY <1>k, <3>1
    <3>3. o < p
      BY <1>2, <3>2 DEF Course, Books
    <3>4. o \in 1 .. p - 1
      BY <1>2, <3>3, WireKnown DEF Course
    <3> QED
      BY <1>3, <1>k, <3>2, <3>4
  <2> QED
    BY <2>1, <2>2
<1>7. wire[p] = <<k, wire[p][2]>> /\ wire[p][2] \in {"answer", "end"}
  BY <1>2, <1>k
<1>8. \A j : Coming(j) => Coming(j)' \/ (j = k /\ wire[p][2] = "answer")
  BY <1>4, <1>7
<1>9. Books'
  <2>1. \A m \in 1 .. Len(wire') :
          /\ wire'[m][2] = "answer" => wire'[m][1] \in posted'
          /\ wire'[m][2] = "end" => wire'[m][1] < call'
    <3> TAKE m \in 1 .. Len(wire')
    <3>1. PICK o \in 1 .. Len(wire) : wire'[m] = wire[o]
      BY <1>4
    <3>2. /\ wire[o][2] = "answer" => wire[o][1] \in posted
          /\ wire[o][2] = "end" => wire[o][1] < call
      BY DEF Course, Books
    <3> QED
      BY <1>3, <3>1, <3>2
  <2>2. ASSUME NEW l \in 1 .. Len(wire'), NEW m \in 1 .. Len(wire'),
               wire'[m][1] = wire'[l][1], wire'[m][2] = "end", wire'[l][2] = "answer"
        PROVE  l < m
    <3>1. PICK o, q \in 1 .. Len(wire) :
             wire'[l] = wire[o] /\ wire'[m] = wire[q] /\ (o < q <=> l < m)
      BY <1>4
    <3>2. o < q
      BY <2>2, <3>1 DEF Course, Books
    <3> QED
      BY <3>1, <3>2
  <2> QED
    BY <1>3, <1>4, <2>1, <2>2 DEF Course, Books
<1>10. History'
  BY <1>3, <1>5 DEF Course, History
<1>11. /\ link' \in [Clients -> {"idle", "up", "closed", "cut"}]
       /\ stream' \in [Clients -> Seq({A})]
       /\ \A j \in Clients : /\ link'[j] = "up" => link[j] = "up"
                             /\ link[j] # "up" => stream'[j] = stream[j] /\ link'[j] = link[j]
                             /\ j # k => stream'[j] = stream[j] /\ link'[j] = link[j]
                             /\ stream[j] # <<>> => stream'[j] # <<>>
       /\ link[k] = "up" /\ wire[p][2] = "answer" => stream'[k] # <<>> /\ link' = link
       /\ wire[p][2] = "end" => stream' = stream
  <2>1. /\ link \in [Clients -> {"idle", "up", "closed", "cut"}]
        /\ stream \in [Clients -> Seq({A})]
    BY DEF Course, Ends
  <2>2. CASE link[k] # "up"
    BY <1>3, <2>1, <2>2
  <2>3. CASE link[k] = "up" /\ wire[p][2] = "answer"
    <3>1. Append(stream[k], A) \in Seq({A}) /\ Append(stream[k], A) # <<>>
      BY <1>3, <2>1, AppendProperties
    <3>2. stream' = [stream EXCEPT ![k] = Append(stream[k], A)] /\ link' = link
      BY <1>3, <2>3
    <3>3. stream' \in [Clients -> Seq({A})] /\ stream'[k] = Append(stream[k], A)
          /\ \A j \in Clients : j # k => stream'[j] = stream[j]
      BY <1>3, <2>1, <3>1, <3>2
    <3> QED
      BY <2>1, <2>3, <3>1, <3>2, <3>3
  <2>4. CASE link[k] = "up" /\ wire[p][2] = "end"
    BY <1>3, <2>1, <2>4
  <2> QED
    BY <1>7, <2>2, <2>3, <2>4
<1>12. Ends'
  BY <1>3, <1>11 DEF Course, Ends
<1>13. ASSUME pc # "stopped" PROVE Loop'
  <2>1. Loop
    BY <1>13 DEF Course
  <2>2. wire # <<>>
    BY <1>2
  <2>3. ASSUME NEW j \in Clients, stream'[j] # <<>> PROVE j \in posted
    <3>1. CASE stream[j] # <<>>
      BY <2>1, <3>1 DEF Loop
    <3>2. CASE stream[j] = <<>>
      <4>1. j = k /\ wire[p][2] = "answer"
        BY <1>7, <1>11, <2>3, <3>2
      <4> QED
        BY <1>2, <1>k, <4>1 DEF Course, Books
    <3> QED
      BY <3>1, <3>2
  <2>4. \A j \in Clients : Waiting(j)' \/ Placed(j)' => Opened(j)'
    BY <1>3, <2>1 DEF Loop, Waiting, Placed, Opened
  <2>5. ~ sock_fd => \A j \in Clients : stream'[j] = <<>> /\ link'[j] # "up"
    BY <1>11, <2>1 DEF Loop
  <2>6. started \notin {"starting", "preparing"}
    BY <2>1, <2>2 DEF Loop
  <2> QED
    BY <1>3, <2>1, <2>3, <2>4, <2>5, <2>6 DEF Loop
<1>14. ASSUME pc # "stopped", sock_fd PROVE Arrivals'
  <2>1. Arrivals
    BY <1>14 DEF Course
  <2>2. \A j : (Seen(j)' <=> Seen(j)) /\ (Waiting(j)' <=> Waiting(j)) /\ (Placed(j)' <=> Placed(j))
    BY <1>3 DEF Seen, Waiting, Placed
  <2>3. wire[p][2] = "answer" => link[k] = "up" /\ (Waiting(k) \/ Placed(k))
    BY <1>2, <1>3, <1>7, <2>1 DEF Arrivals, Coming
  <2>4. ASSUME NEW j \in posted, ~ Coming(j)'
        PROVE  Seen(j) \/ (stream'[j] # <<>> /\ (Waiting(j) \/ Placed(j)))
    <3>1. CASE Coming(j)
      BY <1>8, <1>11, <2>3, <2>4, <3>1
    <3>2. CASE ~ Coming(j)
      BY <1>11, <2>1, <3>2 DEF Arrivals, Course, Books
    <3> QED
      BY <3>1, <3>2
  <2>5. ASSUME NEW j \in Clients, Coming(j)' \/ (j = call /\ stage = "send")
        PROVE  link'[j] = "up"
    <3>1. link[j] = "up"
      BY <1>5, <2>1, <2>5 DEF Arrivals
    <3>2. CASE wire[p][2] = "answer"
      BY <1>11, <2>3, <3>1, <3>2
    <3>3. CASE wire[p][2] = "end"
      <4>1. j # k
        BY <1>6, <2>5, <3>3 DEF Course, Books
      <4> QED
        BY <1>11, <3>1, <4>1
    <3> QED
      BY <1>7, <3>2, <3>3
  <2>6. \A j \in Clients : link'[j] = "up" => Waiting(j) \/ Placed(j)
    BY <1>11, <2>1 DEF Arrivals
  <2> QED
    BY <1>3, <2>2, <2>4, <2>5, <2>6 DEF Arrivals
<1>15. Order => Order'
  BY <1>3 DEF Order, Seen, Placed
<1> QED
  BY <1>3, <1>9, <1>10, <1>12, <1>13, <1>14, <1>15 DEF Course
-----------------------------------------------------------------------------
(* The listener's loop.                                                    *)

\* A step of the loop that shows nothing.
LEMMA CourseLoopStep ==
    ASSUME Course, pc # "stopped",
           UNCHANGED <<call, stage, posted, wire, earlier, shown, link, stream, sock_fd, started>>,
           started \notin {"starting", "preparing"},
           fd_A' \in [Slots -> Clients \cup {Free, Invalid}],
           backlog' \in Seq(Clients),
           fdsr' \subseteq Slots, \A i \in fdsr' : fd_A'[i] \in Clients,
           \A k \in Clients : Waiting(k)' \/ Placed(k)' => Waiting(k) \/ Placed(k),
           sock_fd => Order' /\ \A k \in Clients : (Waiting(k) \/ Placed(k)) =>
                        Waiting(k)' \/ Placed(k)' \/ (stream[k] = <<>> /\ link[k] # "up")
    PROVE  Course'
<1>1. Books' /\ History' /\ Ends'
  BY BooksKept, HistoryKept DEF Course, Ends
<1>2. Loop'
  BY DEF Course, Loop, Opened
<1>3. sock_fd => Arrivals'
  <2>1. \A j : (Seen(j)' <=> Seen(j)) /\ (Coming(j)' <=> Coming(j))
    BY DEF Seen, Coming
  <2>2. posted \subseteq Clients
    BY DEF Course, Books
  <2> QED
    BY <2>1, <2>2 DEF Course, Arrivals
<1> QED
  BY <1>1, <1>2, <1>3 DEF Course

\* What had arrived before another connection was opened, and is no longer in
\* the stream of its connection, was shown.
LEMMA EarlierSeen ==
    ASSUME Course, pc # "stopped", sock_fd, NEW k \in Clients, NEW j \in earlier[k],
           stream[j] = <<>>
    PROVE  Seen(j)
  BY DEF Course, History, Arrivals

LEMMA CourseFrees ==
    ASSUME Course, started = "listening", NEW i \in Slots, RecvClosed(i),
           UNCHANGED <<winsockVars, procVars, hubSide, wire, shown, earlier>>
    PROVE  Course'
<1>1. /\ pc = "scan" /\ i \in fdsr /\ stream[fd_A[i]] = <<>> /\ link[fd_A[i]] # "up"
      /\ fdsr' = fdsr \ {i} /\ fd_A' = [fd_A EXCEPT ![i] = Free]
      /\ UNCHANGED <<call, stage, posted, wire, earlier, shown, link, stream, sock_fd, started,
                     backlog, listening, pc>>
  BY DEF RecvClosed, Reached, First, procVars, hubSide, clientVars
<1>2. fd_A \in [Slots -> Clients \cup {Free, Invalid}] /\ Free \notin Clients /\ pc # "stopped"
  BY <1>1, HubAssumption DEF Course, Ends
<1>3. /\ fd_A' \in [Slots -> Clients \cup {Free, Invalid}] /\ fd_A'[i] = Free
      /\ \A j \in Slots : j # i => fd_A'[j] = fd_A[j]
  BY <1>1, <1>2
<1>4. /\ \A k \in Clients : Placed(k)' => Placed(k)
      /\ \A k \in Clients : Placed(k) => Placed(k)' \/ k = fd_A[i]
      /\ \A k : (Waiting(k)' <=> Waiting(k)) /\ (Seen(k)' <=> Seen(k))
  BY <1>1, <1>2, <1>3 DEF Placed, Waiting, Seen
<1>5. backlog' \in Seq(Clients) /\ fdsr' \subseteq Slots /\ \A j \in fdsr' : fd_A'[j] \in Clients
  BY <1>1, <1>2, <1>3 DEF Course, Loop
<1>6. ASSUME sock_fd PROVE Order'
  <2>1. Order /\ earlier \in [Clients -> SUBSET Clients]
    BY <1>2, <1>6 DEF Course, History
  <2>2. \A j \in Slots : fd_A'[j] \in Clients => \A l \in earlier'[fd_A'[j]] : Seen(l)'
    BY <1>1, <1>2, <1>3, <1>4, <2>1 DEF Order
  <2>3. \A m \in 1 .. Len(backlog) : backlog[m] \in Clients
    BY <1>2, ElementOfSeq DEF Course, Loop
  <2>4. \A m \in 1 .. Len(backlog) : fd_A[i] \in earlier[backlog[m]] => Seen(fd_A[i])
    BY <1>1, <1>2, <1>6, <2>3, EarlierSeen
  <2>5. ASSUME pc = "scan", listening
        PROVE  backlog # <<>> /\ \A j \in earlier[backlog[1]] :
                                    Seen(j) \/ \E l \in fdsr' : fd_A'[l] = j
    <3>1. backlog # <<>> /\ \A j \in earlier[backlog[1]] : Seen(j) \/ \E l \in fdsr : fd_A[l] = j
      BY <2>1, <2>5 DEF Order
    <3>2. 1 \in 1 .. Len(backlog)
      BY <1>2, <3>1, EmptySeq DEF Course, Loop
    <3>3. \A l \in fdsr : l # i => l \in fdsr' /\ fd_A'[l] = fd_A[l]
      BY <1>1, <1>2, <1>3 DEF Course, Loop
    <3> QED
      BY <2>4, <3>1, <3>2, <3>3
  <2>6. \A m \in 1 .. Len(backlog) : \A j \in earlier[backlog[m]] :
          Seen(j) \/ Placed(j)' \/ \E l \in 1 .. m - 1 : backlog[l] = j
    BY <1>4, <2>1, <2>3, <2>4 DEF Order
  <2> QED
    BY <1>1, <1>4, <2>2, <2>5, <2>6 DEF Order
<1> QED
  BY <1>1, <1>2, <1>3, <1>4, <1>5, <1>6, CourseLoopStep

LEMMA CourseAgain ==
    ASSUME Course, started = "listening", Again,
           UNCHANGED <<winsockVars, procVars, hubSide, wire, shown, earlier>>
    PROVE  Course'
<1>1. /\ pc = "scan" /\ pc' = "select"
      /\ UNCHANGED <<call, stage, posted, wire, earlier, shown, link, stream, sock_fd, started,
                     backlog, listening, fd_A, fdsr>>
  BY DEF Again, procVars, hubSide, clientVars
<1>2. fd_A \in [Slots -> Clients \cup {Free, Invalid}] /\ Loop
  BY <1>1 DEF Course, Ends
<1>3. \A k : (Waiting(k)' <=> Waiting(k)) /\ (Placed(k)' <=> Placed(k)) /\ (Seen(k)' <=> Seen(k))
  BY <1>1 DEF Waiting, Placed, Seen
<1>4. sock_fd => Order'
  BY <1>1, <1>3 DEF Course, Order
<1> QED
  BY <1>1, <1>2, <1>3, <1>4, CourseLoopStep DEF Loop

\* A pass that finds a connection waiting finds what had arrived before it.
LEMMA CourseSelects ==
    ASSUME Course, started = "listening", Select, sock_fd,
           UNCHANGED <<winsockVars, procVars, hubSide, wire, shown, earlier>>
    PROVE  Course'
<1>1. /\ pc = "select" /\ pc' = "scan" /\ listening' = (backlog # <<>>) /\ Invalid \notin Sockets
      /\ fdsr' = {i \in Slots : fd_A[i] # Free /\ Readable(fd_A[i])}
      /\ UNCHANGED <<call, stage, posted, wire, earlier, shown, link, stream, sock_fd, started,
                     backlog, fd_A>>
  BY DEF Select, procVars, hubSide, clientVars
<1>2. fd_A \in [Slots -> Clients \cup {Free, Invalid}] /\ Loop /\ Order /\ Arrivals
  BY <1>1 DEF Course, Ends
<1>3. \A k : (Waiting(k)' <=> Waiting(k)) /\ (Placed(k)' <=> Placed(k)) /\ (Seen(k)' <=> Seen(k))
  BY <1>1 DEF Waiting, Placed, Seen
<1>4. \A i \in fdsr' : fd_A'[i] \in Clients
  BY <1>1, <1>2, HubAssumption DEF Sockets
<1>5. ASSUME backlog # <<>>, NEW j \in earlier[backlog[1]]
      PROVE  Seen(j) \/ \E i \in fdsr' : fd_A[i] = j
  <2>1. 1 \in 1 .. Len(backlog) /\ backlog[1] \in Clients
    BY <1>2, <1>5, EmptySeq, ElementOfSeq DEF Loop
  <2>2. \A l \in 1 .. 1 - 1 : FALSE
    OBVIOUS
  <2>3. Seen(j) \/ Placed(j)
    BY <1>2, <1>5, <2>1, <2>2 DEF Order
  <2>4. Seen(j) \/ stream[j] # <<>>
    BY <1>1, <1>5, <2>1, EarlierSeen
  <2>5. j \in Clients
    BY <1>5, <2>1 DEF Course, History
  <2>6. ASSUME NEW i \in Slots, fd_A[i] = j, stream[j] # <<>> PROVE i \in fdsr'
    BY <1>1, <2>5, <2>6, HubAssumption DEF Readable
  <2>7. CASE ~ Seen(j)
    <3>1. PICK i \in Slots : fd_A[i] = j
      BY <2>3, <2>7 DEF Placed
    <3>2. i \in fdsr'
      BY <2>4, <2>6, <2>7, <3>1
    <3> QED
      BY <3>1, <3>2
  <2> QED
    BY <2>7
<1>6. Order'
  <2>1. \A i \in Slots : fd_A'[i] \in Clients => \A j \in earlier'[fd_A'[i]] : Seen(j)'
    BY <1>1, <1>2, <1>3 DEF Order
  <2>2. listening' => backlog' # <<>> /\ \A j \in earlier'[backlog'[1]] :
                                          Seen(j)' \/ \E i \in fdsr' : fd_A'[i] = j
    BY <1>1, <1>3, <1>5
  <2>3. \A m \in 1 .. Len(backlog) : \A j \in earlier[backlog[m]] :
          Seen(j)' \/ Placed(j)' \/ \E l \in 1 .. m - 1 : backlog[l] = j
    BY <1>2, <1>3 DEF Order
  <2> QED
    BY <1>1, <2>1, <2>2, <2>3 DEF Order
<1> QED
  BY <1>1, <1>2, <1>3, <1>4, <1>6, CourseLoopStep DEF Loop

\* The connection gets its slot when all that had arrived before it was shown.
LEMMA CourseAccepts ==
    ASSUME Course, started = "listening", Accept, sock_fd,
           UNCHANGED <<winsockVars, procVars, hubSide, wire, shown, earlier>>
    PROVE  Course'
<1>1. /\ pc = "scan" /\ listening /\ fdsr = {} /\ fdsr' = {} /\ pc' = "select"
      /\ backlog' = Tail(backlog)
      /\ UNCHANGED <<call, stage, posted, wire, earlier, shown, link, stream, sock_fd, started>>
      /\ \E i \in FreeSlots : fd_A' = [fd_A EXCEPT ![i] = Head(backlog)]
  BY DEF Accept, Accepting, procVars, hubSide, clientVars
<1>2. PICK i \in Slots : fd_A[i] = Free /\ fd_A' = [fd_A EXCEPT ![i] = Head(backlog)]
  BY <1>1 DEF FreeSlots
<1>3. Loop /\ Order /\ fd_A \in [Slots -> Clients \cup {Free, Invalid}] /\ Free \notin Clients
  BY <1>1, HubAssumption DEF Course, Ends
<1>4. backlog \in Seq(Clients) /\ backlog # <<>> /\ Len(backlog) \in Nat
  BY <1>1, <1>3, LenProperties DEF Loop, Order
<1>5. /\ Head(backlog) = backlog[1] /\ Head(backlog) \in Clients /\ backlog' \in Seq(Clients)
      /\ Len(backlog') = Len(backlog) - 1 /\ 1 \in 1 .. Len(backlog)
      /\ \A m \in 1 .. Len(backlog') : backlog'[m] = backlog[m + 1] /\ m + 1 \in 1 .. Len(backlog)
      /\ \A m \in 1 .. Len(backlog) : m = 1 \/ (m - 1 \in 1 .. Len(backlog') /\ backlog'[m - 1] = backlog[m])
  <2>1. /\ Tail(backlog) \in Seq(Clients) /\ Len(Tail(backlog)) = Len(backlog) - 1
        /\ \A m \in 1 .. Len(Tail(backlog)) : Tail(backlog)[m] = backlog[m + 1]
    BY <1>4, HeadTailProperties
  <2>2. Head(backlog) = backlog[1] /\ Head(backlog) \in Clients /\ Len(backlog) > 0
    BY <1>4, HeadTailProperties, EmptySeq
  <2>3. \A m \in 1 .. Len(backlog) : m = 1 \/ (m - 1 \in 1 .. Len(backlog) - 1 /\ (m - 1) + 1 = m)
    BY <1>4
  <2> QED
    BY <1>1, <1>4, <2>1, <2>2, <2>3
<1> DEFINE c == backlog[1]
<1>6. /\ fd_A' \in [Slots -> Clients \cup {Free, Invalid}] /\ fd_A'[i] = c /\ c \in Clients
      /\ \A j \in Slots : j # i => fd_A'[j] = fd_A[j]
  BY <1>2, <1>3, <1>5
<1>k. PICK k \in Clients : k = c
  BY <1>6
<1> HIDE DEF c
<1>7. /\ \A j : Waiting(j) => Waiting(j)' \/ j = k
      /\ \A j : Waiting(j)' => Waiting(j)
      /\ Waiting(k)
  BY <1>5, <1>k DEF Waiting, c
<1>8. /\ \A j \in Clients : Placed(j)' <=> Placed(j) \/ j = k
      /\ \A j : Seen(j)' <=> Seen(j)
  BY <1>1, <1>2, <1>3, <1>6, <1>k DEF Placed, Seen
<1>9. \A j \in earlier[k] : Seen(j)
  BY <1>1, <1>3, <1>k DEF Order, c
<1>10. Order'
  <2>1. \A j \in Slots : fd_A'[j] \in Clients => \A l \in earlier'[fd_A'[j]] : Seen(l)'
    BY <1>1, <1>3, <1>6, <1>8, <1>9, <1>k DEF Order
  <2>2. ASSUME NEW m \in 1 .. Len(backlog'), NEW j \in earlier'[backlog'[m]]
        PROVE  Seen(j)' \/ Placed(j)' \/ \E l \in 1 .. m - 1 : backlog'[l] = j
    <3>1. backlog'[m] = backlog[m + 1] /\ m + 1 \in 1 .. Len(backlog) /\ m \in Nat
          /\ backlog[m + 1] \in Clients
      BY <1>4, <1>5, ElementOfSeq
    <3>2. j \in Clients
      BY <1>1, <2>2, <3>1 DEF Course, History
    <3>3. Seen(j) \/ Placed(j) \/ \E l \in 1 .. (m + 1) - 1 : backlog[l] = j
      BY <1>1, <1>3, <2>2, <3>1 DEF Order
    <3>4. ASSUME NEW l \in 1 .. (m + 1) - 1, backlog[l] = j
          PROVE  Placed(j)' \/ \E q \in 1 .. m - 1 : backlog'[q] = j
      <4>1. CASE l = 1
        BY <1>8, <1>k, <3>2, <3>4, <4>1 DEF c
      <4>2. CASE l # 1
        <5>1. l \in 1 .. Len(backlog) /\ l - 1 \in 1 .. m - 1
          BY <1>4, <3>1, <4>2
        <5>2. backlog'[l - 1] = j
          BY <1>5, <3>4, <4>2, <5>1
        <5> QED
          BY <5>1, <5>2
      <4> QED
        BY <4>1, <4>2
    <3> QED
      BY <1>8, <3>2, <3>3, <3>4
  <2> QED
    BY <1>1, <2>1, <2>2 DEF Order
<1> QED
  BY <1>1, <1>3, <1>5, <1>6, <1>7, <1>8, <1>10, CourseLoopStep

LEMMA CourseShows ==
    ASSUME Course, started = "listening", NEW i \in Slots, ShowAnswer(i)
    PROVE  Course'
<1>1. /\ pc = "scan" /\ i \in fdsr /\ stream[fd_A[i]] # <<>> /\ fdsr' = fdsr \ {i}
      /\ shown' = Append(shown, fd_A[i])
      /\ UNCHANGED <<call, stage, posted, wire, earlier, link, sock_fd, started, backlog, fd_A,
                     listening, pc>>
      /\ \E n \in 1 .. Len(stream[fd_A[i]]) :
            stream' = [stream EXCEPT ![fd_A[i]] = SubSeq(@, n + 1, Len(@))]
  BY ShowTakes DEF procVars, hubSide
<1>2. Loop /\ stream \in [Clients -> Seq({A})]
  BY <1>1 DEF Course, Ends
<1>k. PICK k \in Clients : k = fd_A[i]
  BY <1>1, <1>2 DEF Loop
<1>3. sock_fd /\ k \in posted /\ Arrivals /\ Order /\ pc # "stopped"
  BY <1>1, <1>2, <1>k DEF Course, Loop
<1>4. /\ stream' \in [Clients -> Seq({A})]
      /\ \A j \in Clients : j # k => stream'[j] = stream[j]
  <2>1. PICK n \in 1 .. Len(stream[k]) :
          stream' = [stream EXCEPT ![k] = SubSeq(stream[k], n + 1, Len(stream[k]))]
    BY <1>1, <1>k
  <2>2. stream[k] \in Seq({A}) /\ Len(stream[k]) \in Nat
    BY <1>2, LenProperties
  <2>3. \A m \in n + 1 .. Len(stream[k]) : m \in 1 .. Len(stream[k])
    BY <2>2
  <2>4. \A m \in n + 1 .. Len(stream[k]) : stream[k][m] \in {A}
    BY <2>2, <2>3, ElementOfSeq
  <2>5. SubSeq(stream[k], n + 1, Len(stream[k])) \in Seq({A})
    BY <2>2, <2>4, SubSeqProperties
  <2> QED
    BY <1>2, <2>1, <2>5
<1>5. /\ shown' \in Seq(Clients) /\ Len(shown') = Len(shown) + 1 /\ Len(shown) \in Nat
      /\ \A n \in 1 .. Len(shown) : shown'[n] = shown[n]
      /\ shown'[Len(shown) + 1] = k
      /\ \A n \in 1 .. Len(shown') : n \in 1 .. Len(shown) \/ n = Len(shown) + 1
      /\ 1 .. Len(shown) \subseteq 1 .. Len(shown') /\ Len(shown) + 1 \in 1 .. Len(shown')
  BY <1>1, <1>k, AppendProperties, LenProperties DEF Course, History
<1>6. \A j : (Seen(j)' <=> Seen(j) \/ j = k) /\ (Waiting(j)' <=> Waiting(j))
             /\ (Placed(j)' <=> Placed(j)) /\ (Coming(j)' <=> Coming(j))
  <2>1. \A j : Seen(j)' <=> Seen(j) \/ j = k
    BY <1>5 DEF Seen
  <2> QED
    BY <1>1, <2>1 DEF Waiting, Placed, Coming
<1>7. Books'
  BY <1>1, BooksKept DEF Course
<1>8. History'
  <2>1. \A n \in 1 .. Len(shown') : shown'[n] \in posted'
    BY <1>1, <1>3, <1>5 DEF Course, History
  <2>2. ASSUME NEW n \in 1 .. Len(shown'), NEW j \in earlier'[shown'[n]]
        PROVE  \E m \in 1 .. n - 1 : shown'[m] = j
    <3>1. CASE n \in 1 .. Len(shown)
      <4>1. PICK m \in 1 .. n - 1 : shown[m] = j
        BY <1>1, <1>5, <2>2, <3>1 DEF Course, History
      <4>2. m \in 1 .. Len(shown)
        BY <1>5, <3>1
      <4> QED
        BY <1>5, <4>1, <4>2
    <3>2. CASE n = Len(shown) + 1
      <4>1. Seen(j)
        BY <1>1, <1>3, <1>5, <1>k, <2>2, <3>2 DEF Order
      <4>2. n - 1 = Len(shown)
        BY <1>5, <3>2
      <4> QED
        BY <1>5, <4>1, <4>2 DEF Seen
    <3> QED
      BY <1>5, <3>1, <3>2
  <2> QED
    BY <1>1, <1>5, <1>6, <2>1, <2>2 DEF Course, History
<1>9. Ends'
  BY <1>1, <1>4 DEF Course, Ends
<1>10. Loop'
  <2>1. \A j \in Clients : stream'[j] # <<>> => j \in posted'
    BY <1>1, <1>2, <1>3, <1>4 DEF Loop
  <2> QED
    BY <1>1, <1>2, <1>3, <1>6, <2>1 DEF Loop, Opened
<1>11. Arrivals'
  <2>1. posted \subseteq Clients
    BY DEF Course, Books
  <2> QED
    BY <1>1, <1>3, <1>4, <1>6, <2>1 DEF Arrivals
<1>12. Order'
  <2>1. \A j \in Slots : fd_A[j] \in Clients => \A l \in earlier[fd_A[j]] : Seen(l)'
    BY <1>3, <1>6 DEF Order
  <2>2. pc = "scan" /\ listening =>
          /\ backlog # <<>>
          /\ \A j \in earlier[backlog[1]] : Seen(j)' \/ \E l \in fdsr' : fd_A[l] = j
    BY <1>1, <1>3, <1>6, <1>k DEF Order
  <2>3. \A m \in 1 .. Len(backlog) : \A j \in earlier[backlog[m]] :
          Seen(j)' \/ Placed(j)' \/ \E l \in 1 .. m - 1 : backlog[l] = j
    BY <1>3, <1>6 DEF Order
  <2> QED
    BY <1>1, <2>1, <2>2, <2>3 DEF Order
<1> QED
  BY <1>1, <1>3, <1>7, <1>8, <1>9, <1>10, <1>11, <1>12 DEF Course

LEMMA CourseAcceptsShutDown ==
    ASSUME Course, started = "listening", AcceptShutDown
    PROVE  Course'
<1>1. /\ pc = "scan" /\ ~ sock_fd /\ fdsr = {} /\ fdsr' = {} /\ backlog' = backlog
      /\ UNCHANGED <<call, stage, posted, wire, earlier, shown, link, stream, sock_fd, started>>
      /\ \E i \in FreeSlots : fd_A' = [fd_A EXCEPT ![i] = Invalid]
  BY DEF AcceptShutDown, Accepting, procVars, hubSide, clientVars
<1>2. PICK i \in Slots : fd_A' = [fd_A EXCEPT ![i] = Invalid]
  BY <1>1 DEF FreeSlots
<1>3. fd_A \in [Slots -> Clients \cup {Free, Invalid}] /\ backlog \in Seq(Clients)
      /\ Invalid \notin Clients
  BY <1>1, HubAssumption DEF Course, Ends, Loop
<1>4. fd_A' \in [Slots -> Clients \cup {Free, Invalid}]
  BY <1>2, <1>3
<1>5. \A k \in Clients : Waiting(k)' \/ Placed(k)' => Waiting(k) \/ Placed(k)
  BY <1>1, <1>2, <1>3 DEF Waiting, Placed
<1> QED
  BY <1>1, <1>3, <1>4, <1>5, CourseLoopStep

\* When the loop has ended nothing is shown any more.
LEMMA CourseEnds ==
    ASSUME Course, LoopEnds
    PROVE  Course'
<1>1. /\ pc' = "stopped" /\ fd_A' = [i \in Slots |-> Free]
      /\ \E gone : link' = Cut(gone)
      /\ UNCHANGED <<call, stage, posted, wire, earlier, shown, stream, started>>
  BY DEF LoopEnds, hubSide
<1>2. Books' /\ History'
  BY <1>1, BooksKept, HistoryKept DEF Course
<1>3. link' \in [Clients -> {"idle", "up", "closed", "cut"}]
  BY <1>1 DEF Course, Ends, Cut
<1>4. Ends'
  BY <1>1, <1>3 DEF Course, Ends
<1> QED
  BY <1>1, <1>2, <1>4 DEF Course

LEMMA CourseBegins ==
    ASSUME ListenerInit
    PROVE  Course
<1>1. /\ started = "starting" /\ sock_fd = FALSE /\ call = 1 /\ stage = "connect" /\ wire = <<>>
      /\ posted = {} /\ shown = <<>> /\ earlier = [k \in Clients |-> {}]
      /\ link = [k \in Clients |-> "idle"] /\ stream = [k \in Clients |-> <<>>]
      /\ backlog = <<>> /\ fd_A = [i \in Slots |-> Free] /\ fdsr = {} /\ pc = "select"
  BY DEF ListenerInit, HubInit
<1>2. Len(wire) = 0 /\ Len(shown) = 0 /\ Len(backlog) = 0 /\ Free \notin Clients
  BY <1>1, HubAssumption
<1>3. Books
  BY <1>1, <1>2, EmptySeq DEF Books
<1>4. History
  BY <1>1, <1>2, EmptySeq DEF History
<1>5. Ends
  BY <1>1, EmptySeq DEF Ends
<1>6. Loop
  BY <1>1, <1>2, EmptySeq DEF Loop, Waiting, Placed
<1> QED
  BY <1>1, <1>3, <1>4, <1>5, <1>6 DEF Course

LEMMA CourseGoesOn ==
    ASSUME Course, [ListenerNext]_listenerVars
    PROVE  Course'
<1>1. CASE HubSide
  BY <1>1, CourseHubConnects, CourseHubRefused, CourseHubSends, CourseHubCloses DEF HubSide
<1>2. CASE Network
  BY <1>2, CourseArrive
<1>3. CASE ListenerStep
  <2>1. CASE ListenerStartup \/ Prepare
    BY <2>1, CourseListenerThread
  <2>2. CASE started = "listening" /\ Turn
    BY <2>2, CourseSelects, CourseAccepts, CourseAgain, CourseFrees DEF Turn
  <2>3. CASE started = "listening" /\ (AcceptShutDown \/ LoopEnds \/ \E i \in Slots : ShowAnswer(i))
    BY <2>3, CourseAcceptsShutDown, CourseEnds, CourseShows
  <2> QED
    BY <1>3, <2>1, <2>2, <2>3 DEF ListenerStep
<1>4. CASE SenderStep
  BY <1>4, CourseSenderThread
<1>5. CASE UNCHANGED listenerVars
  BY <1>5, CourseKept DEF listenerVars, hubVars, clientVars, loopVars, procVars, hubSide
<1> QED
  BY <1>1, <1>2, <1>3, <1>4, <1>5 DEF ListenerNext

LEMMA CourseTyped ==
    ASSUME Course
    PROVE  ListenerTypeOK
<1>1. ToSet(wire) \subseteq Clients \X {"answer", "end"}
  BY WireKnown DEF Course, ToSet
<1>2. ToSet(shown) \subseteq posted
  <2>1. DOMAIN shown = 1 .. Len(shown)
    BY LenProperties DEF Course, History
  <2> QED
    BY <2>1 DEF Course, History, ToSet
<1> QED
  BY <1>1, <1>2 DEF ListenerTypeOK, Course, Books, Ends

\* The types of the listener's process and of the hub that answers it.
THEOREM ListenerTypeCorrect == ListenerSpec => []ListenerTypeOK
<1>1. ListenerInit => Course
  BY CourseBegins
<1>2. Course /\ [ListenerNext]_listenerVars => Course'
  BY CourseGoesOn
<1>3. Course => ListenerTypeOK
  BY CourseTyped
<1> QED
  BY <1>1, <1>2, <1>3, PTL DEF ListenerSpec

\* Whatever the network does, and whenever the two threads of the process end,
\* the listener shows what had arrived before a connection was opened before it
\* shows what came with that connection: in any order of the slots, for any
\* number of them, of answers and of connections that wait.
THEOREM ListenerArrivedFirst == ListenerSpec => []ArrivedFirstShownFirst
<1>1. ListenerInit => Course
  BY CourseBegins
<1>2. Course /\ [ListenerNext]_listenerVars => Course'
  BY CourseGoesOn
<1>3. Course => ArrivedFirstShownFirst
  <2> SUFFICES ASSUME Course PROVE ArrivedFirstShownFirst
    OBVIOUS
  <2>1. DOMAIN shown = 1 .. Len(shown)
    BY LenProperties DEF Course, History
  <2> QED
    BY <2>1 DEF Course, History, ArrivedFirstShownFirst
<1> QED
  BY <1>1, <1>2, <1>3, PTL DEF ListenerSpec
=============================================================================
