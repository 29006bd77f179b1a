-------------------------- MODULE HubServerProofs --------------------------
(***************************************************************************)
(* The loop of the hub, for any clients, slots, requests and scripts.      *)
(***************************************************************************)
EXTENDS HubServer, UserTableProofs, SequenceTheorems, FiniteSetTheorems, TLAPS

PartNames == {"tag", "name", "namerest", "second", "secondrest", "a", "end"}

Piece == [n : Nat, part : PartNames]

Request == [op : Ops, arg : Names \cup Ports \cup Payloads \cup {NoName}]

ClientTypes ==
    /\ link \in [Clients -> {"idle", "up", "closed", "reset", "cut"}]
    /\ requests \in [Clients -> Seq(Request)]
    /\ \A c \in Clients : \A i \in 1 .. Len(requests[c]) :
         requests[c][i].arg \in Args(requests[c][i].op, c)
    /\ stream \in [Clients -> Seq(Piece)]
    /\ \A c \in Clients : \A i \in 1 .. Len(stream[c]) :
         stream[c][i].n \in 1 .. Len(requests[c])

HistoryTypes ==
    /\ served \in Clients \cup {Free}
    /\ handled \in [Clients -> Seq(Nat)]
    /\ \A c \in Clients : \A i \in 1 .. Len(handled[c]) :
         handled[c][i] \in 1 .. Len(requests[c])

\* Outside a pass nothing is left to read, and there is an address as soon as
\* there is a client to dispatch for.
LoopTypes ==
    /\ backlog \in Seq(Clients)
    /\ fd_A \in [Slots -> Clients \cup {Free, Invalid}]
    /\ fdsr \subseteq {i \in Slots : fd_A[i] \in Clients}
    /\ listening \in BOOLEAN
    /\ listening => backlog # <<>>
    /\ client_addr \in Hosts \cup {NoHost}
    /\ (\E i \in Slots : fd_A[i] \in Clients) => client_addr \in Hosts
    /\ pc \in {"select", "scan", "stopped"}
    /\ pc # "scan" => fdsr = {}

HubTypes == ClientTypes /\ HistoryTypes /\ LoopTypes

-----------------------------------------------------------------------------
(* What the steps do to the sequences.                                     *)

\* A request is a tag and pieces behind it, all with its number.
LEMMA PiecesShape ==
    ASSUME NEW n \in Nat, NEW op
    PROVE  /\ Pieces(n, op) \in Seq(Piece)
           /\ \A i \in 1 .. Len(Pieces(n, op)) :
                /\ Pieces(n, op)[i].n = n
                /\ Pieces(n, op)[i].part = "tag" => i = 1
<1>1. \E size \in Nat :
        /\ DOMAIN Parts(op) = 1 .. size
        /\ \A i \in 1 .. size : Parts(op)[i] \in PartNames /\ (Parts(op)[i] = "tag" => i = 1)
  <2>1. CASE op \in {"login", "invite", "data"}
    <3>1. Parts(op) = <<"tag", "name", "namerest", "second", "secondrest", "end">>
      BY <2>1 DEF Parts
    <3>2. /\ DOMAIN Parts(op) = 1 .. 6
          /\ Parts(op)[1] = "tag" /\ Parts(op)[2] = "name" /\ Parts(op)[3] = "namerest"
          /\ Parts(op)[4] = "second" /\ Parts(op)[5] = "secondrest" /\ Parts(op)[6] = "end"
      BY <3>1
    <3> QED
      BY <3>2 DEF PartNames
  <2>2. CASE op = "exit"
    <3>1. Parts(op) = <<"tag", "name", "namerest", "end">>
      BY <2>2 DEF Parts
    <3>2. /\ DOMAIN Parts(op) = 1 .. 4
          /\ Parts(op)[1] = "tag" /\ Parts(op)[2] = "name" /\ Parts(op)[3] = "namerest"
          /\ Parts(op)[4] = "end"
      BY <3>1
    <3> QED
      BY <3>2 DEF PartNames
  <2>3. CASE op \notin {"login", "invite", "data", "exit"}
    <3>1. Parts(op) = <<"tag", "a", "end">>
      BY <2>3 DEF Parts
    <3>2. /\ DOMAIN Parts(op) = 1 .. 3
          /\ Parts(op)[1] = "tag" /\ Parts(op)[2] = "a" /\ Parts(op)[3] = "end"
      BY <3>1
    <3> QED
      BY <3>2 DEF PartNames
  <2> QED
    BY <2>1, <2>2, <2>3
<1>2. PICK size \in Nat :
        /\ DOMAIN Parts(op) = 1 .. size
        /\ \A i \in 1 .. size : Parts(op)[i] \in PartNames /\ (Parts(op)[i] = "tag" => i = 1)
  BY <1>1
<1>3. Pieces(n, op) = [i \in 1 .. size |-> [n |-> n, part |-> Parts(op)[i]]]
  BY <1>2 DEF Pieces
<1>4. Pieces(n, op) \in [1 .. size -> Piece]
  BY <1>2, <1>3 DEF Piece
<1>5. Pieces(n, op) \in Seq(Piece)
  BY <1>4, SeqDef
<1>6. 1 .. Len(Pieces(n, op)) = 1 .. size
  BY <1>3, <1>5, LenProperties
<1>7. ASSUME NEW i \in 1 .. size
      PROVE  Pieces(n, op)[i].n = n /\ Pieces(n, op)[i].part = Parts(op)[i]
  <2>1. Pieces(n, op)[i] = [n |-> n, part |-> Parts(op)[i]]
    BY <1>3
  <2> QED
    BY <2>1
<1> QED
  BY <1>2, <1>5, <1>6, <1>7

\* recv took the first k pieces of the stream of c, which the hub reads as r, and
\* left rest.  A request is dispatched as its own when its tag begins the chunk.
Takes(i, c, k, rest, r) ==
    /\ i \in fdsr /\ fd_A[i] = c
    /\ fdsr' = fdsr \ {i}
    /\ stream' = [stream EXCEPT ![c] = rest]
    /\ Len(rest) = Len(stream[c]) - k
    /\ \A j \in 1 .. Len(rest) : rest[j] = stream[c][j + k]
    /\ \/ ~ r.own /\ handled' = handled
       \/ /\ r.own /\ stream[c][1].part = "tag"
          /\ handled' = [handled EXCEPT ![c] = Append(@, stream[c][1].n)]
    /\ served' = c
    /\ Dispatch(r)
    /\ UNCHANGED <<link, requests, backlog, fd_A, listening, client_addr, pc>>

\* Under its own tag a request is read as what it is; other chunks as anything.
LEMMA ReadingShape ==
    ASSUME NEW c, NEW chunk, NEW r \in Readings(c, chunk)
    PROVE  /\ r.own \in BOOLEAN
           /\ r.own => /\ Tagged(chunk)
                       /\ r.op = requests[c][Head(chunk).n].op
           /\ ~ r.own => r.op = "other" \/ r \in Strays
<1> DEFINE n     == Head(chunk).n
           parts == {chunk[i].part : i \in {j \in DOMAIN chunk : chunk[j].n = n}}
           op    == requests[c][n].op
<1>1. CASE Tagged(chunk)
  <2>1. r \in Read(TRUE, op, IF op = "list" THEN {NoName} ELSE NamesRead(c, parts),
                   SecondsRead(c, n, parts))
    BY <1>1 DEF Readings
  <2> HIDE DEF op, n, parts
  <2>2. r.own = TRUE /\ r.op = op
    BY <2>1 DEF Read
  <2> QED
    BY <1>1, <2>2 DEF op, n
<1>2. CASE ~ Tagged(chunk)
  <2>1. r \in Read(FALSE, "other", {NoName}, {NoName}) \cup Strays
    BY <1>2 DEF Readings
  <2>2. r.own = FALSE /\ (r.op = "other" \/ r \in Strays)
    BY <2>1 DEF Read, Strays
  <2> QED
    BY <2>2
<1> QED
  BY <1>1, <1>2

\* recv takes a prefix of the stream.
LEMMA TakeShape ==
    ASSUME HubTypes, NEW i \in Slots, Reached(i), NEW k \in 1 .. Len(stream[fd_A[i]]),
           NEW r \in Readings(fd_A[i], Chunk(i, k)), Take(i, k, r)
    PROVE  /\ fd_A[i] \in Clients
           /\ \E rest \in Seq(Piece) : Takes(i, fd_A[i], k, rest, r)
<1> DEFINE c == fd_A[i]
<1>1. /\ i \in fdsr /\ c \in Clients
      /\ stream[c] \in Seq(Piece)
  BY DEF Reached, First, HubTypes, LoopTypes, ClientTypes
<1> DEFINE rest == SubSeq(stream[c], k + 1, Len(stream[c]))
<1>3. Len(stream[c]) \in Nat /\ k \in Nat /\ k >= 1 /\ k <= Len(stream[c])
  BY <1>1, LenProperties
<1>4. \A j \in k + 1 .. Len(stream[c]) : stream[c][j] \in Piece
  BY <1>1, <1>3, ElementOfSeq
<1>5. /\ rest \in Seq(Piece)
      /\ Len(rest) = Len(stream[c]) - k
      /\ \A j \in 1 .. Len(rest) : rest[j] = stream[c][j + k]
  BY <1>3, <1>4, SubSeqProperties, Z3
<1>6. Head(Chunk(i, k)) = stream[c][1]
  BY <1>1, <1>3, HeadTailOfSubSeq DEF Chunk
<1>7. stream' = [stream EXCEPT ![c] = rest]
  BY <1>1 DEF Take
<1>8. \/ ~ r.own /\ handled' = handled
      \/ /\ r.own /\ stream[c][1].part = "tag"
         /\ handled' = [handled EXCEPT ![c] = Append(@, stream[c][1].n)]
  <2>1. r.own \in BOOLEAN /\ (r.own => stream[c][1].part = "tag")
    BY <1>6, ReadingShape DEF Tagged
  <2>2. Head(stream[c]) = stream[c][1]
    BY <1>1
  <2> QED
    BY <2>1, <2>2 DEF Take
<1>9. /\ fdsr' = fdsr \ {i} /\ served' = c /\ Dispatch(r)
      /\ UNCHANGED <<link, requests, backlog, fd_A, listening, client_addr, pc>>
  BY DEF Take
<1> HIDE DEF rest
<1>10. Takes(i, c, k, rest, r)
  BY <1>1, <1>5, <1>7, <1>8, <1>9 DEF Takes
<1> QED
  BY <1>1, <1>5, <1>10

LEMMA RecvShape ==
    ASSUME HubTypes, NEW i \in Slots, Recv(i)
    PROVE  /\ running
           /\ \E c \in Clients : \E k \in 1 .. Len(stream[c]) : \E rest \in Seq(Piece) :
                \E r \in Readings(c, SubSeq(stream[c], 1, k)) : Takes(i, c, k, rest, r)
<1>1. Reached(i)
  BY DEF Recv
<1>2. PICK k \in 1 .. Len(stream[fd_A[i]]) :
        \E r \in Readings(fd_A[i], Chunk(i, k)) : Take(i, k, r)
  BY DEF Recv
<1>3. PICK r \in Readings(fd_A[i], Chunk(i, k)) : Take(i, k, r)
  BY <1>2
<1> QED
  BY <1>1, <1>3, TakeShape DEF Reached, Chunk

-----------------------------------------------------------------------------
(* The types.                                                              *)

LEMMA InitTypes == HubInit => HubTypes
<1> SUFFICES ASSUME HubInit PROVE HubTypes
  OBVIOUS
<1> USE DEF HubInit
<1>1. \A c \in Clients : stream[c] = <<>> /\ requests[c] = <<>> /\ handled[c] = <<>>
  OBVIOUS
<1>2. ClientTypes
  <2>1. stream \in [Clients -> Seq(Piece)] /\ requests \in [Clients -> Seq(Request)]
    OBVIOUS
  <2> QED
    BY <1>1, <2>1 DEF ClientTypes
<1>3. HistoryTypes
  <2>1. handled \in [Clients -> Seq(Nat)]
    OBVIOUS
  <2> QED
    BY <1>1, <2>1 DEF HistoryTypes
<1>4. LoopTypes
  <2>1. backlog \in Seq(Clients) /\ fd_A \in [Slots -> Clients \cup {Free, Invalid}]
    OBVIOUS
  <2>2. \A i \in Slots : fd_A[i] \notin Clients
    BY HubAssumption
  <2> QED
    BY <2>1, <2>2 DEF LoopTypes
<1> QED
  BY <1>2, <1>3, <1>4 DEF HubTypes

LEMMA ArgsAreWords ==
    ASSUME NEW op, NEW c \in Clients
    PROVE  Args(op, c) \subseteq Names \cup Ports \cup Payloads \cup {NoName}
  BY HubAssumption DEF Args

\* A request adds its pieces to the stream of its client.
LEMMA AskShape ==
    ASSUME HubTypes, NEW c \in Clients, NEW op \in Ops, NEW arg \in Args(op, c),
           Ask(c, op, arg)
    PROVE  /\ requests' = [requests EXCEPT ![c] = Append(@, [op |-> op, arg |-> arg])]
           /\ Len(requests'[c]) = Len(requests[c]) + 1
           /\ requests' \in [Clients -> Seq(Request)]
           /\ \E new \in Seq(Piece) :
                /\ stream' = [stream EXCEPT ![c] = @ \o new]
                /\ \A i \in 1 .. Len(new) :
                     /\ new[i].n = Len(requests[c]) + 1
                     /\ new[i].part = "tag" => i = 1
<1> USE DEF Ask
<1>1. requests[c] \in Seq(Request) /\ Len(requests[c]) \in Nat
  BY DEF HubTypes, ClientTypes
<1>2. [op |-> op, arg |-> arg] \in Request
  BY ArgsAreWords DEF Request
<1>3. /\ Append(requests[c], [op |-> op, arg |-> arg]) \in Seq(Request)
      /\ Len(Append(requests[c], [op |-> op, arg |-> arg])) = Len(requests[c]) + 1
  BY <1>1, <1>2, AppendProperties
<1>4. requests' \in [Clients -> Seq(Request)] /\ Len(requests'[c]) = Len(requests[c]) + 1
  BY <1>3 DEF HubTypes, ClientTypes
<1> DEFINE n   == Len(requests[c]) + 1
           new == Pieces(n, op)
<1>5. n \in Nat
  BY <1>1
<1>6. /\ new \in Seq(Piece)
      /\ \A i \in 1 .. Len(new) :
           /\ new[i].n = Len(requests[c]) + 1
           /\ new[i].part = "tag" => i = 1
  BY <1>5, PiecesShape
<1>7. stream' = [stream EXCEPT ![c] = @ \o new]
  OBVIOUS
<1>8. requests' = [requests EXCEPT ![c] = Append(@, [op |-> op, arg |-> arg])]
  OBVIOUS
<1> HIDE DEF new
<1> QED
  BY <1>4, <1>5, <1>6, <1>7, <1>8

LEMMA AskKeepsTypes ==
    ASSUME HubTypes, NEW c \in Clients, NEW op \in Ops, NEW arg \in Args(op, c),
           Ask(c, op, arg)
    PROVE  HubTypes'
<1> DEFINE n == Len(requests[c]) + 1
<1>a. /\ requests' = [requests EXCEPT ![c] = Append(@, [op |-> op, arg |-> arg])]
      /\ Len(requests'[c]) = n
      /\ requests' \in [Clients -> Seq(Request)]
  BY AskShape
<1>b. n \in Nat
  BY DEF HubTypes, ClientTypes
<1>c. \A d \in Clients : Len(requests'[d]) = IF d = c THEN n ELSE Len(requests[d])
  BY <1>a DEF HubTypes, ClientTypes
<1>0. /\ Len(requests'[c]) = n
      /\ requests' \in [Clients -> Seq(Request)]
      /\ n \in Nat
      /\ \A d \in Clients : Len(requests'[d]) = IF d = c THEN n ELSE Len(requests[d])
  BY <1>a, <1>b, <1>c
<1>1. PICK new \in Seq(Piece) :
        /\ stream' = [stream EXCEPT ![c] = @ \o new]
        /\ \A i \in 1 .. Len(new) :
             /\ new[i].n = Len(requests[c]) + 1
             /\ new[i].part = "tag" => i = 1
  BY AskShape
<1>2. UNCHANGED <<link, loopVars, ghostVars>>
  BY DEF Ask
<1>3. stream[c] \in Seq(Piece) /\ Len(stream[c]) \in Nat /\ Len(new) \in Nat
  BY DEF HubTypes, ClientTypes
<1>4. /\ stream[c] \o new \in Seq(Piece)
      /\ Len(stream[c] \o new) = Len(stream[c]) + Len(new)
      /\ \A i \in 1 .. Len(stream[c]) + Len(new) : (stream[c] \o new)[i] =
            IF i <= Len(stream[c]) THEN stream[c][i] ELSE new[i - Len(stream[c])]
  BY <1>3, ConcatProperties
<1>5. \A d \in Clients : Len(requests[d]) \in Nat /\ Len(requests[d]) <= Len(requests'[d])
  BY <1>0 DEF HubTypes, ClientTypes
<1>6. ClientTypes'
  <2>1. stream' \in [Clients -> Seq(Piece)]
    BY <1>1, <1>4 DEF HubTypes, ClientTypes
  <2>2. ASSUME NEW d \in Clients, NEW i \in 1 .. Len(stream'[d])
        PROVE  stream'[d][i].n \in 1 .. Len(requests'[d])
    <3>1. CASE d # c
      BY <1>0, <1>1, <1>5, <3>1 DEF HubTypes, ClientTypes
    <3>2. CASE d = c
      <4>1. stream'[c] = stream[c] \o new
        BY <1>1 DEF HubTypes, ClientTypes
      <4>2. CASE i <= Len(stream[c])
        <5>1. stream'[c][i] = stream[c][i] /\ i \in 1 .. Len(stream[c])
          BY <1>3, <1>4, <3>2, <4>1, <4>2
        <5>2. stream[c][i].n \in 1 .. Len(requests[c])
          BY <5>1 DEF HubTypes, ClientTypes
        <5> QED
          BY <1>5, <3>2, <5>1, <5>2
      <4>3. CASE ~ (i <= Len(stream[c]))
        <5>1. stream'[c][i] = new[i - Len(stream[c])] /\ i - Len(stream[c]) \in 1 .. Len(new)
          BY <1>3, <1>4, <3>2, <4>1, <4>3
        <5>2. stream'[c][i].n = n
          BY <1>1, <5>1
        <5>3. Len(requests'[c]) = n /\ n \in 1 .. n
          BY <1>0 DEF HubTypes, ClientTypes
        <5> HIDE DEF n
        <5> QED
          BY <3>2, <5>2, <5>3
      <4> QED
        BY <4>2, <4>3
    <3> QED
      BY <3>1, <3>2
  <2>3. ASSUME NEW d \in Clients, NEW i \in 1 .. Len(requests'[d])
        PROVE  requests'[d][i].arg \in Args(requests'[d][i].op, d)
    <3>1. CASE d # c
      BY <1>a, <3>1 DEF HubTypes, ClientTypes
    <3>2. CASE d = c
      <4>1. /\ requests'[c] = Append(requests[c], [op |-> op, arg |-> arg])
            /\ requests[c] \in Seq(Request) /\ [op |-> op, arg |-> arg] \in Request
        BY <1>a, ArgsAreWords DEF HubTypes, ClientTypes, Request
      <4>2. /\ \A k \in 1 .. Len(requests[c]) : requests'[c][k] = requests[c][k]
            /\ requests'[c][n] = [op |-> op, arg |-> arg]
        BY <4>1, AppendProperties
      <4>3. CASE i \in 1 .. Len(requests[c])
        BY <3>2, <4>2, <4>3 DEF HubTypes, ClientTypes
      <4>4. CASE i = n
        BY <3>2, <4>2, <4>4
      <4>5. i \in 1 .. Len(requests[c]) \/ i = n
        BY <1>b, <1>0, <3>2 DEF HubTypes, ClientTypes
      <4> QED
        BY <4>3, <4>4, <4>5
    <3> QED
      BY <3>1, <3>2
  <2> QED
    BY <1>0, <1>1, <1>2, <2>1, <2>2, <2>3 DEF HubTypes, ClientTypes
<1>7. HistoryTypes'
  <2>1. ASSUME NEW d \in Clients, NEW i \in 1 .. Len(handled[d])
        PROVE  handled[d][i] \in 1 .. Len(requests'[d])
    <3>1. handled[d][i] \in 1 .. Len(requests[d])
      BY DEF HubTypes, HistoryTypes
    <3>2. Len(requests'[d]) \in Nat
      BY <1>0
    <3> QED
      BY <1>5, <3>1, <3>2
  <2> QED
    BY <1>2, <2>1 DEF HubTypes, HistoryTypes, ghostVars
<1>8. LoopTypes'
  BY <1>2 DEF HubTypes, LoopTypes, loopVars
<1> QED
  BY <1>6, <1>7, <1>8 DEF HubTypes

LEMMA ConnectKeepsTypes ==
    ASSUME HubTypes, NEW c \in Clients, Connect(c) \/ Close(c) \/ Reset(c)
    PROVE  HubTypes'
<1>1. CASE Connect(c)
  <2> USE <1>1 DEF Connect
  <2>1. backlog' \in Seq(Clients) /\ backlog' # <<>>
    BY AppendProperties DEF HubTypes, LoopTypes
  <2> QED
    BY <2>1 DEF HubTypes, ClientTypes, HistoryTypes, LoopTypes, ghostVars
<1>2. CASE Close(c)
  BY <1>2 DEF Close, HubTypes, ClientTypes, HistoryTypes, LoopTypes, loopVars, ghostVars
<1>3. CASE Reset(c)
  <2> USE <1>3 DEF Reset
  <2>1. stream' \in [Clients -> Seq(Piece)]
    BY DEF HubTypes, ClientTypes
  <2>2. \A d \in Clients : stream'[d] = IF d = c THEN <<>> ELSE stream[d]
    BY DEF HubTypes, ClientTypes
  <2>3. \A d \in Clients : \A i \in 1 .. Len(stream'[d]) : stream'[d][i].n \in 1 .. Len(requests[d])
    BY <2>2 DEF HubTypes, ClientTypes
  <2> QED
    BY <2>1, <2>3 DEF HubTypes, ClientTypes, HistoryTypes, LoopTypes, loopVars, ghostVars
<1> QED
  BY <1>1, <1>2, <1>3

LEMMA RecvKeepsTypes ==
    ASSUME HubTypes, NEW i \in Slots, Recv(i)
    PROVE  HubTypes'
<1>1. PICK c \in Clients : \E k \in 1 .. Len(stream[c]) : \E rest \in Seq(Piece) :
        \E r \in Readings(c, SubSeq(stream[c], 1, k)) : Takes(i, c, k, rest, r)
  BY RecvShape
<1>2. PICK k \in 1 .. Len(stream[c]), rest \in Seq(Piece) :
        /\ i \in fdsr /\ fdsr' = fdsr \ {i}
        /\ stream' = [stream EXCEPT ![c] = rest]
        /\ Len(rest) = Len(stream[c]) - k
        /\ \A j \in 1 .. Len(rest) : rest[j] = stream[c][j + k]
        /\ \/ handled' = handled
           \/ handled' = [handled EXCEPT ![c] = Append(@, stream[c][1].n)]
        /\ served' = c
        /\ UNCHANGED <<link, requests, backlog, fd_A, listening, client_addr, pc>>
  BY <1>1 DEF Takes
<1>3. /\ Len(stream[c]) \in Nat /\ Len(rest) \in Nat
      /\ stream[c][1].n \in 1 .. Len(requests[c]) /\ Len(requests[c]) \in Nat
  <2>1. stream[c] \in Seq(Piece) /\ requests[c] \in Seq(Request)
    BY DEF HubTypes, ClientTypes
  <2>2. Len(stream[c]) \in Nat /\ Len(rest) \in Nat /\ Len(requests[c]) \in Nat
    BY <2>1
  <2>3. 1 \in 1 .. Len(stream[c])
    BY <2>2
  <2> QED
    BY <2>2, <2>3 DEF HubTypes, ClientTypes
<1>4. ClientTypes'
  <2>1. stream' \in [Clients -> Seq(Piece)]
    BY <1>2 DEF HubTypes, ClientTypes
  <2>2. ASSUME NEW d \in Clients, NEW j \in 1 .. Len(stream'[d])
        PROVE  stream'[d][j].n \in 1 .. Len(requests[d])
    <3>1. CASE d # c
      BY <1>2, <3>1 DEF HubTypes, ClientTypes
    <3>2. CASE d = c
      <4>1. stream'[c] = rest
        BY <1>2 DEF HubTypes, ClientTypes
      <4>2. stream'[c][j] = stream[c][j + k] /\ j + k \in 1 .. Len(stream[c])
        BY <1>2, <1>3, <3>2, <4>1
      <4>3. stream[c][j + k].n \in 1 .. Len(requests[c])
        BY <4>2 DEF HubTypes, ClientTypes
      <4> QED
        BY <3>2, <4>2, <4>3
    <3> QED
      BY <3>1, <3>2
  <2> QED
    BY <1>2, <2>1, <2>2 DEF HubTypes, ClientTypes
<1>5. HistoryTypes'
  <2>1. CASE handled' = handled
    BY <1>2, <2>1 DEF HubTypes, HistoryTypes
  <2>2. CASE handled' = [handled EXCEPT ![c] = Append(@, stream[c][1].n)]
    <3>1. handled[c] \in Seq(Nat) /\ stream[c][1].n \in Nat
      BY <1>3 DEF HubTypes, HistoryTypes
    <3>2. /\ Append(handled[c], stream[c][1].n) \in Seq(Nat)
          /\ Len(Append(handled[c], stream[c][1].n)) = Len(handled[c]) + 1
          /\ \A m \in 1 .. Len(handled[c]) :
               Append(handled[c], stream[c][1].n)[m] = handled[c][m]
          /\ Append(handled[c], stream[c][1].n)[Len(handled[c]) + 1] = stream[c][1].n
      BY <3>1, AppendProperties
    <3>3. handled' \in [Clients -> Seq(Nat)]
      BY <2>2, <3>2 DEF HubTypes, HistoryTypes
    <3>4. handled'[c] = Append(handled[c], stream[c][1].n)
      BY <2>2 DEF HubTypes, HistoryTypes
    <3>5. ASSUME NEW d \in Clients, NEW m \in 1 .. Len(handled'[d])
          PROVE  handled'[d][m] \in 1 .. Len(requests[d])
      <4>1. CASE d # c
        BY <2>2, <4>1 DEF HubTypes, HistoryTypes
      <4>2. CASE d = c /\ m = Len(handled[c]) + 1
        BY <1>3, <3>2, <3>4, <4>2
      <4>3. CASE d = c /\ m # Len(handled[c]) + 1
        <5>1. m \in 1 .. Len(handled[c]) /\ handled'[d][m] = handled[c][m]
          BY <3>1, <3>2, <3>4, <4>3
        <5> QED
          BY <4>3, <5>1 DEF HubTypes, HistoryTypes
      <4> QED
        BY <4>1, <4>2, <4>3
    <3> QED
      BY <1>2, <3>3, <3>5 DEF HubTypes, HistoryTypes
  <2> QED
    BY <1>2, <2>1, <2>2
<1>6. LoopTypes'
  <2>1. pc = "scan" /\ (fdsr \ {i}) \subseteq fdsr
    BY <1>2 DEF HubTypes, LoopTypes
  <2> QED
    BY <1>2, <2>1 DEF HubTypes, LoopTypes
<1> QED
  BY <1>4, <1>5, <1>6 DEF HubTypes

\* The loop is left: every socket is closed.
LEMMA StoppedKeepsTypes ==
    ASSUME HubTypes, fdsr = {}, NEW dropped, Stopped(dropped),
           client_addr' \in Hosts \cup {NoHost}
    PROVE  HubTypes'
<1> USE DEF Stopped
<1>1. ClientTypes'
  BY DEF HubTypes, ClientTypes
<1>2. HistoryTypes'
  BY DEF HubTypes, HistoryTypes, ghostVars
<1>3. LoopTypes'
  <2>1. backlog' \in Seq(Clients) /\ fd_A' \in [Slots -> Clients \cup {Free, Invalid}]
    OBVIOUS
  <2>2. \A i \in Slots : fd_A'[i] \notin Clients
    BY HubAssumption
  <2> QED
    BY <2>1, <2>2 DEF HubTypes, LoopTypes
<1> QED
  BY <1>1, <1>2, <1>3 DEF HubTypes

\* A new socket in a free slot, at the end of a pass.
LEMMA SlotTakenKeepsTypes ==
    ASSUME HubTypes, fdsr = {},
           NEW i \in Slots, NEW s \in Clients \cup {Invalid},
           fd_A' = [fd_A EXCEPT ![i] = s],
           backlog' = Tail(backlog), backlog # <<>>,
           listening' = FALSE, pc' = "select", fdsr' = fdsr,
           client_addr' \in Hosts \/ (s = Invalid /\ client_addr' = client_addr),
           UNCHANGED <<link, stream, requests, served, handled>>
    PROVE  HubTypes'
<1>1. ClientTypes' /\ HistoryTypes'
  BY DEF HubTypes, ClientTypes, HistoryTypes
<1>2. backlog' \in Seq(Clients)
  BY HeadTailProperties DEF HubTypes, LoopTypes
<1>3. fd_A' \in [Slots -> Clients \cup {Free, Invalid}]
  BY DEF HubTypes, LoopTypes
<1>4. (\E j \in Slots : fd_A'[j] \in Clients) => client_addr' \in Hosts
  BY HubAssumption DEF HubTypes, LoopTypes
<1> QED
  BY <1>1, <1>2, <1>3, <1>4 DEF HubTypes, LoopTypes

LEMMA HubStepKeepsTypes ==
    ASSUME HubTypes, HubStep
    PROVE  HubTypes'
<1>0. Head(backlog) \in Clients \/ backlog = <<>>
  BY HeadTailProperties DEF HubTypes, LoopTypes
<1>1. CASE Select
  <2> USE <1>1 DEF Select
  <2>1. {i \in Slots : fd_A[i] # Free /\ Readable(fd_A[i])}
           \subseteq {i \in Slots : fd_A[i] \in Clients}
    BY DEF HubTypes, LoopTypes, Sockets
  <2>2. listening' \in BOOLEAN /\ (listening' => backlog # <<>>)
    OBVIOUS
  <2> QED
    BY <2>1, <2>2 DEF HubTypes, ClientTypes, HistoryTypes, LoopTypes, clientVars, ghostVars
<1>2. CASE Again
  BY <1>2 DEF Again, HubTypes, ClientTypes, HistoryTypes, LoopTypes, clientVars, ghostVars
<1>3. CASE Accept
  <2> USE <1>3 DEF Accept, Accepting
  <2>1. fdsr = {} /\ backlog # <<>>
    BY DEF HubTypes, LoopTypes
  <2>2. Head(backlog) \in Clients /\ client_addr' \in Hosts
    BY <1>0, <2>1, HubAssumption
  <2>3. PICK i \in Slots : fd_A' = [fd_A EXCEPT ![i] = Head(backlog)]
    BY DEF FreeSlots
  <2>4. UNCHANGED <<link, stream, requests, served, handled, fdsr>>
    BY DEF clientVars, ghostVars
  <2> QED
    BY <2>1, <2>2, <2>3, <2>4, SlotTakenKeepsTypes
<1>4. CASE AcceptFails
  <2> USE <1>4 DEF AcceptFails, Accepting
  <2>1. fdsr = {} /\ backlog # <<>> /\ client_addr' = client_addr
    BY DEF HubTypes, LoopTypes
  <2>2. CASE FreeSlots # {}
    <3>1. PICK i \in Slots : fd_A' = [fd_A EXCEPT ![i] = Invalid]
      BY <2>2 DEF FreeSlots
    <3>2. UNCHANGED <<link, stream, requests, served, handled, fdsr>>
      BY <2>2 DEF clientVars, ghostVars
    <3>3. backlog' = Tail(backlog) /\ listening' = FALSE /\ pc' = "select"
      BY <2>2
    <3> QED
      BY <2>1, <3>1, <3>2, <3>3, SlotTakenKeepsTypes
  <2>3. CASE FreeSlots = {}
    BY <2>1, <2>3, StoppedKeepsTypes DEF HubTypes, LoopTypes
  <2> QED
    BY <2>2, <2>3
<1>5. CASE AcceptFull
  <2> USE <1>5 DEF AcceptFull, Accepting
  <2>1. fdsr = {} /\ backlog # <<>>
    BY DEF HubTypes, LoopTypes
  <2>2. client_addr' \in Hosts
    BY <1>0, <2>1, HubAssumption
  <2> QED
    BY <2>1, <2>2, StoppedKeepsTypes
<1>6. CASE SelectFails
  <2>1. fdsr = {} /\ client_addr' = client_addr /\ Stopped({})
    BY <1>6 DEF SelectFails, HubTypes, LoopTypes
  <2>2. client_addr \in Hosts \cup {NoHost}
    BY DEF HubTypes, LoopTypes
  <2> QED
    BY <2>1, <2>2, StoppedKeepsTypes
<1>7. CASE \E i \in Slots : Recv(i)
  BY <1>7, RecvKeepsTypes
<1>8. CASE \E i \in Slots : RecvClosed(i)
  <2>1. PICK i \in Slots : RecvClosed(i)
    BY <1>8
  <2> USE <2>1 DEF RecvClosed, Reached, First
  <2>2. fd_A' \in [Slots -> Clients \cup {Free, Invalid}]
    BY DEF HubTypes, LoopTypes
  <2>3. /\ fdsr' \subseteq {j \in Slots : fd_A'[j] \in Clients}
        /\ (\E j \in Slots : fd_A'[j] \in Clients) => (\E j \in Slots : fd_A[j] \in Clients)
    BY HubAssumption DEF HubTypes, LoopTypes
  <2> QED
    BY <2>2, <2>3 DEF HubTypes, ClientTypes, HistoryTypes, LoopTypes, clientVars, ghostVars
<1> QED
  BY <1>1, <1>2, <1>3, <1>4, <1>5, <1>6, <1>7, <1>8 DEF HubStep

LEMMA HubNextKeepsTypes ==
    ASSUME HubTypes, [HubNext]_hubVars
    PROVE  HubTypes'
<1>1. CASE HubStep
  BY <1>1, HubStepKeepsTypes
<1>2. CASE ClientStep
  <2>1. PICK c \in Clients :
          \/ Connect(c) \/ Close(c) \/ Reset(c)
          \/ \E op \in Ops : \E arg \in Args(op, c) : Ask(c, op, arg)
    BY <1>2 DEF ClientStep
  <2> QED
    BY <2>1, ConnectKeepsTypes, AskKeepsTypes
<1>3. CASE UNCHANGED hubVars
  BY <1>3 DEF hubVars, clientVars, loopVars, ghostVars, HubTypes, ClientTypes,
       HistoryTypes, LoopTypes
<1> QED
  BY <1>1, <1>2, <1>3 DEF HubNext

THEOREM HubTypesHold == HubSpec => []HubTypes
  BY InitTypes, HubNextKeepsTypes, PTL DEF HubSpec

\* The shape of the hub's state, for any number of clients, slots and requests.
THEOREM HubTypeCorrect == HubSpec => []HubTypeOK
<1>1. HubTypes => HubTypeOK
  <2> SUFFICES ASSUME HubTypes PROVE HubTypeOK
    OBVIOUS
  <2>1. \A c \in Clients : DOMAIN requests[c] = 1 .. Len(requests[c])
    BY LenProperties DEF HubTypes, ClientTypes
  <2>2. \A c \in Clients : \A i \in DOMAIN stream[c] : stream[c][i].n \in DOMAIN requests[c]
    BY <2>1, LenProperties DEF HubTypes, ClientTypes
  <2>3. ASSUME NEW c \in Clients PROVE handled[c] \in Seq(DOMAIN requests[c])
    <3>1. /\ Len(handled[c]) \in Nat
          /\ handled[c] \in [1 .. Len(handled[c]) -> Nat]
      BY LenProperties DEF HubTypes, HistoryTypes
    <3>2. \A i \in 1 .. Len(handled[c]) : handled[c][i] \in DOMAIN requests[c]
      BY <2>1 DEF HubTypes, HistoryTypes
    <3>3. handled[c] \in [1 .. Len(handled[c]) -> DOMAIN requests[c]]
      BY <3>1, <3>2
    <3> QED
      BY <3>1, <3>3, SeqDef
  <2>4. ToSet(backlog) \subseteq Clients
    BY LenProperties DEF HubTypes, LoopTypes, ToSet
  <2> QED
    BY <2>2, <2>3, <2>4 DEF HubTypeOK, HubTypes, ClientTypes, HistoryTypes, LoopTypes
<1> QED
  BY <1>1, HubTypesHold, PTL

-----------------------------------------------------------------------------
(* The loop drives the list through whole handlers.                        *)

\* The operation and the fields of a reading are ones the handlers are given.
Handled(r) ==
    \/ r.op = "login" /\ r.name \in Names /\ r.second \in Ports
    \/ r.op = "list"
    \/ r.op = "invite" /\ r.name \in Names /\ r.second \in Names \cup {NoName}
    \/ r.op = "data" /\ r.name \in Names /\ r.second \in Payloads
    \/ r.op = "exit" /\ r.name \in Names
    \/ r.op = "other"

LEMMA ReadingTypes ==
    ASSUME HubTypes, NEW c \in Clients, NEW chunk,
           Head(chunk).n \in 1 .. Len(requests[c]), NEW r \in Readings(c, chunk)
    PROVE  Handled(r)
<1> DEFINE n       == Head(chunk).n
           parts   == {chunk[i].part : i \in {j \in DOMAIN chunk : chunk[j].n = n}}
           request == requests[c][n]
<1>1. CASE ~ Tagged(chunk)
  <2>1. r.op = "other" \/ r \in Strays
    BY <1>1, ReadingShape
  <2> QED
    BY <2>1 DEF Strays, Read, Handled
<1>2. CASE Tagged(chunk)
  <2>1. /\ r.op = request.op
        /\ r.name \in (IF request.op = "list" THEN {NoName} ELSE NamesRead(c, parts))
        /\ r.second \in SecondsRead(c, n, parts)
    <3> HIDE DEF n, parts, request
    <3>1. r \in Read(TRUE, request.op,
                     IF request.op = "list" THEN {NoName} ELSE NamesRead(c, parts),
                     SecondsRead(c, n, parts))
      BY <1>2 DEF Readings, n, parts, request
    <3> QED
      BY <3>1 DEF Read
  <2>2. request.op \in {"login", "list", "invite", "data", "exit"}
        /\ request.arg \in Args(request.op, c)
    <3>1. request \in Request
      BY ElementOfSeq DEF HubTypes, ClientTypes
    <3> QED
      BY <3>1, HubAssumption DEF Request, HubTypes, ClientTypes
  <2>3. NamesRead(c, parts) \subseteq Names
    BY HubAssumption DEF NamesRead
  <2> HIDE DEF n, parts
  <2>4. CASE request.op = "login"
    <3>1. request.arg \in Ports
      BY <2>2, <2>4, HubAssumption DEF Args
    <3>2. SecondsRead(c, n, parts) \subseteq Ports
      BY <2>4, <3>1, HubAssumption DEF SecondsRead, n
    <3> QED
      BY <2>1, <2>3, <2>4, <3>2 DEF Handled
  <2>5. CASE request.op = "invite"
    <3>1. request.arg \in Names
      BY <2>2, <2>5 DEF Args
    <3>2. SecondsRead(c, n, parts) \subseteq Names \cup {NoName}
      BY <2>5, <3>1, HubAssumption DEF SecondsRead, n
    <3> QED
      BY <2>1, <2>3, <2>5, <3>2 DEF Handled
  <2>6. CASE request.op = "data"
    <3>1. request.arg \in Payloads
      BY <2>2, <2>6 DEF Args
    <3>2. SecondsRead(c, n, parts) \subseteq Payloads
      BY <2>6, <3>1, HubAssumption DEF SecondsRead, n
    <3> QED
      BY <2>1, <2>3, <2>6, <3>2 DEF Handled
  <2>7. CASE request.op \in {"list", "exit"}
    BY <2>1, <2>3, <2>7 DEF Handled
  <2> QED
    BY <2>2, <2>4, <2>5, <2>6, <2>7
<1> QED
  BY <1>1, <1>2

\* What DispatchMsg does with a chunk is a step of the user list: the chunk's
\* names, port and address are ones the handlers are given there.
LEMMA DispatchIsHandler ==
    ASSUME HubTypes, running, client_addr \in Hosts, NEW c \in Clients, NEW chunk,
           Head(chunk).n \in 1 .. Len(requests[c]), NEW r \in Readings(c, chunk), Dispatch(r)
    PROVE  Next
<1>1. Handled(r)
  BY ReadingTypes
<1> USE DEF Dispatch
<1>2. CASE r.op = "login" /\ r.name \in Names /\ r.second \in Ports
  BY <1>2 DEF Next, Login
<1>3. CASE r.op = "list"
  BY <1>3 DEF Next, AllUser
<1>4. CASE r.op = "invite" /\ r.name \in Names /\ r.second \in Names \cup {NoName}
  BY <1>4 DEF Next, Invite
<1>5. CASE r.op = "data" /\ r.name \in Names /\ r.second \in Payloads
  BY <1>5 DEF Next, Data
<1>6. CASE r.op = "exit" /\ r.name \in Names
  BY <1>6 DEF Next, ExitGame
<1>7. CASE r.op = "other"
  BY <1>7 DEF Next, Other
<1> QED
  BY <1>1, <1>2, <1>3, <1>4, <1>5, <1>6, <1>7 DEF Handled

LEMMA HubStepIsTableStep ==
    ASSUME HubTypes, [HubNext]_hubVars
    PROVE  [Next]_vars
<1> USE DEF vars, tableVars
<1>1. ASSUME NEW i \in Slots, Recv(i) PROVE Next
  <2>1. PICK c \in Clients : \E k \in 1 .. Len(stream[c]) : \E rest \in Seq(Piece) :
        \E r \in Readings(c, SubSeq(stream[c], 1, k)) : Takes(i, c, k, rest, r)
    BY <1>1, RecvShape
  <2>a. PICK k \in 1 .. Len(stream[c]) : \E rest \in Seq(Piece) :
        \E r \in Readings(c, SubSeq(stream[c], 1, k)) : Takes(i, c, k, rest, r)
    BY <2>1
  <2>2. PICK r \in Readings(c, SubSeq(stream[c], 1, k)) :
        Dispatch(r) /\ i \in fdsr /\ fd_A[i] = c
    BY <2>a DEF Takes
  <2>3. stream[c] \in Seq(Piece) /\ Len(stream[c]) \in Nat
    BY DEF HubTypes, ClientTypes
  <2>4. Head(SubSeq(stream[c], 1, k)) = stream[c][1]
    <3>1. 1 \in 1 .. Len(stream[c]) /\ k \in 1 .. Len(stream[c])
      BY <2>3
    <3> QED
      BY <2>3, <3>1, HeadTailOfSubSeq
  <2>5. stream[c][1].n \in 1 .. Len(requests[c])
    BY <2>3 DEF HubTypes, ClientTypes
  <2>6. running /\ client_addr \in Hosts
    BY <1>1, <2>2 DEF Recv, Reached, HubTypes, LoopTypes
  <2> HIDE DEF vars, tableVars
  <2> QED
    BY <2>2, <2>4, <2>5, <2>6, DispatchIsHandler
<1>2. CASE HubStep
  <2>1. ASSUME NEW i \in Slots, RecvClosed(i) PROVE UNCHANGED vars
    BY <2>1 DEF RecvClosed
  <2>2. CASE Select \/ Again \/ Accept \/ AcceptFails \/ AcceptFull \/ SelectFails
    BY <2>2 DEF Select, Again, Accept, AcceptFails, AcceptFull, SelectFails, Stopped
  <2> HIDE DEF vars
  <2> QED
    BY <1>1, <1>2, <2>1, <2>2 DEF HubStep
<1>3. CASE ClientStep
  BY <1>3 DEF ClientStep, Connect, Close, Reset, Ask
<1>4. CASE UNCHANGED hubVars
  BY <1>4 DEF hubVars
<1> HIDE DEF vars
<1> QED
  BY <1>2, <1>3, <1>4 DEF HubNext

\* The loop, with its clients, implements the user list on its own: whatever
\* holds of every history of whole handlers holds of the hub.
THEOREM HubImplementsTable == HubSpec => ImplementsTable
<1>1. HubInit => Init
  BY DEF HubInit
<1> QED
  BY <1>1, HubStepIsTableStep, HubTypesHold, PTL DEF HubSpec, ImplementsTable, Spec

\* What is proved of the handlers holds under the loop, whatever the clients
\* send, however it is cut and whichever address the loop has at hand: a paired
\* user's opposite is listed and paired, an address kept for an opposite is one
\* other user's or blank, data stays inside a pair, and a paired user can leave.
THEOREM HubListSafe ==
    HubSpec => [](PeerRegistered /\ RouteSound /\ RelayStaysInPair /\ PairedExitSafe)
  BY HubImplementsTable, PeersRegistered, RoutesSound, RelaysStayInPair, PairedExitsSafe,
     PTL DEF ImplementsTable

-----------------------------------------------------------------------------
(* Where the connections are.  NobodyForgotten is not inductive: that a     *)
(* connection occupies one slot at most, and a waiting one none, rests on   *)
(* all of them, the dead ones and those of a hub that is down included.     *)

Apart ==
    /\ \A i, j \in Slots : fd_A[i] \in Clients /\ fd_A[i] = fd_A[j] => i = j
    /\ \A m, n \in 1 .. Len(backlog) : backlog[m] = backlog[n] => m = n
    /\ \A i \in Slots : \A m \in 1 .. Len(backlog) : fd_A[i] # backlog[m]

Somewhere(c) ==
    (\E i \in Slots : fd_A[i] = c) \/ (\E m \in 1 .. Len(backlog) : backlog[m] = c)

Linked ==
    /\ \A c \in Clients : link[c] = "idle" => ~ Somewhere(c)
    /\ ~ Down => \A c \in Clients : link[c] = "up" => Somewhere(c)

Placed == Apart /\ Linked

LEMMA InitPlaced == HubInit => Placed /\ RecvNeverBlocks
<1> SUFFICES ASSUME HubInit PROVE Placed /\ RecvNeverBlocks
  OBVIOUS
<1> USE DEF HubInit
<1>1. \A i \in Slots : fd_A[i] = Free
  OBVIOUS
<1>2. Len(backlog) = 0 /\ 1 .. 0 = {}
  OBVIOUS
<1> QED
  BY <1>1, <1>2, HubAssumption DEF Placed, Apart, Linked, Somewhere, RecvNeverBlocks

\* Nothing moves, and no client becomes idle or up.
LEMMA StillPlaced ==
    ASSUME HubTypes, Placed, UNCHANGED <<fd_A, backlog>>, Down => Down',
           \A c \in Clients : link'[c] \in {"idle", "up"} => link'[c] = link[c]
    PROVE  Placed'
<1>1. \A c \in Clients : Somewhere(c)' <=> Somewhere(c)
  BY DEF Somewhere
<1> QED
  BY <1>1 DEF Placed, Apart, Linked

LEMMA ConnectPlaced ==
    ASSUME HubTypes, Placed, NEW c \in Clients, Connect(c)
    PROVE  Placed'
<1> USE DEF Connect
<1>1. /\ Len(backlog) \in Nat /\ Len(backlog') = Len(backlog) + 1
      /\ \A m \in 1 .. Len(backlog) : backlog'[m] = backlog[m]
      /\ backlog'[Len(backlog) + 1] = c
  BY AppendProperties, LenProperties DEF HubTypes, LoopTypes
<1>2. fd_A' = fd_A /\ ~ Somewhere(c)
  BY DEF Placed, Linked
<1>3. Apart'
  <2>1. ASSUME NEW m \in 1 .. Len(backlog'), NEW n \in 1 .. Len(backlog'), backlog'[m] = backlog'[n]
        PROVE  m = n
    BY <1>1, <1>2, <2>1 DEF Somewhere, Placed, Apart
  <2>2. ASSUME NEW i \in Slots, NEW m \in 1 .. Len(backlog') PROVE fd_A'[i] # backlog'[m]
    BY <1>1, <1>2 DEF Somewhere, Placed, Apart
  <2>3. \A i, j \in Slots : fd_A'[i] \in Clients /\ fd_A'[i] = fd_A'[j] => i = j
    BY <1>2 DEF Placed, Apart
  <2> QED
    BY <2>1, <2>2, <2>3 DEF Apart
<1>4. \A d \in Clients : d # c => (Somewhere(d)' <=> Somewhere(d))
  BY <1>1, <1>2 DEF Somewhere
<1>5. Somewhere(c)'
  BY <1>1 DEF Somewhere
<1>6. /\ link'[c] = "up"
      /\ \A d \in Clients : d # c => link'[d] = link[d]
      /\ ~ Down' => ~ Down
  BY DEF HubTypes, ClientTypes, Down
<1> QED
  BY <1>3, <1>4, <1>5, <1>6 DEF Placed, Linked

\* The head of the backlog gets a free slot, or an invalid socket does in its
\* place because it was reset.
LEMMA SlotTakenPlaced ==
    ASSUME HubTypes, Placed, backlog # <<>>, backlog' = Tail(backlog),
           NEW i \in FreeSlots, NEW s,
           fd_A' = [fd_A EXCEPT ![i] = s],
           \/ s = Head(backlog)
           \/ s = Invalid /\ link[Head(backlog)] = "reset",
           ~ Down, link' = link
    PROVE  Placed'
<1>1. /\ Len(backlog) \in Nat \ {0} /\ Len(backlog') = Len(backlog) - 1
      /\ \A m \in 1 .. Len(backlog') : backlog'[m] = backlog[m + 1]
      /\ Head(backlog) = backlog[1] /\ backlog[1] \in Clients
  BY HeadTailProperties, EmptySeq DEF HubTypes, LoopTypes
<1>2. /\ i \in Slots /\ fd_A[i] = Free
      /\ \A j \in Slots : fd_A'[j] = IF j = i THEN s ELSE fd_A[j]
  BY DEF FreeSlots, HubTypes, LoopTypes
<1>3. s = backlog[1] \/ (s = Invalid /\ link[backlog[1]] = "reset")
  BY <1>1
<1>4. \A m \in 1 .. Len(backlog') : m + 1 \in 1 .. Len(backlog) /\ m + 1 # 1
  BY <1>1
<1>5. 1 \in 1 .. Len(backlog)
  BY <1>1
<1>6. Apart'
  <2>1. ASSUME NEW j \in Slots, NEW k \in Slots, fd_A'[j] \in Clients, fd_A'[j] = fd_A'[k]
        PROVE  j = k
    BY <1>2, <1>3, <1>5, <2>1, HubAssumption DEF Placed, Apart
  <2>2. ASSUME NEW m \in 1 .. Len(backlog'), NEW n \in 1 .. Len(backlog'), backlog'[m] = backlog'[n]
        PROVE  m = n
    <3>1. m + 1 = n + 1
      BY <1>1, <1>4, <2>2 DEF Placed, Apart
    <3> QED
      BY <1>1, <3>1
  <2>3. ASSUME NEW j \in Slots, NEW m \in 1 .. Len(backlog') PROVE fd_A'[j] # backlog'[m]
    <3>1. backlog'[m] = backlog[m + 1] /\ backlog[m + 1] # backlog[1] /\ backlog[m + 1] \in Clients
      BY <1>1, <1>4, <1>5, ElementOfSeq DEF Placed, Apart, HubTypes, LoopTypes
    <3> QED
      BY <1>2, <1>3, <1>4, <3>1, HubAssumption DEF Placed, Apart
  <2> QED
    BY <2>1, <2>2, <2>3 DEF Apart
<1>7. ASSUME NEW c \in Clients, link[c] = "idle" PROVE ~ Somewhere(c)'
  <2>1. ~ Somewhere(c)
    BY <1>7 DEF Placed, Linked
  <2> QED
    BY <1>1, <1>2, <1>3, <1>4, <1>5, <2>1, HubAssumption DEF Somewhere
<1>8. ASSUME NEW c \in Clients, link[c] = "up" PROVE Somewhere(c)'
  <2>1. CASE \E j \in Slots : fd_A[j] = c
    BY <1>2, <2>1, HubAssumption DEF Somewhere
  <2>2. CASE c = backlog[1]
    <3>1. s = c
      BY <1>3, <1>8, <2>2
    <3> QED
      BY <1>2, <3>1 DEF Somewhere
  <2>3. CASE \E m \in 1 .. Len(backlog) : m # 1 /\ backlog[m] = c
    <3>1. PICK m \in 1 .. Len(backlog) : m # 1 /\ backlog[m] = c
      BY <2>3
    <3>2. m - 1 \in 1 .. Len(backlog') /\ backlog'[m - 1] = c
      BY <1>1, <3>1
    <3> QED
      BY <3>2 DEF Somewhere
  <2> QED
    BY <1>8, <2>1, <2>2, <2>3 DEF Placed, Linked, Somewhere
<1> QED
  BY <1>6, <1>7, <1>8 DEF Placed, Linked

\* The slot of a client that is gone is freed.
LEMMA SlotFreedPlaced ==
    ASSUME HubTypes, Placed, NEW i \in Slots, RecvClosed(i)
    PROVE  Placed'
<1> USE DEF RecvClosed
<1>1. /\ fd_A[i] \in Clients /\ link[fd_A[i]] # "up" /\ UNCHANGED <<backlog, link, pc, running>>
      /\ \A j \in Slots : fd_A'[j] = IF j = i THEN Free ELSE fd_A[j]
  BY DEF Reached, First, HubTypes, LoopTypes, tableVars, clientVars
<1>2. Apart'
  BY <1>1, HubAssumption, ElementOfSeq DEF Placed, Apart, HubTypes, LoopTypes
<1>3. \A c \in Clients : c # fd_A[i] => (Somewhere(c)' <=> Somewhere(c))
  BY <1>1, HubAssumption DEF Somewhere
<1>4. \A c \in Clients : Somewhere(c)' => Somewhere(c)
  BY <1>1, HubAssumption DEF Somewhere
<1> QED
  BY <1>1, <1>2, <1>3, <1>4 DEF Placed, Linked, Down

LEMMA StoppedPlaced ==
    ASSUME HubTypes, Placed, NEW dropped, Stopped(dropped)
    PROVE  Placed'
<1> USE DEF Stopped
<1>1. (\A i \in Slots : fd_A'[i] = Free) /\ Len(backlog') = 0 /\ 1 .. 0 = {}
  OBVIOUS
<1>2. \A c \in Clients : ~ Somewhere(c)'
  BY <1>1, HubAssumption DEF Somewhere
<1>3. Down'
  BY DEF Down
<1>4. Apart'
  BY <1>1, HubAssumption DEF Apart
<1> QED
  BY <1>2, <1>3, <1>4 DEF Placed, Linked

LEMMA HubStepPlaced ==
    ASSUME HubTypes, Placed, HubStep
    PROVE  Placed'
<1>1. CASE Select \/ Again
  <2>1. UNCHANGED <<fd_A, backlog, link, running>> /\ pc # "stopped" /\ pc' # "stopped"
    BY <1>1 DEF Select, Again, tableVars, clientVars
  <2> QED
    BY <2>1, StillPlaced DEF Down
<1>2. CASE Accept
  <2> USE <1>2 DEF Accept, Accepting
  <2>1. PICK i \in FreeSlots : fd_A' = [fd_A EXCEPT ![i] = Head(backlog)]
    OBVIOUS
  <2>2. backlog # <<>> /\ ~ Down /\ link' = link /\ backlog' = Tail(backlog)
    BY DEF HubTypes, LoopTypes, Down, clientVars
  <2> QED
    BY <2>1, <2>2, SlotTakenPlaced
<1>3. CASE AcceptFails
  <2> USE <1>3 DEF AcceptFails, Accepting
  <2>1. CASE FreeSlots # {}
    <3>1. PICK i \in FreeSlots : fd_A' = [fd_A EXCEPT ![i] = Invalid]
      BY <2>1
    <3>2. backlog # <<>> /\ ~ Down /\ link' = link /\ backlog' = Tail(backlog)
      BY <2>1 DEF HubTypes, LoopTypes, Down, clientVars
    <3>3. link[Head(backlog)] = "reset"
      OBVIOUS
    <3> QED
      BY <3>1, <3>2, <3>3, SlotTakenPlaced
  <2>2. CASE FreeSlots = {}
    BY <2>2, StoppedPlaced
  <2> QED
    BY <2>1, <2>2
<1>4. CASE AcceptFull \/ SelectFails
  BY <1>4, StoppedPlaced DEF AcceptFull, SelectFails
<1>5. CASE \E i \in Slots : Recv(i)
  <2>1. UNCHANGED <<fd_A, backlog, link, pc>> /\ running
    BY <1>5 DEF Recv, Take, Reached
  <2> QED
    BY <2>1, StillPlaced DEF Down
<1>6. CASE \E i \in Slots : RecvClosed(i)
  BY <1>6, SlotFreedPlaced
<1> QED
  BY <1>1, <1>2, <1>3, <1>4, <1>5, <1>6 DEF HubStep

LEMMA HubNextPlaced ==
    ASSUME HubTypes, Placed, [HubNext]_hubVars
    PROVE  Placed'
<1>1. CASE HubStep
  BY <1>1, HubStepPlaced
<1>2. ASSUME NEW c \in Clients, Connect(c) PROVE Placed'
  BY <1>2, ConnectPlaced
<1>3. ASSUME NEW c \in Clients, Close(c) \/ Reset(c) PROVE Placed'
  <2>1. /\ UNCHANGED <<fd_A, backlog, pc, running>>
        /\ \A d \in Clients : link'[d] \in {"idle", "up"} => link'[d] = link[d]
    BY <1>3 DEF Close, Reset, tableVars, loopVars, HubTypes, ClientTypes
  <2> QED
    BY <2>1, StillPlaced DEF Down
<1>4. ASSUME NEW c \in Clients, NEW op, NEW arg, Ask(c, op, arg) PROVE Placed'
  BY <1>4, StillPlaced DEF Ask, tableVars, loopVars, Down
<1>5. CASE UNCHANGED hubVars
  BY <1>5, StillPlaced DEF hubVars, tableVars, clientVars, loopVars, Down
<1> QED
  BY <1>1, <1>2, <1>3, <1>4, <1>5 DEF HubNext, ClientStep

THEOREM PlacedHolds == HubSpec => []Placed
  BY InitPlaced, HubTypesHold, HubNextPlaced, PTL DEF HubSpec

\* No live connection is ever lost or held twice, for any number of clients and
\* slots and whatever accept and recv make of the others.
THEOREM HubNobodyForgotten == HubSpec => []NobodyForgotten
<1>1. HubTypes /\ Placed => NobodyForgotten
  <2> SUFFICES ASSUME HubTypes, Placed, ~ Down, NEW c \in Clients, link[c] = "up"
               PROVE  Cardinality({i \in DOMAIN backlog : backlog[i] = c}
                                    \cup {<<i>> : i \in {j \in Slots : fd_A[j] = c}}) = 1
    BY DEF NobodyForgotten
  <2> DEFINE waits == {i \in DOMAIN backlog : backlog[i] = c}
             holds == {<<i>> : i \in {j \in Slots : fd_A[j] = c}}
  <2>1. DOMAIN backlog = 1 .. Len(backlog)
    BY LenProperties DEF HubTypes, LoopTypes
  <2>2. CASE \E i \in Slots : fd_A[i] = c
    <3>1. PICK i \in Slots : fd_A[i] = c
      BY <2>2
    <3>2. waits = {}
      BY <2>1, <3>1 DEF Placed, Apart
    <3>3. {j \in Slots : fd_A[j] = c} = {i}
      BY <3>1 DEF Placed, Apart
    <3>4. holds = {<<i>>}
      BY <3>3
    <3>5. waits \cup holds = {<<i>>}
      BY <3>2, <3>4
    <3> QED
      BY <3>5, FS_Singleton
  <2>3. CASE ~ \E i \in Slots : fd_A[i] = c
    <3>1. PICK m \in 1 .. Len(backlog) : backlog[m] = c
      BY <2>3 DEF Placed, Linked, Somewhere
    <3>2. waits = {m}
      BY <2>1, <3>1 DEF Placed, Apart
    <3>3. holds = {}
      BY <2>3
    <3>4. waits \cup holds = {m}
      BY <3>2, <3>3
    <3> QED
      BY <3>4, FS_Singleton
  <2> QED
    BY <2>2, <2>3
<1> QED
  BY <1>1, HubTypesHold, PlacedHolds, PTL

\* Two slots never hold one client: what recv takes off one socket leaves the
\* others as readable as select found them.
LEMMA RecvKeepsOthersReadable ==
    ASSUME HubTypes, Placed, RecvNeverBlocks, NEW i \in Slots, Recv(i)
    PROVE  RecvNeverBlocks'
<1>1. PICK c \in Clients : \E k \in 1 .. Len(stream[c]) : \E rest \in Seq(Piece) :
        \E r \in Readings(c, SubSeq(stream[c], 1, k)) : Takes(i, c, k, rest, r)
  BY RecvShape
<1>0. PICK rest \in Seq(Piece) :
        /\ fd_A[i] = c /\ i \in fdsr /\ fdsr' = fdsr \ {i}
        /\ stream' = [stream EXCEPT ![c] = rest]
        /\ UNCHANGED <<link, fd_A>>
  BY <1>1 DEF Takes
<1>2. ASSUME NEW j \in fdsr' PROVE Readable(fd_A[j])'
  <2>1. j \in fdsr /\ j # i /\ j \in Slots /\ fd_A[j] \in Clients
    BY <1>0 DEF HubTypes, LoopTypes
  <2>2. fd_A[j] # c
    BY <1>0, <2>1 DEF Placed, Apart
  <2>3. stream'[fd_A[j]] = stream[fd_A[j]] /\ fd_A'[j] = fd_A[j] /\ link' = link
    BY <1>0, <2>1, <2>2 DEF HubTypes, ClientTypes
  <2> QED
    BY <2>1, <2>3 DEF RecvNeverBlocks, Readable
<1> QED
  BY <1>2 DEF RecvNeverBlocks

LEMMA ReadableKept ==
    ASSUME HubTypes, Placed, RecvNeverBlocks, [HubNext]_hubVars
    PROVE  RecvNeverBlocks'
<1>0. /\ stream \in [Clients -> Seq(Piece)] /\ DOMAIN link = Clients
      /\ \A i \in fdsr : i \in Slots /\ fd_A[i] \in Clients
      /\ pc # "scan" => fdsr = {}
  BY DEF HubTypes, ClientTypes, LoopTypes
<1>1. CASE Select
  BY <1>1 DEF Select, RecvNeverBlocks, Readable, clientVars
<1>2. ASSUME fdsr' = {} PROVE RecvNeverBlocks'
  BY <1>2 DEF RecvNeverBlocks
<1>3. CASE Again \/ Accept \/ AcceptFails \/ AcceptFull \/ SelectFails
  BY <1>0, <1>2, <1>3 DEF Again, Accept, AcceptFails, AcceptFull, SelectFails, Accepting, Stopped
<1>4. ASSUME NEW i \in Slots, RecvClosed(i) PROVE RecvNeverBlocks'
  <2>1. \A j \in fdsr' : j \in fdsr /\ fd_A'[j] = fd_A[j]
    BY <1>0, <1>4 DEF RecvClosed, HubTypes, LoopTypes
  <2>2. UNCHANGED <<stream, link>>
    BY <1>4 DEF RecvClosed, clientVars
  <2> QED
    BY <2>1, <2>2 DEF RecvNeverBlocks, Readable
<1>5. ASSUME NEW c \in Clients, Connect(c) PROVE RecvNeverBlocks'
  <2>1. \A j \in fdsr : fd_A[j] # c
    BY <1>0, <1>5 DEF Connect, Placed, Linked, Somewhere
  <2>2. /\ fdsr' = fdsr /\ fd_A' = fd_A /\ stream' = stream
        /\ \A d \in Clients : d # c => link'[d] = link[d]
    BY <1>0, <1>5 DEF Connect
  <2> QED
    BY <1>0, <2>1, <2>2 DEF RecvNeverBlocks, Readable
<1>6. ASSUME NEW c \in Clients, Close(c) \/ Reset(c) PROVE RecvNeverBlocks'
  <2>1. /\ fdsr' = fdsr /\ fd_A' = fd_A
        /\ link'[c] # "up"
        /\ \A d \in Clients : d # c => link'[d] = link[d] /\ stream'[d] = stream[d]
    BY <1>0, <1>6 DEF Close, Reset, loopVars
  <2> QED
    BY <1>0, <2>1 DEF RecvNeverBlocks, Readable
<1>7. ASSUME NEW c \in Clients, NEW op, NEW arg, Ask(c, op, arg),
             op \in Ops, arg \in Args(op, c)
      PROVE  RecvNeverBlocks'
  <2>1. PICK new \in Seq(Piece) : stream' = [stream EXCEPT ![c] = @ \o new]
    BY <1>7, AskShape
  <2>2. \A d \in Clients : stream[d] # <<>> => stream'[d] # <<>>
    <3>1. stream[c] # <<>> => stream[c] \o new # <<>>
      BY <1>0, ConcatEqualIffEmpty
    <3> QED
      BY <1>0, <2>1, <3>1
  <2>3. UNCHANGED <<fdsr, fd_A, link>>
    BY <1>7 DEF Ask, loopVars
  <2> QED
    BY <1>0, <2>2, <2>3 DEF RecvNeverBlocks, Readable
<1>8. CASE UNCHANGED hubVars
  BY <1>8 DEF hubVars, clientVars, loopVars, RecvNeverBlocks, Readable
<1> QED
  BY <1>1, <1>3, <1>4, <1>5, <1>6, <1>7, <1>8, RecvKeepsOthersReadable
     DEF HubNext, HubStep, ClientStep

\* The hub's only thread never waits in recv, for any number of clients.
THEOREM HubRecvNeverBlocks == HubSpec => []RecvNeverBlocks
  BY InitPlaced, HubTypesHold, PlacedHolds, ReadableKept, PTL DEF HubSpec

-----------------------------------------------------------------------------
(* The order of requests.  InOrderAtMostOnce rests on the streams: a tag    *)
(* still to be received belongs to a later request than all that stands     *)
(* before it, and than every request handled.                               *)

Ascending(s) ==
    \A i, j \in 1 .. Len(s) : i < j /\ s[j].part = "tag" => s[i].n < s[j].n

OrderedAt(waiting, done) ==
    /\ Ascending(waiting)
    /\ \A i \in 1 .. Len(done) : \A j \in 1 .. Len(waiting) :
         waiting[j].part = "tag" => done[i] < waiting[j].n
    /\ \A i, j \in 1 .. Len(done) : i < j => done[i] < done[j]

Ordered == \A c \in Clients : OrderedAt(stream[c], handled[c])

LEMMA InitOrdered == HubInit => Ordered
<1> SUFFICES ASSUME HubInit, NEW c \in Clients
             PROVE  stream[c] = <<>> /\ handled[c] = <<>>
  BY DEF Ordered, OrderedAt, Ascending
<1> QED
  BY DEF HubInit

\* A new request has the highest number so far, and one tag, at its start.
LEMMA AskOrdered ==
    ASSUME HubTypes, Ordered,
           NEW c \in Clients, NEW op \in Ops, NEW arg \in Args(op, c),
           Ask(c, op, arg)
    PROVE  Ordered'
<1> DEFINE n == Len(requests[c]) + 1
<1>1. PICK new \in Seq(Piece) :
        /\ stream' = [stream EXCEPT ![c] = @ \o new]
        /\ \A i \in 1 .. Len(new) : new[i].n = n /\ (new[i].part = "tag" => i = 1)
  BY AskShape
<1>2. /\ stream[c] \in Seq(Piece) /\ Len(stream[c]) \in Nat /\ Len(new) \in Nat
      /\ Len(requests[c]) \in Nat
  BY DEF HubTypes, ClientTypes
<1> DEFINE both == stream[c] \o new
<1>3. /\ both \in Seq(Piece)
      /\ Len(both) = Len(stream[c]) + Len(new)
      /\ \A i \in 1 .. Len(both) :
           both[i] = IF i <= Len(stream[c]) THEN stream[c][i] ELSE new[i - Len(stream[c])]
  BY <1>2, ConcatProperties
<1>4. /\ \A i \in 1 .. Len(stream[c]) : stream[c][i].n \in 1 .. Len(requests[c])
      /\ \A i \in 1 .. Len(handled[c]) : handled[c][i] \in 1 .. Len(requests[c])
  BY DEF HubTypes, ClientTypes, HistoryTypes
<1>5. handled' = handled /\ stream'[c] = both
      /\ \A d \in Clients : d # c => stream'[d] = stream[d]
  BY <1>1 DEF Ask, ghostVars, HubTypes, ClientTypes
<1> HIDE DEF both
\* A tag of the new stream is an old one, or the first of the new pieces.
<1>6. ASSUME NEW j \in 1 .. Len(both), both[j].part = "tag"
      PROVE  \/ j \in 1 .. Len(stream[c]) /\ both[j] = stream[c][j]
             \/ j = Len(stream[c]) + 1 /\ both[j].n = n
  <2>1. CASE j <= Len(stream[c])
    BY <1>2, <1>3, <2>1
  <2>2. CASE ~ (j <= Len(stream[c]))
    <3>1. j - Len(stream[c]) \in 1 .. Len(new) /\ both[j] = new[j - Len(stream[c])]
      BY <1>2, <1>3, <2>2
    <3>2. j - Len(stream[c]) = 1 /\ both[j].n = n
      BY <1>1, <1>6, <3>1
    <3> QED
      BY <1>2, <3>2
  <2> QED
    BY <2>1, <2>2
<1>7. Ascending(both)
  <2> SUFFICES ASSUME NEW i \in 1 .. Len(both), NEW j \in 1 .. Len(both),
                      i < j, both[j].part = "tag"
               PROVE  both[i].n < both[j].n
    BY DEF Ascending
  <2>1. i \in 1 .. Len(stream[c]) /\ both[i] = stream[c][i]
    BY <1>2, <1>3, <1>6
  <2>2. CASE j \in 1 .. Len(stream[c]) /\ both[j] = stream[c][j]
    BY <2>1, <2>2 DEF Ordered, OrderedAt, Ascending
  <2>3. CASE both[j].n = n
    BY <1>2, <1>4, <2>1, <2>3
  <2> QED
    BY <1>6, <2>2, <2>3
<1>8. ASSUME NEW i \in 1 .. Len(handled[c]), NEW j \in 1 .. Len(both), both[j].part = "tag"
      PROVE  handled[c][i] < both[j].n
  <2>1. CASE j \in 1 .. Len(stream[c]) /\ both[j] = stream[c][j]
    BY <1>8, <2>1 DEF Ordered, OrderedAt
  <2>2. CASE both[j].n = n
    BY <1>2, <1>4, <2>2
  <2> QED
    BY <1>6, <1>8, <2>1, <2>2
<1>9. OrderedAt(both, handled[c])
  BY <1>7, <1>8 DEF Ordered, OrderedAt
<1>10. \A d \in Clients : d # c => OrderedAt(stream[d], handled[d])
  BY DEF Ordered
<1> QED
  BY <1>5, <1>9, <1>10 DEF Ordered

\* What recv leaves is a suffix, and what is handled stood at its front.
LEMMA RecvOrdered ==
    ASSUME HubTypes, Ordered, NEW i \in Slots, Recv(i)
    PROVE  Ordered'
<1>1. PICK c \in Clients : \E k \in 1 .. Len(stream[c]) : \E rest \in Seq(Piece) :
        \E r \in Readings(c, SubSeq(stream[c], 1, k)) : Takes(i, c, k, rest, r)
  BY RecvShape
<1>2. PICK k \in 1 .. Len(stream[c]), rest \in Seq(Piece) :
        /\ stream' = [stream EXCEPT ![c] = rest]
        /\ Len(rest) = Len(stream[c]) - k
        /\ \A j \in 1 .. Len(rest) : rest[j] = stream[c][j + k]
        /\ \/ handled' = handled
           \/ /\ stream[c][1].part = "tag"
              /\ handled' = [handled EXCEPT ![c] = Append(@, stream[c][1].n)]
  BY <1>1 DEF Takes
<1>3. /\ Len(stream[c]) \in Nat /\ Len(rest) \in Nat
      /\ handled[c] \in Seq(Nat) /\ Len(handled[c]) \in Nat
      /\ stream[c][1].n \in Nat
      /\ DOMAIN stream = Clients /\ DOMAIN handled = Clients
  <2>1. stream[c] \in Seq(Piece) /\ Len(stream[c]) \in Nat /\ 1 \in 1 .. Len(stream[c])
    BY <1>2 DEF HubTypes, ClientTypes
  <2>2. stream[c][1] \in Piece
    BY <2>1, ElementOfSeq
  <2> QED
    BY <2>1, <2>2 DEF Piece, HubTypes, ClientTypes, HistoryTypes
<1>4. \A j \in 1 .. Len(rest) : j + k \in 1 .. Len(stream[c]) /\ j + k > 1
  BY <1>2, <1>3
<1>5. stream'[c] = rest /\ \A d \in Clients : d # c => stream'[d] = stream[d]
  BY <1>2, <1>3
<1>6. Ascending(rest)
  <2> SUFFICES ASSUME NEW l \in 1 .. Len(rest), NEW m \in 1 .. Len(rest),
                      l < m, rest[m].part = "tag"
               PROVE  rest[l].n < rest[m].n
    BY DEF Ascending
  <2>1. rest[l] = stream[c][l + k] /\ rest[m] = stream[c][m + k]
    BY <1>2
  <2>2. l + k < m + k /\ l + k \in 1 .. Len(stream[c]) /\ m + k \in 1 .. Len(stream[c])
    BY <1>3, <1>4
  <2> QED
    BY <2>1, <2>2 DEF Ordered, OrderedAt, Ascending
<1>7. \A m \in 1 .. Len(handled[c]) : \A j \in 1 .. Len(rest) :
        rest[j].part = "tag" => handled[c][m] < rest[j].n
  <2>1. OrderedAt(stream[c], handled[c])
    BY DEF Ordered
  <2> QED
    BY <1>2, <1>4, <2>1 DEF OrderedAt
<1>0. \A d \in Clients : d # c => OrderedAt(stream[d], handled[d])
  BY DEF Ordered
<1>8. CASE handled' = handled
  <2>1. OrderedAt(rest, handled[c])
    BY <1>6, <1>7 DEF Ordered, OrderedAt
  <2> QED
    BY <1>0, <1>5, <1>8, <2>1 DEF Ordered
<1>9. CASE /\ stream[c][1].part = "tag"
           /\ handled' = [handled EXCEPT ![c] = Append(@, stream[c][1].n)]
  <2> DEFINE n    == stream[c][1].n
             more == Append(handled[c], n)
  <2>1. handled'[c] = more /\ \A d \in Clients : d # c => handled'[d] = handled[d]
    BY <1>3, <1>9
  <2>2. /\ Len(more) = Len(handled[c]) + 1
        /\ \A m \in 1 .. Len(handled[c]) : more[m] = handled[c][m]
        /\ more[Len(handled[c]) + 1] = n
    BY <1>3, AppendProperties
  <2>3. 1 \in 1 .. Len(stream[c])
    BY <1>2, <1>3
  <2>4. \A m \in 1 .. Len(handled[c]) : handled[c][m] < n
    BY <1>9, <2>3 DEF Ordered, OrderedAt
  <2>5. \A j \in 1 .. Len(rest) : rest[j].part = "tag" => n < rest[j].n
    BY <1>2, <1>4, <2>3 DEF Ordered, OrderedAt, Ascending
  <2> HIDE DEF n, more
  <2>0. \A m \in 1 .. Len(more) : m \in 1 .. Len(handled[c]) \/ m = Len(handled[c]) + 1
    BY <1>3, <2>2
  <2>6. \A m \in 1 .. Len(more) : \A j \in 1 .. Len(rest) :
          rest[j].part = "tag" => more[m] < rest[j].n
    BY <1>7, <2>0, <2>2, <2>5
  <2>7. ASSUME NEW l \in 1 .. Len(more), NEW m \in 1 .. Len(more), l < m
        PROVE  more[l] < more[m]
    <3>0. Len(handled[c]) \in Nat /\ Len(more) = Len(handled[c]) + 1
      BY <1>3, <2>2
    <3>a. l \in 1 .. Len(handled[c])
      BY <2>7, <3>0
    <3>1. l \in 1 .. Len(handled[c]) /\ more[l] = handled[c][l]
      BY <2>2, <3>a
    <3>2. CASE m = Len(handled[c]) + 1
      BY <2>2, <2>4, <3>1, <3>2
    <3>3. CASE m # Len(handled[c]) + 1
      <4>1. m \in 1 .. Len(handled[c]) /\ more[m] = handled[c][m]
        BY <1>3, <2>2, <3>3
      <4> QED
        BY <2>7, <3>1, <4>1 DEF Ordered, OrderedAt
    <3> QED
      BY <3>2, <3>3
  <2>8. OrderedAt(rest, more)
    BY <1>6, <2>6, <2>7 DEF OrderedAt
  <2> QED
    BY <1>0, <1>5, <2>1, <2>8 DEF Ordered
<1> QED
  BY <1>2, <1>8, <1>9

LEMMA HubNextOrdered ==
    ASSUME HubTypes, Ordered, [HubNext]_hubVars
    PROVE  Ordered'
<1>1. ASSUME UNCHANGED <<stream, handled>> PROVE Ordered'
  BY <1>1 DEF Ordered, OrderedAt, Ascending
<1>2. ASSUME NEW c \in Clients, Reset(c) PROVE Ordered'
  <2>1. handled' = handled /\ \A d \in Clients : stream'[d] = IF d = c THEN <<>> ELSE stream[d]
    BY <1>2 DEF Reset, ghostVars, HubTypes, ClientTypes
  <2>2. OrderedAt(<<>>, handled[c])
    BY DEF Ordered, OrderedAt, Ascending
  <2>3. \A d \in Clients : OrderedAt(stream'[d], handled'[d])
    BY <2>1, <2>2 DEF Ordered
  <2> QED
    BY <2>3 DEF Ordered
<1>3. CASE Select \/ Again \/ Accept \/ AcceptFails \/ AcceptFull \/ SelectFails
  BY <1>1, <1>3 DEF Select, Again, Accept, AcceptFails, AcceptFull, SelectFails, Stopped,
                    clientVars, ghostVars
<1>4. ASSUME NEW i \in Slots, RecvClosed(i) PROVE Ordered'
  BY <1>1, <1>4 DEF RecvClosed, clientVars, ghostVars
<1>5. ASSUME NEW c \in Clients, Connect(c) \/ Close(c) PROVE Ordered'
  BY <1>1, <1>5 DEF Connect, Close, ghostVars
<1>6. CASE UNCHANGED hubVars
  BY <1>1, <1>6 DEF hubVars, clientVars, ghostVars
<1> QED
  BY <1>2, <1>3, <1>4, <1>5, <1>6, AskOrdered, RecvOrdered
     DEF HubNext, HubStep, ClientStep

\* Each client's requests are handled in the order it made them and at most once,
\* however many it makes and however TCP cuts and joins them.
THEOREM HubInOrderAtMostOnce == HubSpec => []InOrderAtMostOnce
<1>1. HubTypes /\ Ordered => InOrderAtMostOnce
  <2> SUFFICES ASSUME HubTypes, Ordered, NEW c \in Clients
               PROVE  \A i, j \in DOMAIN handled[c] : i < j => handled[c][i] < handled[c][j]
    BY DEF InOrderAtMostOnce
  <2>1. DOMAIN handled[c] = 1 .. Len(handled[c])
    BY LenProperties DEF HubTypes, HistoryTypes
  <2> QED
    BY <2>1 DEF Ordered, OrderedAt
<1> QED
  BY <1>1, InitOrdered, HubTypesHold, HubNextOrdered, PTL DEF HubSpec
=============================================================================
