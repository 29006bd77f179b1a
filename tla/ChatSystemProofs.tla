-------------------------- MODULE ChatSystemProofs --------------------------
(***************************************************************************)
(* From a client's request to another client's listener, for any clients,  *)
(* scripts, slots and cuts of the streams: the order of data, and who can  *)
(* receive whose data.  The hub's own invariants carry over, since every   *)
(* step of the system is one of the hub or a client's.                     *)
(***************************************************************************)
EXTENDS ChatSystem, HubServerProofs

Letter == [from : Clients, n : Nat]

\* The guest the hub takes is the one asked for, one whose name begins that name,
\* or nobody.
InvitedTypes ==
    \A v \in invited :
        /\ v.by \in Clients /\ v.guest \in Names
        /\ v.taken \in {v.guest, NoName} \cup NameCuts[v.guest]

ChatTypes ==
    /\ script \in Scripts
    /\ mail \in [Clients -> Seq(Letter)]
    /\ InvitedTypes
    /\ misplaced \in BOOLEAN /\ strayed \in BOOLEAN

\* What is proved of the hub alone.
Hub == HubTypes /\ Ordered /\ TypeOK /\ RouteSound

\* The n-th request of c is read as r: a field behind a name that was cut is missing.
ReadAs(c, n, r) ==
    LET arg == requests[c][n].arg
    IN  /\ r.op = requests[c][n].op /\ Handled(r) /\ r.op # "other"
        /\ r.op = "login" => r.name = NameOf[c] \/ r.second = ZeroPort
        /\ r.op = "data" => r.name = NameOf[c] \/ r.second = NoData
        /\ r.op = "invite" => /\ r.name = NameOf[c] \/ r.second = NoName
                              /\ arg \in Names
                              /\ r.second \in {arg, NoName} \cup NameCuts[arg]

\* The hub handles the n-th request of c, read as r.
Handles(c, n, r) ==
    LET arg == requests[c][n].arg
    IN  /\ ReadAs(c, n, r) /\ Dispatch(r)
        /\ handled' = [handled EXCEPT ![c] = Append(@, n)]
        /\ mail' = [g \in Clients |->
              IF /\ sent'.kind = "data" /\ sent'.body # NoData
                 /\ g \in Addressees(sent'.host, sent'.port)
                THEN Append(mail[g], [from |-> c, n |-> n]) ELSE mail[g]]
        /\ invited' = invited \cup
              (IF r.op = "invite" THEN {[by |-> c, guest |-> arg, taken |-> r.second]} ELSE {})
        /\ logged' = logged \cup (IF r.op = "login" THEN {c} ELSE {})
        /\ known' = known \cup (IF r.op = "login" /\ r.name = NameOf[c] THEN {c} ELSE {})
        /\ whole' = (r.name = NameOf[c] /\ r.second = arg)
        /\ misplaced' = \/ misplaced
                        \/ /\ r.op = "login"
                           /\ \/ client_addr # HostOf[c]
                              \/ Addressees(client_addr, r.second) \ {c} # {}
        /\ running /\ served' = c /\ client_addr \in Hosts
        /\ UNCHANGED <<script, strayed, requests, client_addr>>

\* Requests are added to, never changed.
RequestsKept ==
    \A c \in Clients : \A n \in 1 .. Len(requests[c]) :
        n \in 1 .. Len(requests'[c]) /\ requests'[c][n] = requests[c][n]

\* A step that handles no request.
Idles ==
    /\ UNCHANGED <<g_UserList, running, handled, chatVars>>
    /\ running \/ UNCHANGED <<served, client_addr>>
    /\ RequestsKept

\* A step in which a handler is run on bytes behind a request's own tag.
Wanders ==
    /\ strayed' /\ UNCHANGED <<script, mail, invited, misplaced, handled, requests>>

-----------------------------------------------------------------------------
(* The steps.                                                              *)

\* A name is cut only where the chunk ends, so that nothing behind it is read.
LEMMA OwnReading ==
    ASSUME HubTypes, NEW c \in Clients, NEW chunk,
           Head(chunk).n \in 1 .. Len(requests[c]), NEW r \in Readings(c, chunk), r.own
    PROVE  ReadAs(c, Head(chunk).n, r)
<1> DEFINE n       == Head(chunk).n
           parts   == {chunk[i].part : i \in {j \in DOMAIN chunk : chunk[j].n = n}}
           request == requests[c][n]
<1>1. Tagged(chunk) /\ Handled(r)
  BY ReadingShape, ReadingTypes
<1>2. /\ r.op = request.op
      /\ r.name \in (IF request.op = "list" THEN {NoName} ELSE NamesRead(c, parts))
      /\ r.second \in SecondsRead(c, n, parts)
  <2> HIDE DEF n, parts, request
  <2>1. r \in Read(TRUE, request.op,
                   IF request.op = "list" THEN {NoName} ELSE NamesRead(c, parts),
                   SecondsRead(c, n, parts))
    BY <1>1 DEF Readings, n, parts, request
  <2> QED
    BY <2>1 DEF Read
<1>3. /\ request.op \in {"login", "list", "invite", "data", "exit"}
      /\ request.op = "invite" => request.arg \in Names
  <2>1. request \in Request /\ request.arg \in Args(request.op, c)
    BY ElementOfSeq DEF HubTypes, ClientTypes
  <2> QED
    BY <2>1, HubAssumption DEF Request, Args
<1> HIDE DEF parts
<1>4. CASE ~ (parts \subseteq {"tag", "name"})
  <2>1. request.op # "list" => r.name = NameOf[c]
    BY <1>2, <1>4 DEF NamesRead
  <2>2. request.op = "invite" => r.second \in {request.arg, NoName} \cup NameCuts[request.arg]
    BY <1>2 DEF SecondsRead, n
  <2> QED
    BY <1>1, <1>2, <1>3, <2>1, <2>2 DEF ReadAs, n
<1>5. CASE parts \subseteq {"tag", "name"}
  <2>1. "second" \notin parts /\ "secondrest" \notin parts
    BY <1>5
  <2>2. /\ request.op = "login" => r.second = ZeroPort
        /\ request.op = "data" => r.second = NoData
        /\ request.op = "invite" => r.second = NoName
    BY <1>2, <2>1 DEF SecondsRead, n
  <2> QED
    BY <1>1, <1>2, <1>3, <2>2 DEF ReadAs, n
<1> QED
  BY <1>4, <1>5

LEMMA HandlingShape ==
    ASSUME HubTypes, ChatTypes, NEW i \in Slots, Reached(i),
           NEW k \in 1 .. Len(stream[fd_A[i]]), NEW r \in Readings(fd_A[i], Chunk(i, k)),
           Take(i, k, r), Note(fd_A[i], r)
    PROVE  \/ Idles \/ Wanders
           \/ \E c \in Clients : \E n \in 1 .. Len(requests[c]) : Handles(c, n, r)
<1> DEFINE c == fd_A[i]
           n == stream[c][1].n
<1>1. /\ running /\ i \in fdsr /\ c \in Clients /\ client_addr \in Hosts
      /\ stream[c] \in Seq(Piece) /\ Len(stream[c]) \in Nat
  BY LenProperties DEF Reached, First, HubTypes, LoopTypes, ClientTypes
<1>2. /\ Dispatch(r) /\ served' = c /\ UNCHANGED <<requests, client_addr>>
      /\ handled' = IF r.own THEN [handled EXCEPT ![c] = Append(@, Head(stream[c]).n)]
                             ELSE handled
  BY DEF Take
<1>3. Head(Chunk(i, k)) = stream[c][1] /\ Head(stream[c]) = stream[c][1]
      /\ n \in 1 .. Len(requests[c])
  <2>1. 1 \in 1 .. Len(stream[c]) /\ k \in 1 .. Len(stream[c])
    BY <1>1
  <2> QED
    BY <1>1, <2>1, HeadTailOfSubSeq DEF Chunk, HubTypes, ClientTypes
<1>4. RequestsKept
  BY <1>2 DEF RequestsKept
<1>5. CASE ~ r.own
  <2>1. /\ handled' = handled /\ strayed' = (strayed \/ r.op # "other")
        /\ UNCHANGED <<script, mail, invited, logged, known, whole, misplaced>>
    BY <1>2, <1>5 DEF Note
  <2>2. CASE r.op = "other"
    <3>1. UNCHANGED <<g_UserList, running>>
      BY <1>2, <2>2 DEF Dispatch, AskOther, Quiet
    <3>2. strayed' = strayed
      BY <2>1, <2>2 DEF ChatTypes
    <3> QED
      BY <1>1, <1>4, <2>1, <3>1, <3>2 DEF Idles, chatVars
  <2>3. CASE r.op # "other"
    BY <1>2, <2>1, <2>3 DEF Wanders
  <2> QED
    BY <2>2, <2>3
<1>6. CASE r.own
  <2>1. ReadAs(c, n, r)
    BY <1>1, <1>3, <1>6, OwnReading
  <2>2. handled' = [handled EXCEPT ![c] = Append(@, n)]
    BY <1>2, <1>3, <1>6
  <2> HIDE DEF n, c
  <2>3. Head(stream[c]).n = n
    BY <1>3 DEF n
  <2>4. Note(c, r)
    BY DEF c
  <2>5. Handles(c, n, r)
    BY <1>1, <1>2, <1>6, <2>1, <2>2, <2>3, <2>4 DEF Note, Handles
  <2> QED
    BY <1>1, <1>3, <2>5
<1> QED
  BY <1>5, <1>6

\* A client's own step adds a request to its stream, and nothing else.
LEMMA NextRequestKeeps ==
    ASSUME Hub, ChatTypes, NEW c \in Clients, NextRequest(c)
    PROVE  HubTypes' /\ Ordered' /\ UNCHANGED tableVars /\ Idles
<1> DEFINE k == Len(requests[c]) + 1
           r == script[c][k]
           Asks == UNION {[op : {op}, arg : Args(op, c)] : op \in Ops}
<1>1. Ask(c, r.op, r.arg) /\ UNCHANGED chatVars /\ Len(requests[c]) < Len(script[c])
  BY DEF NextRequest
<1>2. r.op \in Ops /\ r.arg \in Args(r.op, c)
  <2>1. script[c] \in Seq(Asks) /\ Len(script[c]) \in Nat
    <3>1. script[c] \in Seq(Asks)
      BY ChatAssumption DEF ChatTypes
    <3> HIDE DEF Asks
    <3> QED
      BY <3>1, LenProperties
  <2>2. Len(requests[c]) \in Nat
    BY LenProperties DEF Hub, HubTypes, ClientTypes
  <2>3. k \in 1 .. Len(script[c])
    BY <1>1, <2>1, <2>2
  <2>4. r \in Asks
    <3> HIDE DEF Asks, k
    <3> QED
      BY <2>1, <2>3, ElementOfSeq
  <2>5. PICK op \in Ops : r \in [op : {op}, arg : Args(op, c)]
    BY <2>4
  <2> QED
    BY <2>5
<1> HIDE DEF r, Asks
<1>3. HubTypes' /\ Ordered'
  BY <1>1, <1>2, AskKeepsTypes, AskOrdered DEF Hub
<1>4. RequestsKept
  <2> DEFINE q == [op |-> r.op, arg |-> r.arg]
  <2>1. requests \in [Clients -> Seq(Request)] /\ q \in Request
    BY <1>2, ArgsAreWords DEF Hub, HubTypes, ClientTypes, Request
  <2>2. requests' = [requests EXCEPT ![c] = Append(@, q)]
    BY <1>1 DEF Ask
  <2> HIDE DEF q
  <2>3. requests[c] \in Seq(Request) /\ requests'[c] = Append(requests[c], q)
    BY <2>1, <2>2
  <2>4. /\ Len(requests'[c]) = Len(requests[c]) + 1 /\ Len(requests[c]) \in Nat
        /\ \A n \in 1 .. Len(requests[c]) : requests'[c][n] = requests[c][n]
    BY <2>1, <2>3, AppendProperties, LenProperties
  <2>5. \A d \in Clients : d # c => requests'[d] = requests[d]
    BY <2>1, <2>2
  <2> QED
    BY <2>4, <2>5 DEF RequestsKept
<1> QED
  BY <1>1, <1>3, <1>4 DEF Ask, Idles, tableVars, ghostVars, loopVars

\* Every other step is one of the hub, or one of a client's connection.
LEMMA OthersAreHubs ==
    ASSUME Handling \/ Looping \/ Linking
    PROVE  HubNext
<1>1. CASE Handling
  <2>1. PICK i \in Slots :
          /\ Reached(i)
          /\ \E k \in 1 .. Len(stream[fd_A[i]]) :
               \E r \in Readings(fd_A[i], Chunk(i, k)) : Take(i, k, r) /\ Note(fd_A[i], r)
    BY <1>1 DEF Handling
  <2>2. Recv(i)
    BY <2>1 DEF Recv
  <2> QED
    BY <2>2 DEF HubNext, HubStep
<1>2. CASE Looping \/ Linking
  BY <1>2 DEF Looping, Linking, HubNext, HubStep, ClientStep
<1> QED
  BY <1>1, <1>2

LEMMA HubKept ==
    ASSUME Hub, ChatTypes, [ChatNext]_systemVars
    PROVE  Hub' /\ [Next]_vars
<1>1. CASE Handling \/ Looping \/ Linking \/ UNCHANGED systemVars
  <2>1. [HubNext]_hubVars
    BY <1>1, OthersAreHubs DEF systemVars
  <2>2. HubTypes' /\ Ordered' /\ [Next]_vars
    BY <2>1, HubNextKeepsTypes, HubNextOrdered, HubStepIsTableStep DEF Hub
  <2> QED
    BY <2>2, TypeStep, RouteStep DEF Hub
<1>2. ASSUME NEW c \in Clients, NextRequest(c) PROVE Hub' /\ [Next]_vars
  <2>1. HubTypes' /\ Ordered' /\ UNCHANGED vars
    BY <1>2, NextRequestKeeps DEF vars, tableVars
  <2>2. [Next]_vars
    BY <2>1
  <2> QED
    BY <2>1, <2>2, TypeStep, RouteStep DEF Hub
<1> QED
  BY <1>1, <1>2 DEF ChatNext

\* A step handles a request of a client, wanders, or leaves the list and the
\* history alone.
LEMMA ChatStepShape ==
    ASSUME Hub, ChatTypes, [ChatNext]_systemVars
    PROVE  /\ ChatTypes'
           /\ \/ Idles \/ Wanders
              \/ \E c \in Clients : \E n \in 1 .. Len(requests[c]) : \E r : Handles(c, n, r)
<1>1. ASSUME UNCHANGED chatVars PROVE ChatTypes'
  BY <1>1 DEF ChatTypes, InvitedTypes, chatVars
<1>2. ASSUME requests' = requests PROVE RequestsKept
  BY <1>2 DEF RequestsKept
<1>3. CASE Handling
  <2>1. PICK i \in Slots :
          /\ Reached(i)
          /\ \E k \in 1 .. Len(stream[fd_A[i]]) :
               \E r \in Readings(fd_A[i], Chunk(i, k)) : Take(i, k, r) /\ Note(fd_A[i], r)
    BY <1>3 DEF Handling
  <2>2. PICK k \in 1 .. Len(stream[fd_A[i]]) :
          \E r \in Readings(fd_A[i], Chunk(i, k)) : Take(i, k, r) /\ Note(fd_A[i], r)
    BY <2>1
  <2>3. PICK r \in Readings(fd_A[i], Chunk(i, k)) : Take(i, k, r) /\ Note(fd_A[i], r)
    BY <2>2
  <2>4. CASE Idles
    BY <1>1, <2>4 DEF Idles
  <2>5. CASE Wanders
    BY <2>5 DEF Wanders, ChatTypes, InvitedTypes
  <2>6. CASE \E c \in Clients : \E n \in 1 .. Len(requests[c]) : Handles(c, n, r)
    <3>a. PICK c \in Clients : \E n \in 1 .. Len(requests[c]) : Handles(c, n, r)
      BY <2>6
    <3>1. PICK n \in 1 .. Len(requests[c]) : Handles(c, n, r)
      BY <3>a
    <3>2. [from |-> c, n |-> n] \in Letter
      BY DEF Letter
    <3>3. \A g \in Clients : Append(mail[g], [from |-> c, n |-> n]) \in Seq(Letter)
      BY <3>2, AppendProperties DEF ChatTypes
    <3>4. mail' \in [Clients -> Seq(Letter)]
      BY <3>1, <3>3 DEF Handles, ChatTypes
    <3>5. InvitedTypes'
      BY <3>1 DEF Handles, ReadAs, ChatTypes, InvitedTypes
    <3>6. ChatTypes'
      BY <3>1, <3>4, <3>5 DEF Handles, ChatTypes
    <3> QED
      BY <3>1, <3>6
  <2> QED
    BY <2>1, <2>3, <2>4, <2>5, <2>6, HandlingShape DEF Hub
<1>4. CASE Looping
  <2>1. /\ UNCHANGED <<g_UserList, running, handled, requests, served>>
        /\ running \/ UNCHANGED client_addr
    BY <1>4 DEF Looping, Select, Again, Accept, AcceptFails, AcceptFull, SelectFails, Accepting,
                RecvClosed, Stopped, tableVars, ghostVars, clientVars
  <2>2. UNCHANGED chatVars
    BY <1>4 DEF Looping
  <2> QED
    BY <1>1, <1>2, <2>1, <2>2 DEF Idles
<1>5. CASE Linking
  <2>1. UNCHANGED <<g_UserList, running, handled, requests, served, client_addr>>
    BY <1>5 DEF Linking, Connect, Close, Reset, tableVars, ghostVars, loopVars
  <2>2. UNCHANGED chatVars
    BY <1>5 DEF Linking
  <2> QED
    BY <1>1, <1>2, <2>1, <2>2 DEF Idles
<1>6. ASSUME NEW c \in Clients, NextRequest(c)
      PROVE  ChatTypes' /\ Idles
  BY <1>1, <1>6, NextRequestKeeps DEF Idles
<1>7. CASE UNCHANGED systemVars
  <2>1. UNCHANGED <<hubVars, chatVars>>
    BY <1>7 DEF systemVars
  <2>2. UNCHANGED <<g_UserList, running, handled, requests, served, client_addr>>
    BY <2>1 DEF hubVars, tableVars, ghostVars, clientVars, loopVars
  <2> QED
    BY <1>1, <1>2, <2>1, <2>2 DEF Idles
<1> QED
  BY <1>3, <1>4, <1>5, <1>6, <1>7 DEF ChatNext

LEMMA InitChat == ChatInit => Hub /\ ChatTypes
<1> SUFFICES ASSUME ChatInit PROVE Hub /\ ChatTypes
  OBVIOUS
<1>1. HubTypes /\ Ordered
  BY InitTypes, InitOrdered DEF ChatInit
<1>2. TypeOK /\ RouteSound
  BY DEF ChatInit, HubInit, Init, TypeOK, RouteSound
<1>3. ChatTypes
  <2>1. <<>> \in Seq(Letter)
    OBVIOUS
  <2>2. mail \in [Clients -> Seq(Letter)]
    BY <2>1 DEF ChatInit
  <2>3. misplaced \in BOOLEAN /\ strayed \in BOOLEAN /\ script \in Scripts /\ InvitedTypes
    BY DEF ChatInit, InvitedTypes
  <2> QED
    BY <2>2, <2>3 DEF ChatTypes
<1> QED
  BY <1>1, <1>2, <1>3 DEF Hub

THEOREM ChatTypesHold == ChatSpec => [](Hub /\ ChatTypes)
<1>1. Hub /\ ChatTypes /\ [ChatNext]_systemVars => (Hub /\ ChatTypes)'
  BY HubKept, ChatStepShape
<1> QED
  BY <1>1, InitChat, PTL DEF ChatSpec

-----------------------------------------------------------------------------
(* The order of data.                                                      *)

\* Every letter is of a request that was handled.
WasHandled(c, n) == \E m \in 1 .. Len(handled[c]) : handled[c][m] = n

MailHandled ==
    \A g \in Clients : \A k \in 1 .. Len(mail[g]) :
        WasHandled(mail[g][k].from, mail[g][k].n)

MailOrdered ==
    \A g \in Clients : \A j, k \in 1 .. Len(mail[g]) :
        j < k /\ mail[g][j].from = mail[g][k].from => mail[g][j].n < mail[g][k].n

\* The mailbox of g after the n-th request of c was handled.
Delivered(g, c, n) ==
    /\ sent'.kind = "data" /\ sent'.body # NoData /\ g \in Addressees(sent'.host, sent'.port)
    /\ Len(mail'[g]) = Len(mail[g]) + 1
    /\ \A k \in 1 .. Len(mail[g]) : mail'[g][k] = mail[g][k]
    /\ mail'[g][Len(mail[g]) + 1] = [from |-> c, n |-> n]

LEMMA MailAfter ==
    ASSUME ChatTypes, NEW c \in Clients, NEW n \in Nat, NEW r, Handles(c, n, r),
           NEW g \in Clients
    PROVE  /\ mail[g] \in Seq(Letter) /\ Len(mail[g]) \in Nat
           /\ \/ mail'[g] = mail[g]
              \/ Delivered(g, c, n)
<1>1. mail[g] \in Seq(Letter) /\ Len(mail[g]) \in Nat
  BY LenProperties DEF ChatTypes
<1>2. [from |-> c, n |-> n] \in Letter
  BY DEF Letter
<1>3. mail'[g] = IF /\ sent'.kind = "data" /\ sent'.body # NoData
                   /\ g \in Addressees(sent'.host, sent'.port)
                   THEN Append(mail[g], [from |-> c, n |-> n]) ELSE mail[g]
  BY DEF Handles
<1>4. /\ Len(Append(mail[g], [from |-> c, n |-> n])) = Len(mail[g]) + 1
      /\ \A k \in 1 .. Len(mail[g]) : Append(mail[g], [from |-> c, n |-> n])[k] = mail[g][k]
      /\ Append(mail[g], [from |-> c, n |-> n])[Len(mail[g]) + 1] = [from |-> c, n |-> n]
  BY <1>1, <1>2, AppendProperties
<1> QED
  BY <1>1, <1>3, <1>4 DEF Delivered

LEMMA MailStep ==
    ASSUME Hub, ChatTypes, MailHandled, MailOrdered, [ChatNext]_systemVars
    PROVE  MailHandled' /\ MailOrdered'
<1>1. CASE Idles \/ Wanders
  <2>1. UNCHANGED <<mail, handled>>
    BY <1>1 DEF Idles, Wanders, chatVars
  <2> QED
    BY <2>1 DEF MailHandled, MailOrdered, WasHandled
<1>2. ASSUME NEW c \in Clients, NEW n \in 1 .. Len(requests[c]), NEW r, Handles(c, n, r)
      PROVE  MailHandled' /\ MailOrdered'
  <2>1. /\ handled[c] \in Seq(Nat) /\ Len(handled[c]) \in Nat /\ n \in Nat
        /\ DOMAIN handled = Clients
    BY LenProperties DEF Hub, HubTypes, HistoryTypes
  <2>2. handled'[c] = Append(handled[c], n)
        /\ \A d \in Clients : d # c => handled'[d] = handled[d]
    BY <1>2, <2>1 DEF Handles
  <2>3. /\ Len(handled'[c]) = Len(handled[c]) + 1
        /\ \A m \in 1 .. Len(handled[c]) : handled'[c][m] = handled[c][m]
        /\ handled'[c][Len(handled[c]) + 1] = n
    BY <2>1, <2>2, AppendProperties
  \* What was handled before has a lower number.
  <2>4. \A m \in 1 .. Len(handled[c]) : handled[c][m] < n
    <3>1. OrderedAt(stream'[c], handled'[c])
      BY HubKept DEF Hub, Ordered
    <3>2. \A i, j \in 1 .. Len(handled'[c]) : i < j => handled'[c][i] < handled'[c][j]
      BY <3>1 DEF OrderedAt
    <3> QED
      BY <2>1, <2>3, <3>2
  <2>5. \A d \in Clients : \A m \in 1 .. Len(handled[d]) :
          m \in 1 .. Len(handled'[d]) /\ handled'[d][m] = handled[d][m]
    <3> SUFFICES ASSUME NEW d \in Clients, NEW m \in 1 .. Len(handled[d])
                 PROVE  m \in 1 .. Len(handled'[d]) /\ handled'[d][m] = handled[d][m]
      OBVIOUS
    <3>1. CASE d = c
      BY <2>1, <2>3, <3>1
    <3>2. CASE d # c
      BY <2>2, <3>2
    <3> QED
      BY <3>1, <3>2
  <2>6. \A g \in Clients : \A k \in 1 .. Len(mail[g]) : mail[g][k] \in Letter
    BY ElementOfSeq DEF ChatTypes
  <2>7. \A d \in Clients : \A l : WasHandled(d, l) =>
          \E m \in 1 .. Len(handled'[d]) : handled'[d][m] = l
    BY <2>5 DEF WasHandled
  <2>8. ASSUME NEW g \in Clients, NEW k \in 1 .. Len(mail'[g])
        PROVE  \E m \in 1 .. Len(handled'[mail'[g][k].from]) :
                  handled'[mail'[g][k].from][m] = mail'[g][k].n
    <3>1. CASE k \in 1 .. Len(mail[g]) /\ mail'[g][k] = mail[g][k]
      <4>1. PICK d \in Clients, l \in Nat : d = mail[g][k].from /\ l = mail[g][k].n
        BY <2>6, <3>1 DEF Letter
      <4>2. WasHandled(d, l)
        BY <3>1, <4>1 DEF MailHandled
      <4>3. \E m \in 1 .. Len(handled'[d]) : handled'[d][m] = l
        BY <2>7, <4>2
      <4> QED
        BY <3>1, <4>1, <4>3
    <3>2. CASE mail'[g][k] = [from |-> c, n |-> n]
      <4>1. mail'[g][k].from = c /\ mail'[g][k].n = n
        BY <3>2
      <4> QED
        BY <2>1, <2>3, <4>1
    <3>3. Len(mail[g]) \in Nat /\ (mail'[g] = mail[g] \/ Delivered(g, c, n))
      BY <1>2, <2>1, MailAfter
    <3>4. CASE mail'[g] = mail[g]
      BY <3>1, <3>4
    <3>5. CASE Delivered(g, c, n)
      BY <3>1, <3>2, <3>3, <3>5 DEF Delivered
    <3> QED
      BY <3>3, <3>4, <3>5
  <2>9. ASSUME NEW g \in Clients, NEW j \in 1 .. Len(mail'[g]), NEW k \in 1 .. Len(mail'[g]),
               j < k, mail'[g][j].from = mail'[g][k].from
        PROVE  mail'[g][j].n < mail'[g][k].n
    <3>1. CASE mail'[g] = mail[g]
      BY <2>9, <3>1 DEF MailOrdered
    <3>2. CASE /\ Len(mail[g]) \in Nat /\ Len(mail'[g]) = Len(mail[g]) + 1
               /\ \A l \in 1 .. Len(mail[g]) : mail'[g][l] = mail[g][l]
               /\ mail'[g][Len(mail[g]) + 1] = [from |-> c, n |-> n]
      <4>1. j \in 1 .. Len(mail[g]) /\ mail'[g][j] = mail[g][j]
        BY <2>9, <3>2
      <4>2. CASE k \in 1 .. Len(mail[g])
        BY <2>9, <3>2, <4>1, <4>2 DEF MailOrdered
      <4>3. CASE k = Len(mail[g]) + 1
        <5>1. mail'[g][k].from = c /\ mail'[g][k].n = n
          BY <3>2, <4>3
        <5>2. mail[g][j].from = c
          BY <2>9, <4>1, <5>1
        <5>3. WasHandled(c, mail[g][j].n)
          BY <4>1, <5>2 DEF MailHandled
        <5>4. PICK m \in 1 .. Len(handled[c]) : handled[c][m] = mail[g][j].n
          BY <5>3 DEF WasHandled
        <5> QED
          BY <2>4, <4>1, <5>1, <5>4
      <4> QED
        BY <3>2, <4>2, <4>3
    <3>3. Len(mail[g]) \in Nat /\ (mail'[g] = mail[g] \/ Delivered(g, c, n))
      BY <1>2, <2>1, MailAfter
    <3> QED
      BY <3>1, <3>2, <3>3 DEF Delivered
  <2> QED
    BY <2>8, <2>9 DEF MailHandled, MailOrdered, WasHandled
<1> QED
  BY <1>1, <1>2, ChatStepShape

\* A client's data is in every mailbox in the order of its requests, each at most
\* once, for any scripts and any cuts of the streams.
THEOREM ChatDataInOrder == ChatSpec => []DataInOrder
<1>1. ChatInit => MailHandled /\ MailOrdered
  BY DEF ChatInit, MailHandled, MailOrdered
<1>2. ChatTypes /\ MailOrdered => DataInOrder
  <2>1. ChatTypes => \A g \in Clients : DOMAIN mail[g] = 1 .. Len(mail[g])
    BY LenProperties DEF ChatTypes
  <2> QED
    BY <2>1 DEF MailOrdered, DataInOrder
<1>3. Hub /\ ChatTypes /\ MailHandled /\ MailOrdered /\ [ChatNext]_systemVars
        => (MailHandled /\ MailOrdered)'
  BY MailStep
<1> QED
  BY <1>1, <1>2, <1>3, ChatTypesHold, PTL DEF ChatSpec

-----------------------------------------------------------------------------
(* Who receives whose data.                                                *)

\* A listener has the address of entries with its client's name only.
AtHome ==
    \A i \in DOMAIN g_UserList :
        \A g \in Addressees(g_UserList[i].server_name, g_UserList[i].server_port) :
            g_UserList[i].name = NameOf[g]

\* Who was ever paired, when the hub took both names.
Pairs == {{NameOf[v.by], v.taken} : v \in invited}

Paired(u) ==
    u.conn_name = NoName \/ u.conn_name = u.name \/ {u.name, u.conn_name} \in Pairs

PairsInvited == \A i \in DOMAIN g_UserList : Paired(g_UserList[i])

LEMMA ListStays ==
    ASSUME UNCHANGED g_UserList, Pairs \subseteq Pairs', PairsInvited
    PROVE  PairsInvited' /\ (AtHome => AtHome')
  BY DEF PairsInvited, Paired, AtHome, Addressees

\* A login adds an entry that has no opposite.
LEMMA LoginPlaces ==
    ASSUME TypeOK, Pairs \subseteq Pairs', PairsInvited,
           NEW n \in Names, NEW p \in Ports, NEW a \in Hosts, AskLogin(n, p, a)
    PROVE  /\ PairsInvited'
           /\ AtHome /\ (\A g \in Addressees(a, p) : n = NameOf[g]) => AtHome'
           /\ sent'.kind # "data"
<1>2. VectorPushBack(MakeUser(n, p, a))
  BY DEF AskLogin
<1>3. /\ DOMAIN g_UserList' = 1 .. Len(g_UserList) + 1
      /\ NewEntry(g_UserList'[Len(g_UserList) + 1], n, p, a)
      /\ \A i \in DOMAIN g_UserList :
           \/ g_UserList'[i] = g_UserList[i]
           \/ g_UserList'[i] = MovedUser(g_UserList[i])
  BY <1>2, AppendShape
<1>4. DOMAIN g_UserList = 1 .. Len(g_UserList) /\ Len(g_UserList) \in Nat
  BY DEF TypeOK
<1>5. \A i \in DOMAIN g_UserList :
        /\ g_UserList'[i].name = g_UserList[i].name
        /\ g_UserList'[i].server_name = g_UserList[i].server_name
        /\ g_UserList'[i].server_port = g_UserList[i].server_port
        /\ g_UserList'[i].conn_name = g_UserList[i].conn_name
  <2> SUFFICES ASSUME NEW i \in DOMAIN g_UserList
               PROVE  /\ g_UserList'[i].name = g_UserList[i].name
                      /\ g_UserList'[i].server_name = g_UserList[i].server_name
                      /\ g_UserList'[i].server_port = g_UserList[i].server_port
                      /\ g_UserList'[i].conn_name = g_UserList[i].conn_name
    OBVIOUS
  <2>1. g_UserList[i] \in User
    BY DEF TypeOK
  <2> QED
    BY <1>3, <2>1 DEF MovedUser, User
<1>6. PairsInvited'
  <2> SUFFICES ASSUME NEW i \in DOMAIN g_UserList' PROVE Paired(g_UserList[i])'
    BY DEF PairsInvited
  <2>1. CASE i \in DOMAIN g_UserList
    BY <1>5, <2>1 DEF PairsInvited, Paired
  <2>2. CASE i = Len(g_UserList) + 1
    BY <1>3, <2>2 DEF NewEntry, Paired
  <2> QED
    BY <1>3, <1>4, <2>1, <2>2
<1>7. ASSUME AtHome, \A g \in Addressees(a, p) : n = NameOf[g] PROVE AtHome'
  <2> SUFFICES ASSUME NEW i \in DOMAIN g_UserList',
                      NEW g \in Addressees(g_UserList'[i].server_name, g_UserList'[i].server_port)
               PROVE  g_UserList'[i].name = NameOf[g]
    BY DEF AtHome, Addressees
  <2>1. CASE i \in DOMAIN g_UserList
    BY <1>5, <1>7, <2>1 DEF AtHome
  <2>2. CASE i = Len(g_UserList) + 1
    BY <1>3, <1>7, <2>2 DEF NewEntry
  <2> QED
    BY <1>3, <1>4, <2>1, <2>2
<1>8. sent'.kind # "data"
  BY DEF AskLogin, Reply
<1> QED
  BY <1>6, <1>7, <1>8

\* ConnectUser makes opposites of two entries with the names it was given.
LEMMA ConnectInvites ==
    ASSUME TypeOK, Pairs \subseteq Pairs', PairsInvited,
           NEW u1, NEW u2, NEW connect \in BOOLEAN, ConnectUser(u1, u2, connect),
           u2 = NoName \/ u2 = u1 \/ {u1, u2} \in Pairs'
    PROVE  PairsInvited' /\ (AtHome => AtHome') /\ sent'.kind # "data"
<1>1. CASE Crash
  BY <1>1, ListStays DEF Crash, NoSend
<1>2. CASE ~ Crash
  <2>1. PICK i, j \in Named(u1) \cup Named(u2) :
           /\ FirstTwo(i, j, Named(u1) \cup Named(u2))
           /\ ConnectsTwo(i, j, connect)
           /\ sent' = NoSend
    BY <1>2 DEF ConnectUser, ConnectsTwo
  <2>2. /\ i \in DOMAIN g_UserList /\ j \in DOMAIN g_UserList /\ i # j
        /\ g_UserList[i].name \in {u1, u2} /\ g_UserList[j].name \in {u1, u2}
    BY <2>1 DEF FirstTwo, Named, TypeOK
  <2>3. /\ DOMAIN g_UserList' = DOMAIN g_UserList
        /\ g_UserList'[i] = Opposite(g_UserList[i], g_UserList[j], connect)
        /\ g_UserList'[j] = Opposite(g_UserList[j], g_UserList[i], connect)
        /\ \A k \in DOMAIN g_UserList \ {i, j} : g_UserList'[k] = g_UserList[k]
    BY <2>1, <2>2, ConnectShape
  <2>4. /\ g_UserList[i] \in User /\ g_UserList[i].name # NoName
        /\ g_UserList[j] \in User /\ g_UserList[j].name # NoName
    BY <2>2, NoNameAssumption DEF TypeOK
  <2>5. \/ g_UserList[i].name = g_UserList[j].name
        \/ {g_UserList[i].name, g_UserList[j].name} \in Pairs'
    <3>1. CASE u2 = NoName \/ u2 = u1
      BY <2>2, <2>4, <3>1
    <3>2. CASE {u1, u2} \in Pairs'
      <4>1. {u1, u2} = {u2, u1}
        OBVIOUS
      <4> QED
        BY <2>2, <3>2, <4>1
    <3> QED
      BY <3>1, <3>2
  <2>6. ASSUME NEW k \in DOMAIN g_UserList
        PROVE  /\ g_UserList'[k].name = g_UserList[k].name
               /\ g_UserList'[k].server_name = g_UserList[k].server_name
               /\ g_UserList'[k].server_port = g_UserList[k].server_port
    <3>1. CASE k = i
      BY <2>3, <2>4, <3>1 DEF Opposite, User
    <3>2. CASE k = j
      BY <2>3, <2>4, <3>2 DEF Opposite, User
    <3>3. CASE k \notin {i, j}
      BY <2>3, <3>3
    <3> QED
      BY <3>1, <3>2, <3>3
  <2>7. PairsInvited'
    <3> SUFFICES ASSUME NEW k \in DOMAIN g_UserList PROVE Paired(g_UserList[k])'
      BY <2>3 DEF PairsInvited
    <3>1. CASE k = i
      <4>1. g_UserList'[k].conn_name = g_UserList[j].name
        BY <2>3, <2>4, <3>1 DEF Opposite, User
      <4> QED
        BY <2>5, <2>6, <3>1, <4>1 DEF Paired
    <3>2. CASE k = j
      <4>1. g_UserList'[k].conn_name = g_UserList[i].name
        BY <2>3, <2>4, <3>2 DEF Opposite, User
      <4>2. {g_UserList[j].name, g_UserList[i].name} = {g_UserList[i].name, g_UserList[j].name}
        OBVIOUS
      <4> QED
        BY <2>5, <2>6, <3>2, <4>1, <4>2 DEF Paired
    <3>3. CASE k \notin {i, j}
      BY <2>3, <3>3 DEF PairsInvited, Paired
    <3> QED
      BY <3>1, <3>2, <3>3
  <2>8. AtHome => AtHome'
    BY <2>3, <2>6 DEF AtHome, Addressees
  <2> QED
    BY <2>1, <2>7, <2>8 DEF NoSend
<1> QED
  BY <1>1, <1>2

\* Data goes to the sender or to one that was invited with it.
LEMMA DataGoesTo ==
    ASSUME DistinctClients, TypeOK, RouteSound, AtHome, PairsInvited, InvitedTypes,
           NEW c \in Clients, NEW d \in Payloads, AskData(NameOf[c], d),
           NEW g \in Clients, sent'.kind = "data", g \in Addressees(sent'.host, sent'.port)
    PROVE  g = c \/ Asked(c, g) \/ Asked(g, c)
<1>1. PICK k \in Named(NameOf[c]) :
         g_UserList[k].is_conn /\ sent' = Relay(g_UserList[k], d)
  BY DEF AskData, Quiet, NoSend
<1> DEFINE u == g_UserList[k]
<1>2. k \in DOMAIN g_UserList /\ u.name = NameOf[c]
  BY DEF Named
<1>3. HostOf[g] = u.conn_server_name /\ PortOf[g] = u.conn_server_port /\ HostOf[g] \in Hosts
  BY <1>1, HubAssumption DEF Relay, Addressees
<1>4. u.conn_server_name # NoHost
  BY <1>3, NoHostAssumption
<1>5. PICK j \in DOMAIN g_UserList :
         /\ g_UserList[j].name = u.conn_name
         /\ g_UserList[j].server_name = u.conn_server_name
         /\ g_UserList[j].server_port = u.conn_server_port
  BY <1>2, <1>4 DEF RouteSound
<1>6. u.conn_name = NameOf[g] /\ NameOf[g] \in Names
  BY <1>3, <1>5, HubAssumption DEF AtHome, Addressees
<1>7. NameOf[g] = NameOf[c] \/ {NameOf[c], NameOf[g]} \in Pairs
  BY <1>2, <1>6, NoNameAssumption DEF PairsInvited, Paired
<1>8. CASE NameOf[g] = NameOf[c]
  BY <1>8 DEF DistinctClients
<1>9. CASE {NameOf[c], NameOf[g]} \in Pairs
  <2>1. PICK v \in invited : {NameOf[c], NameOf[g]} = {NameOf[v.by], v.taken}
    BY <1>9 DEF Pairs
  <2>2. /\ v.by \in Clients
        /\ v.taken \in {v.guest, NoName} \cup NameCuts[v.guest]
    BY DEF InvitedTypes
  <2>3. NameOf[c] # NoName /\ NameOf[g] # NoName
    BY HubAssumption, NoNameAssumption
  <2>4. \/ NameOf[v.by] = NameOf[c] /\ v.taken = NameOf[g]
        \/ NameOf[v.by] = NameOf[g] /\ v.taken = NameOf[c]
    BY <2>1
  <2>5. CASE NameOf[v.by] = NameOf[c] /\ v.taken = NameOf[g]
    <3>1. v.by = c
      BY <2>2, <2>5 DEF DistinctClients
    <3> QED
      BY <2>2, <2>3, <2>5, <3>1 DEF Asked
  <2>6. CASE NameOf[v.by] = NameOf[g] /\ v.taken = NameOf[c]
    <3>1. v.by = g
      BY <2>2, <2>6 DEF DistinctClients
    <3> QED
      BY <2>2, <2>3, <2>6, <3>1 DEF Asked
  <2> QED
    BY <2>4, <2>5, <2>6
<1> QED
  BY <1>7, <1>8, <1>9

\* What the handling of one request does to the opposites and the places.
LEMMA HandledKeeps ==
    ASSUME DistinctClients, Hub, PairsInvited, NEW c \in Clients,
           NEW n \in 1 .. Len(requests[c]), NEW r, Handles(c, n, r)
    PROVE  /\ invited \subseteq invited' /\ PairsInvited'
           /\ AtHome /\ ~ misplaced' => AtHome'
           /\ sent'.kind = "data" /\ sent'.body # NoData =>
                \E d \in Payloads : AskData(NameOf[c], d)
<1> DEFINE v == [by |-> c, guest |-> requests[c][n].arg, taken |-> r.second]
<1>1. invited' = invited \cup (IF r.op = "invite" THEN {v} ELSE {})
  BY DEF Handles
<1>2. invited \subseteq invited' /\ Pairs \subseteq Pairs' /\ TypeOK
  BY <1>1 DEF Hub, Pairs
<1>3. /\ Dispatch(r) /\ Handled(r) /\ client_addr \in Hosts /\ ReadAs(c, n, r)
      /\ NameOf[c] \in Names
  BY HubAssumption DEF Handles, ReadAs
<1>4. CASE r.op = "login"
  <2>1. AskLogin(r.name, r.second, client_addr) /\ r.name \in Names /\ r.second \in Ports
    BY <1>3, <1>4 DEF Dispatch, Handled
  <2>2. ASSUME ~ misplaced', NEW g \in Addressees(client_addr, r.second)
        PROVE  r.name = NameOf[g]
    <3>1. Addressees(client_addr, r.second) \ {c} = {}
      BY <1>4, <2>2 DEF Handles
    <3>2. g = c
      BY <3>1
    <3>3. r.second # ZeroPort
      BY DEF Addressees, DistinctClients
    <3> QED
      BY <1>3, <1>4, <3>2, <3>3 DEF ReadAs
  <2> QED
    BY <1>2, <1>3, <2>1, <2>2, LoginPlaces
<1>5. CASE r.op = "list"
  <2>1. AskAllUser(client_addr)
    BY <1>3, <1>5 DEF Dispatch
  <2>2. UNCHANGED g_UserList /\ sent'.kind # "data"
    BY <2>1 DEF AskAllUser, Crash, NoSend, Reply
  <2> QED
    BY <1>2, <2>2, ListStays
<1>6. CASE r.op = "invite"
  <2>1. ConnectUser(r.name, r.second, TRUE)
    BY <1>3, <1>6 DEF Dispatch, AskInvite
  <2>2. CASE r.second = NoName
    BY <1>2, <2>1, <2>2, ConnectInvites
  <2>3. CASE r.second # NoName
    <3>1. r.name = NameOf[c]
      BY <1>3, <1>6, <2>3 DEF ReadAs
    <3>2. v \in invited' /\ v.by = c /\ v.taken = r.second
      BY <1>1, <1>6
    <3> HIDE DEF v
    <3>3. {r.name, r.second} \in Pairs'
      BY <3>1, <3>2 DEF Pairs
    <3> QED
      BY <1>2, <2>1, <3>3, ConnectInvites
  <2> QED
    BY <2>2, <2>3
<1>7. CASE r.op = "data"
  <2>1. AskData(r.name, r.second) /\ r.name \in Names /\ r.second \in Payloads
    BY <1>3, <1>7 DEF Dispatch, Handled
  <2>2. UNCHANGED g_UserList
    BY <2>1 DEF AskData, Quiet
  <2>3. ASSUME sent'.kind = "data", sent'.body # NoData PROVE r.name = NameOf[c]
    <3>1. sent'.body = r.second
      BY <2>1, <2>3 DEF AskData, Relay, Quiet, NoSend
    <3> QED
      BY <1>3, <1>7, <2>3, <3>1 DEF ReadAs
  <2> QED
    BY <1>2, <2>1, <2>2, <2>3, ListStays
<1>8. CASE r.op = "exit"
  <2>1. AskExitGame(r.name) /\ r.name \in Names
    BY <1>3, <1>8 DEF Dispatch, Handled
  <2>2. CASE Quiet
    BY <1>2, <2>2, ListStays DEF Quiet, NoSend
  <2>3. CASE ~ Quiet
    <3>1. PICK k \in Named(r.name) : ConnectUser(r.name, g_UserList[k].conn_name, FALSE)
      BY <2>1, <2>3 DEF AskExitGame
    <3>2. k \in DOMAIN g_UserList /\ g_UserList[k].name = r.name
      BY DEF Named
    <3>3. \/ g_UserList[k].conn_name = NoName \/ g_UserList[k].conn_name = r.name
          \/ {r.name, g_UserList[k].conn_name} \in Pairs'
      BY <1>2, <3>2 DEF PairsInvited, Paired
    <3> QED
      BY <1>2, <3>1, <3>3, ConnectInvites
  <2> QED
    BY <2>2, <2>3
<1> QED
  BY <1>2, <1>3, <1>4, <1>5, <1>6, <1>7, <1>8 DEF Handled, ReadAs

PrivateInv == Clean => PairsInvited /\ AtHome

LEMMA PrivateStep ==
    ASSUME DistinctClients, Hub, ChatTypes, PrivateInv, DataStaysBetweenInvited,
           [ChatNext]_systemVars
    PROVE  PrivateInv' /\ DataStaysBetweenInvited'
<1>1. CASE Idles
  BY <1>1 DEF Idles, chatVars, PrivateInv, Clean, PairsInvited, Pairs, Paired, AtHome,
              Addressees, DataStaysBetweenInvited, Asked
<1>2. CASE Wanders
  BY <1>2 DEF Wanders, PrivateInv, Clean, DataStaysBetweenInvited
<1>3. ASSUME NEW c \in Clients, NEW n \in 1 .. Len(requests[c]), NEW r, Handles(c, n, r)
      PROVE  PrivateInv' /\ DataStaysBetweenInvited'
  <2> SUFFICES ASSUME Clean'
               PROVE  /\ (PairsInvited /\ AtHome)'
                      /\ \A g \in Clients : \A k \in DOMAIN mail'[g] :
                           \A d : d = mail'[g][k].from =>
                                     d = g \/ Asked(d, g)' \/ Asked(g, d)'
    BY DEF PrivateInv, DataStaysBetweenInvited, Asked
  <2>1. ~ misplaced' /\ Clean /\ PairsInvited /\ AtHome
    BY <1>3 DEF Handles, Clean, PrivateInv
  <2>2. /\ invited \subseteq invited' /\ PairsInvited' /\ AtHome'
        /\ sent'.kind = "data" /\ sent'.body # NoData =>
             \E d \in Payloads : AskData(NameOf[c], d)
    BY <1>3, <2>1, HandledKeeps
  <2>3. \A d, e \in Clients : Asked(d, e) => Asked(d, e)'
    BY <2>2 DEF Asked
  <2>4. n \in Nat
    BY DEF Hub, HubTypes, ClientTypes
  <2>5. ASSUME NEW g \in Clients, NEW k \in DOMAIN mail'[g], NEW d, d = mail'[g][k].from
        PROVE  d = g \/ Asked(d, g)' \/ Asked(g, d)'
    <3>1. mail[g] \in Seq(Letter) /\ Len(mail[g]) \in Nat /\ mail'[g] \in Seq(Letter)
      BY <1>3, <2>4, MailAfter, ChatStepShape DEF ChatTypes
    <3>2. DOMAIN mail[g] = 1 .. Len(mail[g]) /\ DOMAIN mail'[g] = 1 .. Len(mail'[g])
      BY <3>1, LenProperties
    <3>3. CASE k \in DOMAIN mail[g] /\ mail'[g][k] = mail[g][k]
      <4>1. mail[g][k] \in Letter
        BY <3>1, <3>2, <3>3, ElementOfSeq
      <4>2. d \in Clients
        BY <2>5, <3>3, <4>1 DEF Letter
      <4>3. d = g \/ Asked(d, g) \/ Asked(g, d)
        BY <2>1, <2>5, <3>3 DEF DataStaysBetweenInvited
      <4> QED
        BY <2>3, <4>2, <4>3
    <3>4. CASE /\ sent'.kind = "data" /\ sent'.body # NoData
               /\ g \in Addressees(sent'.host, sent'.port)
               /\ mail'[g][k] = [from |-> c, n |-> n]
      <4>1. PICK x \in Payloads : AskData(NameOf[c], x)
        BY <2>2, <3>4
      <4>2. g = c \/ Asked(c, g) \/ Asked(g, c)
        BY <2>1, <3>4, <4>1, DataGoesTo DEF Hub, ChatTypes
      <4>3. d = c
        BY <2>5, <3>4
      <4> QED
        BY <2>3, <4>2, <4>3
    <3>5. mail'[g] = mail[g] \/ Delivered(g, c, n)
      BY <1>3, <2>4, MailAfter
    <3> QED
      BY <3>1, <3>2, <3>3, <3>4, <3>5 DEF Delivered
  <2> QED
    BY <2>2, <2>5
<1> QED
  BY <1>1, <1>2, <1>3, ChatStepShape

\* With clients told apart by name and by address, and in a clean history, data
\* reaches only its sender, or goes between two clients one of which invited the
\* other or somebody whose name the other's begins: for any scripts, slots and cuts
\* of the streams, those inside a name or a port included.
THEOREM ChatDataPrivate ==
    ASSUME DistinctClients PROVE ChatSpec => []DataStaysBetweenInvited
<1>1. ChatInit => PrivateInv /\ DataStaysBetweenInvited
  BY DEF ChatInit, HubInit, Init, PrivateInv, PairsInvited, AtHome, DataStaysBetweenInvited
<1>2. Hub /\ ChatTypes /\ PrivateInv /\ DataStaysBetweenInvited /\ [ChatNext]_systemVars
        => (PrivateInv /\ DataStaysBetweenInvited)'
  BY PrivateStep
<1> QED
  BY <1>1, <1>2, ChatTypesHold, PTL DEF ChatSpec

-----------------------------------------------------------------------------
(* What brings the hub down.                                               *)

KnownListed ==
    Clean => /\ \A c \in known : Named(NameOf[c]) # {}
             /\ \A c \in logged : At(HostOf[c]) # {}

\* While names are distinct, whoever was invited, or invited, has an opposite.
InvitedPaired ==
    Clean /\ running /\ DistinctNames =>
        \A v \in invited : \A m \in {NameOf[v.by], v.taken} :
            \E i \in Named(m) : g_UserList[i].conn_name # NoName

\* The request the hub fell to is one of its history, and a fatal one.
FellToFatal ==
    ~ running /\ Clean =>
        /\ served \in Clients
        /\ Last(handled[served]) \in 1 .. Len(requests[served])
        /\ Fatal(served, requests[served][Last(handled[served])])

ListStepKeeps == TypeOK /\ [Next]_vars =>
    /\ DOMAIN g_UserList \subseteq DOMAIN g_UserList'
    /\ \A k \in DOMAIN g_UserList :
         /\ g_UserList'[k].name = g_UserList[k].name
         /\ g_UserList'[k].server_name = g_UserList[k].server_name
         /\ g_UserList[k].conn_name # NoName => g_UserList'[k].conn_name # NoName

LEMMA KeptAtEveryStep == ListStepKeeps
<1>1. CASE UNCHANGED g_UserList
  BY <1>1 DEF ListStepKeeps
<1>2. CASE Next
  BY <1>2, StepKeeps DEF ListStepKeeps
<1> QED
  BY <1>1, <1>2 DEF ListStepKeeps, vars

\* A step that handles no request keeps all three.
LEMMA IdlesKeep ==
    ASSUME Idles, KnownListed, InvitedPaired, FellToFatal
    PROVE  KnownListed' /\ InvitedPaired' /\ FellToFatal'
<1>1. /\ UNCHANGED <<g_UserList, running, handled, known, logged, invited, whole>>
      /\ Clean' <=> Clean
  BY DEF Idles, chatVars, Clean
<1>2. KnownListed' /\ InvitedPaired'
  BY <1>1 DEF KnownListed, InvitedPaired, DistinctNames, Named, At
<1>3. ASSUME ~ running, Clean
      PROVE  /\ served' \in Clients
             /\ Last(handled'[served']) \in 1 .. Len(requests'[served'])
             /\ Fatal(served, requests[served][Last(handled[served])])'
  <2>1. served' = served /\ client_addr' = client_addr
    BY <1>3 DEF Idles
  <2>2. /\ served \in Clients /\ Last(handled[served]) \in 1 .. Len(requests[served])
        /\ Fatal(served, requests[served][Last(handled[served])])
    BY <1>3 DEF FellToFatal
  <2>3. /\ Last(handled'[served']) = Last(handled[served])
        /\ Last(handled[served]) \in 1 .. Len(requests'[served])
        /\ requests'[served][Last(handled[served])] = requests[served][Last(handled[served])]
    BY <1>1, <2>1, <2>2 DEF Idles, RequestsKept
  <2>4. requests'[served'][Last(handled'[served'])] = requests[served][Last(handled[served])]
    BY <2>1, <2>3
  <2>5. ASSUME NEW r, r = requests[served][Last(handled[served])], Fatal(served, r)
        PROVE  Fatal(served, requests[served][Last(handled[served])])'
    BY <1>1, <2>1, <2>4, <2>5 DEF Fatal, DistinctNames
  <2> QED
    BY <2>1, <2>2, <2>3, <2>5
<1> QED
  BY <1>1, <1>2, <1>3 DEF FellToFatal

LEMMA KnownStep ==
    ASSUME Hub, [Next]_vars, KnownListed,
           NEW c \in Clients, NEW n \in 1 .. Len(requests[c]), NEW r, Handles(c, n, r)
    PROVE  KnownListed'
<1> SUFFICES ASSUME Clean'
             PROVE  /\ \A d \in known' : Named(NameOf[d])' # {}
                    /\ \A d \in logged' : At(HostOf[d])' # {}
  BY DEF KnownListed, Named, At
<1>1. TypeOK /\ Clean /\ ~ misplaced'
  BY DEF Hub, Handles, Clean
<1>2. /\ \A d \in known : Named(NameOf[d])' # {}
      /\ \A d \in logged : At(HostOf[d])' # {}
  <2>1. \A m : Named(m) \subseteq Named(m)' /\ At(m) \subseteq At(m)'
    BY <1>1, KeptAtEveryStep DEF ListStepKeeps, Named, At
  <2> QED
    BY <1>1, <2>1 DEF KnownListed
<1>3. CASE r.op # "login"
  <2>1. known' = known /\ logged' = logged
    BY <1>3 DEF Handles
  <2> QED
    BY <1>2, <2>1
<1>4. CASE r.op = "login"
  <2>1. /\ AskLogin(r.name, r.second, client_addr) /\ client_addr \in Hosts
        /\ r.name \in Names /\ r.second \in Ports /\ client_addr = HostOf[c]
    BY <1>1, <1>4 DEF Handles, Dispatch, ReadAs, Handled
  <2>2. /\ DOMAIN g_UserList' = 1 .. Len(g_UserList) + 1
        /\ NewEntry(g_UserList'[Len(g_UserList) + 1], r.name, r.second, client_addr)
    BY <1>1, <2>1, AppendShape DEF AskLogin
  <2>3. Len(g_UserList) + 1 \in DOMAIN g_UserList'
    BY <1>1, <2>2 DEF TypeOK
  <2>4. Named(r.name)' # {} /\ At(HostOf[c])' # {}
    BY <2>1, <2>2, <2>3 DEF NewEntry, Named, At
  <2>5. /\ known' = known \cup (IF r.name = NameOf[c] THEN {c} ELSE {})
        /\ logged' = logged \cup {c}
    BY <1>4 DEF Handles
  <2> QED
    BY <1>2, <2>4, <2>5
<1> QED
  BY <1>3, <1>4

\* Two users ConnectUser was asked about are its two hits, when names are distinct.
LEMMA ConnectFindsBoth ==
    ASSUME TypeOK, DistinctNames', [Next]_vars, running, running',
           NEW u1 \in Names, NEW u2 \in Names, NEW connect \in BOOLEAN,
           ConnectUser(u1, u2, connect), NEW m \in {u1, u2}
    PROVE  \E i \in DOMAIN g_UserList' :
              g_UserList'[i].name = m /\ g_UserList'[i].conn_name # NoName
<1>1. PICK i, j \in Named(u1) \cup Named(u2) :
         /\ FirstTwo(i, j, Named(u1) \cup Named(u2))
         /\ ConnectsTwo(i, j, connect)
  BY DEF ConnectUser, ConnectsTwo, Crash
<1>2. /\ i \in DOMAIN g_UserList /\ j \in DOMAIN g_UserList /\ i # j
      /\ g_UserList[i].name \in {u1, u2} /\ g_UserList[j].name \in {u1, u2}
  BY <1>1 DEF FirstTwo, Named, TypeOK
<1>3. /\ DOMAIN g_UserList' = DOMAIN g_UserList
      /\ g_UserList'[i] = Opposite(g_UserList[i], g_UserList[j], connect)
      /\ g_UserList'[j] = Opposite(g_UserList[j], g_UserList[i], connect)
  BY <1>1, <1>2, ConnectShape
<1>4. /\ g_UserList[i] \in User /\ g_UserList[i].name # NoName
      /\ g_UserList[j] \in User /\ g_UserList[j].name # NoName
  BY <1>2, NoNameAssumption DEF TypeOK
<1>5. /\ g_UserList'[i].name = g_UserList[i].name /\ g_UserList'[i].conn_name # NoName
      /\ g_UserList'[j].name = g_UserList[j].name /\ g_UserList'[j].conn_name # NoName
  BY <1>3, <1>4 DEF Opposite, User
<1>6. g_UserList[i].name # g_UserList[j].name
  BY <1>2, <1>3, <1>5 DEF DistinctNames
<1>7. m = g_UserList[i].name \/ m = g_UserList[j].name
  BY <1>2, <1>6
<1> QED
  BY <1>2, <1>3, <1>5, <1>7

\* With distinct names, ConnectUser of one name alone has one hit at most.
LEMMA ConnectAloneFalls ==
    ASSUME TypeOK, DistinctNames, NEW u, NEW connect, ConnectUser(u, NoName, connect)
    PROVE  ~ running'
<1>1. Named(NoName) = {}
  BY NoNameAssumption DEF Named, TypeOK
<1>2. \A i, j \in Named(u) \cup Named(NoName) : i = j
  BY <1>1 DEF Named, DistinctNames
<1>3. Crash
  <2> SUFFICES ASSUME ~ Crash PROVE FALSE
    OBVIOUS
  <2>1. PICK i, j \in Named(u) \cup Named(NoName) : FirstTwo(i, j, Named(u) \cup Named(NoName))
    BY DEF ConnectUser
  <2>2. i = j /\ i \in Nat
    BY <1>2, <2>1 DEF Named, TypeOK
  <2> QED
    BY <2>1, <2>2 DEF FirstTwo
<1> QED
  BY <1>3 DEF Crash

LEMMA InvitedStep ==
    ASSUME Hub, [Next]_vars, InvitedPaired, NEW c \in Clients,
           NEW n \in 1 .. Len(requests[c]), NEW r, Handles(c, n, r)
    PROVE  InvitedPaired'
<1> SUFFICES ASSUME Clean', running', DistinctNames', NEW v \in invited',
                    NEW m \in {NameOf[v.by], v.taken}
             PROVE  \E i \in DOMAIN g_UserList' :
                       g_UserList'[i].name = m /\ g_UserList'[i].conn_name # NoName
  BY DEF InvitedPaired, Named
<1>1. TypeOK /\ running /\ Clean
  BY DEF Hub, Handles, Clean
<1>2. DistinctNames
  BY <1>1, KeptAtEveryStep DEF ListStepKeeps, DistinctNames
<1>3. CASE v \in invited
  <2>1. PICK i \in Named(m) : g_UserList[i].conn_name # NoName
    BY <1>1, <1>2, <1>3 DEF InvitedPaired
  <2> QED
    BY <1>1, <2>1, KeptAtEveryStep DEF ListStepKeeps, Named
<1>4. CASE r.op = "invite" /\ v.by = c /\ v.taken = r.second
  <2>1. /\ ConnectUser(r.name, r.second, TRUE) /\ r.name \in Names
        /\ r.second \in Names \cup {NoName}
        /\ r.name = NameOf[c] \/ r.second = NoName
    BY <1>4 DEF Handles, Dispatch, AskInvite, ReadAs, Handled
  <2>2. r.second # NoName
    BY <1>1, <1>2, <2>1, ConnectAloneFalls
  <2> QED
    BY <1>1, <1>4, <2>1, <2>2, ConnectFindsBoth
<1>5. v \in invited \/ (r.op = "invite" /\ v.by = c /\ v.taken = r.second)
  BY DEF Handles
<1> QED
  BY <1>3, <1>4, <1>5

LEMMA FallStep ==
    ASSUME Hub, PeerRegistered, KnownListed, InvitedPaired,
           NEW c \in Clients, NEW n \in 1 .. Len(requests[c]), NEW r, Handles(c, n, r),
           ~ running', Clean'
    PROVE  Fatal(c, requests[c][n])'
<1> DEFINE q == requests[c][n]
<1>1. TypeOK /\ running /\ Clean /\ client_addr' = client_addr /\ requests' = requests
  BY DEF Hub, Handles, Clean
<1>2. /\ Dispatch(r) /\ Handled(r) /\ r.op # "other" /\ q.op = r.op
      /\ whole' <=> (r.name = NameOf[c] /\ r.second = q.arg)
  BY DEF Handles, ReadAs
<1>3. CASE r.op = "login"
  BY <1>1, <1>2, <1>3 DEF Dispatch, AskLogin
<1>4. CASE r.op = "list"
  <2>1. At(client_addr) = {}
    BY <1>1, <1>2, <1>4 DEF Dispatch, AskAllUser
  <2>2. logged' = logged
    BY <1>4 DEF Handles
  <2>3. \A k \in logged : HostOf[k] # client_addr
    BY <1>1, <2>1 DEF KnownListed
  <2> QED
    BY <1>1, <1>2, <1>4, <2>2, <2>3 DEF Fatal
<1>5. CASE r.op = "invite"
  <2>1. known' = known
    BY <1>5 DEF Handles
  <2>2. CASE ~ whole'
    BY <1>1, <1>2, <1>5, <2>2 DEF Fatal
  <2>3. CASE whole'
    <3>1. \A i, j \in Named(NameOf[c]) \cup Named(q.arg) : i = j
      BY <1>1, <1>2, <1>5, <2>3 DEF Dispatch, AskInvite, ConnectUser
    <3>2. \/ c \notin known \/ q.arg = NameOf[c]
          \/ \A k \in known : NameOf[k] # q.arg
      <4> SUFFICES ASSUME c \in known, NEW k \in known, NameOf[k] = q.arg
                   PROVE  q.arg = NameOf[c]
        OBVIOUS
      <4>1. PICK i : i \in Named(NameOf[c])
        BY <1>1 DEF KnownListed
      <4>2. PICK j : j \in Named(q.arg)
        BY <1>1 DEF KnownListed
      <4>3. i = j
        BY <3>1, <4>1, <4>2
      <4> QED
        BY <4>1, <4>2, <4>3 DEF Named
    <3> QED
      BY <1>1, <1>2, <1>5, <2>1, <3>2 DEF Fatal
  <2> QED
    BY <2>2, <2>3
<1>6. CASE r.op = "data"
  BY <1>1, <1>2, <1>6 DEF Dispatch, AskData, Quiet
<1>7. CASE r.op = "exit"
  <2>1. invited' = invited
    BY <1>7 DEF Handles
  <2>2. CASE ~ whole'
    BY <1>1, <1>2, <1>7, <2>2 DEF Fatal
  <2>3. CASE whole'
    <3>1. PICK k \in Named(NameOf[c]) :
             ConnectUser(NameOf[c], g_UserList[k].conn_name, FALSE)
      BY <1>1, <1>2, <1>7, <2>3 DEF Dispatch, AskExitGame, Quiet
    <3>2. /\ g_UserList' = g_UserList
          /\ \A i, j \in Named(NameOf[c]) \cup Named(g_UserList[k].conn_name) : i = j
      BY <1>1, <3>1 DEF ConnectUser, Crash
    <3>3. ASSUME DistinctNames, NEW v \in invited, NameOf[c] \in {NameOf[v.by], v.taken}
          PROVE  FALSE
      <4>1. PICK i \in Named(NameOf[c]) : g_UserList[i].conn_name # NoName
        BY <1>1, <3>3 DEF InvitedPaired
      <4>2. k = i
        BY <3>2, <4>1
      <4>3. PICK j \in DOMAIN g_UserList \ {i} : g_UserList[j].name = g_UserList[i].conn_name
        BY <4>1 DEF PeerRegistered, Named
      <4> QED
        BY <3>2, <4>1, <4>2, <4>3 DEF Named
    <3>4. DistinctNames' <=> DistinctNames
      BY <3>2 DEF DistinctNames
    <3> QED
      BY <1>1, <1>2, <1>7, <2>1, <3>3, <3>4 DEF Fatal
  <2> QED
    BY <2>2, <2>3
<1> QED
  BY <1>2, <1>3, <1>4, <1>5, <1>6, <1>7 DEF Handled

LEMMA FatalStep ==
    ASSUME Hub, ChatTypes, PeerRegistered, KnownListed, InvitedPaired, FellToFatal,
           [ChatNext]_systemVars
    PROVE  (PeerRegistered /\ KnownListed /\ InvitedPaired /\ FellToFatal)'
<1>1. [Next]_vars /\ PeerRegistered'
  BY HubKept, PeerStep DEF Hub
<1>2. CASE Idles
  BY <1>1, <1>2, IdlesKeep
<1>3. CASE Wanders
  BY <1>1, <1>3 DEF Wanders, Clean, KnownListed, InvitedPaired, FellToFatal
<1>4. ASSUME NEW c \in Clients, NEW n \in 1 .. Len(requests[c]), NEW r, Handles(c, n, r)
      PROVE  (PeerRegistered /\ KnownListed /\ InvitedPaired /\ FellToFatal)'
  <2>1. handled[c] \in Seq(Nat) /\ n \in Nat /\ DOMAIN handled = Clients
    BY DEF Hub, HubTypes, ClientTypes, HistoryTypes
  <2>2. KnownListed' /\ InvitedPaired'
    BY <1>1, <1>4, KnownStep, InvitedStep
  <2>3. served' = c /\ requests' = requests /\ Last(handled'[c]) = n
    <3>1. handled'[c] = Append(handled[c], n)
      BY <1>4, <2>1 DEF Handles
    <3>2. Len(Append(handled[c], n)) = Len(handled[c]) + 1
          /\ Append(handled[c], n)[Len(handled[c]) + 1] = n
      BY <2>1, AppendProperties
    <3> QED
      BY <1>4, <3>1, <3>2 DEF Handles, Last
  <2>4. ASSUME ~ running', Clean' PROVE Fatal(c, requests[c][n])'
    BY <1>4, <2>4, FallStep
  <2>5. FellToFatal'
    BY <2>3, <2>4 DEF FellToFatal, Fatal
  <2> QED
    BY <1>1, <2>2, <2>5
<1> QED
  BY <1>2, <1>3, <1>4, ChatStepShape

\* Whatever is asked and however it arrives, whole or cut anywhere, in a clean
\* history the hub falls only to the requests Fatal lists.
THEOREM ChatFallsOnlyToFatal == ChatSpec => []HubFallsOnlyToFatal
<1>1. ChatInit => PeerRegistered /\ KnownListed /\ InvitedPaired /\ FellToFatal
  BY DEF ChatInit, HubInit, Init, PeerRegistered, KnownListed, InvitedPaired, FellToFatal
<1>2. Hub /\ ChatTypes /\ PeerRegistered /\ KnownListed /\ InvitedPaired /\ FellToFatal
        /\ [ChatNext]_systemVars
        => (PeerRegistered /\ KnownListed /\ InvitedPaired /\ FellToFatal)'
  BY FatalStep
<1>3. FellToFatal => HubFallsOnlyToFatal
  BY DEF FellToFatal, HubFallsOnlyToFatal
<1> QED
  BY <1>1, <1>2, <1>3, ChatTypesHold, PTL DEF ChatSpec
=============================================================================
