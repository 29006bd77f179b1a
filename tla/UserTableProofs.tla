-------------------------- MODULE UserTableProofs --------------------------
(***************************************************************************)
(* What holds of the user list for every set of names, hosts and ports and *)
(* every bound.  A handler changes the list in one of two ways only: it    *)
(* appends a user, after moving the earlier ones to new storage when it is *)
(* full, or it connects two entries with each other.  StepShape says so,   *)
(* and every invariant is proved from those two ways.  At the end: the     *)
(* handlers implement the ledger of pairs.                                 *)
(***************************************************************************)
EXTENDS UserTable, TLAPS

Appends ==
    \E n \in Names, p \in Ports, a \in Hosts : VectorPushBack(MakeUser(n, p, a))

ConnectsTwo(i, j, connect) ==
    g_UserList' = [g_UserList EXCEPT
                     ![i] = Opposite(g_UserList[i], g_UserList[j], connect),
                     ![j] = Opposite(g_UserList[j], g_UserList[i], connect)]

Connects ==
    /\ \E i, j \in DOMAIN g_UserList : \E connect \in BOOLEAN :
          /\ FirstTwo(i, j, Named(g_UserList[i].name) \cup Named(g_UserList[j].name))
          /\ ConnectsTwo(i, j, connect)
    /\ capacity' = capacity

Keeps == UNCHANGED <<g_UserList, capacity>>

-----------------------------------------------------------------------------
(* The shape of a step.                                                    *)

\* ConnectUser connects two different entries of the list, or crashes.
LEMMA ConnectUserShape ==
    ASSUME TypeOK,
           NEW u1, NEW u2, NEW connect \in BOOLEAN,
           ConnectUser(u1, u2, connect)
    PROVE  (Connects \/ Keeps) /\ running' \in BOOLEAN
<1> DEFINE hits == Named(u1) \cup Named(u2)
<1>1. hits \subseteq DOMAIN g_UserList
  BY DEF Named
<1>2. g_UserList \in Seq(User) /\ DOMAIN g_UserList \subseteq Nat
  BY DEF TypeOK
<1>3. CASE \A i, j \in hits : i = j
  <2>1. CASE Crash
    BY <2>1 DEF Crash, Keeps
  <2>2. CASE ~ Crash
    <3>1. PICK i, j \in hits : FirstTwo(i, j, hits)
      BY <2>2 DEF ConnectUser
    <3>2. i < j /\ i = j
      BY <3>1, <1>3 DEF FirstTwo
    <3> QED
      BY <3>2, <1>1, <1>2
  <2> QED
    BY <2>1, <2>2
<1>4. CASE ~ \A i, j \in hits : i = j
  <2>1. PICK i, j \in hits :
           /\ FirstTwo(i, j, hits)
           /\ ConnectsTwo(i, j, connect)
           /\ UNCHANGED <<capacity, running>>
    BY <1>4, <1>1 DEF ConnectUser, ConnectsTwo
  <2>2. i \in DOMAIN g_UserList /\ j \in DOMAIN g_UserList
    BY <1>1
  <2>3. FirstTwo(i, j, Named(g_UserList[i].name) \cup Named(g_UserList[j].name))
    BY <2>1, <2>2 DEF FirstTwo, Named
  <2> QED
    BY <2>1, <2>2, <2>3 DEF Connects, TypeOK
<1> QED
  BY <1>3, <1>4

\* A handler appends a user, connects two entries, or leaves the list alone.
LEMMA StepShape ==
    ASSUME TypeOK, Next
    PROVE  (Appends \/ Connects \/ Keeps) /\ running' \in BOOLEAN
<1>1. CASE Login
  BY <1>1 DEF Login, AskLogin, Appends, TypeOK
<1>2. CASE AllUser
  BY <1>2 DEF AllUser, AskAllUser, Crash, Keeps, TypeOK
<1>3. CASE Invite
  BY <1>3, ConnectUserShape DEF Invite, AskInvite
<1>4. CASE Data
  BY <1>4 DEF Data, AskData, Quiet, Keeps, TypeOK
<1>5. CASE ExitGame
  <2>1. PICK user \in Names : AskExitGame(user)
    BY <1>5 DEF ExitGame
  <2>2. CASE Quiet
    BY <2>2 DEF Quiet, Keeps, TypeOK
  <2>3. CASE \E k \in Named(user) : ConnectUser(user, g_UserList[k].conn_name, FALSE)
    BY <2>3, ConnectUserShape
  <2> QED
    BY <2>1, <2>2, <2>3 DEF AskExitGame
<1>6. CASE Other
  BY <1>6 DEF Other, AskOther, Quiet, Keeps, TypeOK
<1> QED
  BY <1>1, <1>2, <1>3, <1>4, <1>5, <1>6 DEF Next
-----------------------------------------------------------------------------
(* What the two ways of changing the list do to its entries.               *)

\* u was copied into new storage: its opposite's address is blanked.
MovedUser(u) == [u EXCEPT !.conn_server_name = NoHost, !.conn_server_port = NoPort]

\* u is the entry of a user that just logged in.
NewEntry(u, n, p, a) ==
    /\ u.name = n /\ u.server_name = a /\ u.server_port = p
    /\ ~ u.is_conn /\ u.conn_name = NoName
    /\ u.conn_server_name = NoHost /\ u.conn_server_port = NoPort

\* vector_push_back keeps every entry, up to a move, and adds a blank one.
LEMMA AppendShape ==
    ASSUME TypeOK,
           NEW n \in Names, NEW p \in Ports, NEW a \in Hosts,
           VectorPushBack(MakeUser(n, p, a))
    PROVE  /\ g_UserList' \in Seq(User)
           /\ DOMAIN g_UserList' = 1 .. Len(g_UserList) + 1
           /\ Len(g_UserList') = Len(g_UserList) + 1
           /\ Len(g_UserList') <= capacity'
           /\ capacity' \in Nat
           /\ NewEntry(g_UserList'[Len(g_UserList) + 1], n, p, a)
           /\ \A i \in DOMAIN g_UserList :
                \/ g_UserList'[i] = g_UserList[i]
                \/ g_UserList'[i] = MovedUser(g_UserList[i])
<1> DEFINE u == CopyUser(BlankUser, MakeUser(n, p, a))
           kept == IF Len(g_UserList) = capacity THEN Moved(g_UserList) ELSE g_UserList
<1>1. g_UserList \in Seq(User) /\ Len(g_UserList) \in Nat /\ capacity \in Nat
  BY DEF TypeOK
<1>2. u \in User /\ NewEntry(u, n, p, a)
  <2>1. MakeUser(n, p, a) \in User /\ NewEntry(MakeUser(n, p, a), n, p, a)
    BY DEF MakeUser, User, NewEntry
  <2>2. BlankUser.conn_server_name = NoHost /\ BlankUser.conn_server_port = NoPort
    BY DEF BlankUser
  <2> QED
    BY <2>1, <2>2 DEF CopyUser, User, NewEntry
<1>3. \A v \in User : CopyUser(BlankUser, v) = MovedUser(v) /\ MovedUser(v) \in User
  BY DEF CopyUser, BlankUser, MovedUser, User
<1>4. Moved(g_UserList) \in Seq(User) /\ Len(Moved(g_UserList)) = Len(g_UserList)
  BY <1>1, <1>3 DEF Moved
<1>5. /\ kept \in Seq(User) /\ Len(kept) = Len(g_UserList)
      /\ \A i \in DOMAIN g_UserList :
           kept[i] = g_UserList[i] \/ kept[i] = MovedUser(g_UserList[i])
  BY <1>1, <1>3, <1>4 DEF Moved
<1>6. g_UserList' = Append(kept, u)
  BY DEF VectorPushBack
<1>7. capacity' \in Nat /\ Len(g_UserList) + 1 <= capacity'
  <2>1. Grown(capacity) \in Nat /\ capacity + 1 <= Grown(capacity)
    BY <1>1, SlackAssumption DEF Grown
  <2> QED
    BY <2>1, <1>1 DEF VectorPushBack, TypeOK
<1> HIDE DEF u, kept
<1> QED
  BY <1>1, <1>2, <1>5, <1>6, <1>7

\* The two entries ConnectUser finds are different.
LEMMA ConnectsDiffer ==
    ASSUME TypeOK, Connects
    PROVE  \E i, j \in DOMAIN g_UserList : \E connect \in BOOLEAN :
              i # j /\ ConnectsTwo(i, j, connect)
<1>1. \A i \in DOMAIN g_UserList : i \in Nat
  BY DEF TypeOK
<1> QED
  BY <1>1 DEF Connects, FirstTwo

\* ConnectUser writes the two entries it names and no other.
LEMMA ConnectShape ==
    ASSUME TypeOK,
           NEW i \in DOMAIN g_UserList, NEW j \in DOMAIN g_UserList, i # j,
           NEW connect \in BOOLEAN, ConnectsTwo(i, j, connect)
    PROVE  /\ g_UserList' \in Seq(User)
           /\ DOMAIN g_UserList' = DOMAIN g_UserList
           /\ Len(g_UserList') = Len(g_UserList)
           /\ g_UserList'[i] = Opposite(g_UserList[i], g_UserList[j], connect)
           /\ g_UserList'[j] = Opposite(g_UserList[j], g_UserList[i], connect)
           /\ \A k \in DOMAIN g_UserList \ {i, j} : g_UserList'[k] = g_UserList[k]
<1>1. g_UserList \in Seq(User)
  BY DEF TypeOK
<1>2. \A u, v \in User : Opposite(u, v, connect) \in User
  BY DEF Opposite, User
<1>3. g_UserList[i] \in User /\ g_UserList[j] \in User
  BY <1>1
<1> QED
  BY <1>1, <1>2, <1>3 DEF ConnectsTwo

\* Neither way changes a name, an address or a port, nor forgets an opposite.
LEMMA StepKeeps ==
    ASSUME TypeOK, Next
    PROVE  /\ g_UserList' \in Seq(User)
           /\ Len(g_UserList) <= Len(g_UserList')
           /\ DOMAIN g_UserList \subseteq DOMAIN g_UserList'
           /\ \A k \in DOMAIN g_UserList :
                /\ g_UserList'[k].name = g_UserList[k].name
                /\ g_UserList'[k].server_name = g_UserList[k].server_name
                /\ g_UserList'[k].server_port = g_UserList[k].server_port
                /\ g_UserList[k].conn_name # NoName => g_UserList'[k].conn_name # NoName
<1>1. /\ g_UserList \in Seq(User)
      /\ \A k \in DOMAIN g_UserList : g_UserList[k] \in User /\ g_UserList[k].name \in Names
  BY DEF TypeOK
<1>2. CASE Appends
  <2>1. PICK n \in Names, p \in Ports, a \in Hosts : VectorPushBack(MakeUser(n, p, a))
    BY <1>2 DEF Appends
  <2>2. /\ g_UserList' \in Seq(User)
        /\ DOMAIN g_UserList' = 1 .. Len(g_UserList) + 1
        /\ Len(g_UserList') = Len(g_UserList) + 1
        /\ \A k \in DOMAIN g_UserList :
             g_UserList'[k] = g_UserList[k] \/ g_UserList'[k] = MovedUser(g_UserList[k])
    BY <2>1, AppendShape
  <2>3. DOMAIN g_UserList = 1 .. Len(g_UserList) /\ Len(g_UserList) \in Nat
    BY <1>1
  <2>4. \A v \in User : /\ MovedUser(v).name = v.name
                         /\ MovedUser(v).server_name = v.server_name
                         /\ MovedUser(v).server_port = v.server_port
                         /\ MovedUser(v).conn_name = v.conn_name
    BY DEF MovedUser, User
  <2>5. Len(g_UserList) <= Len(g_UserList') /\ DOMAIN g_UserList \subseteq DOMAIN g_UserList'
    BY <2>2, <2>3
  <2> QED
    BY <1>1, <2>2, <2>4, <2>5
<1>3. CASE Connects
  <2>1. PICK i \in DOMAIN g_UserList, j \in DOMAIN g_UserList, connect \in BOOLEAN :
           i # j /\ ConnectsTwo(i, j, connect)
    BY <1>3, ConnectsDiffer
  <2>2. /\ g_UserList' \in Seq(User)
        /\ DOMAIN g_UserList' = DOMAIN g_UserList
        /\ Len(g_UserList') = Len(g_UserList)
        /\ g_UserList'[i] = Opposite(g_UserList[i], g_UserList[j], connect)
        /\ g_UserList'[j] = Opposite(g_UserList[j], g_UserList[i], connect)
        /\ \A k \in DOMAIN g_UserList \ {i, j} : g_UserList'[k] = g_UserList[k]
    BY <2>1, ConnectShape
  <2>3. \A v, w \in User : /\ Opposite(v, w, connect).name = v.name
                            /\ Opposite(v, w, connect).server_name = v.server_name
                            /\ Opposite(v, w, connect).server_port = v.server_port
                            /\ Opposite(v, w, connect).conn_name = w.name
    BY DEF Opposite, User
  <2>4. ASSUME NEW k \in DOMAIN g_UserList
        PROVE  /\ g_UserList'[k].name = g_UserList[k].name
               /\ g_UserList'[k].server_name = g_UserList[k].server_name
               /\ g_UserList'[k].server_port = g_UserList[k].server_port
               /\ g_UserList[k].conn_name # NoName => g_UserList'[k].conn_name # NoName
    <3>1. g_UserList[i].name # NoName /\ g_UserList[j].name # NoName
      BY <1>1, NoNameAssumption
    <3>2. CASE k = i
      BY <1>1, <2>2, <2>3, <3>1, <3>2
    <3>3. CASE k = j
      BY <1>1, <2>2, <2>3, <3>1, <3>3
    <3>4. CASE k # i /\ k # j
      BY <2>2, <3>4
    <3> QED
      BY <3>2, <3>3, <3>4
  <2>5. Len(g_UserList) <= Len(g_UserList')
    <3>1. Len(g_UserList) \in Nat
      BY <1>1
    <3> QED
      BY <2>2, <3>1
  <2> QED
    BY <2>2, <2>4, <2>5
<1>4. CASE Keeps
  BY <1>1, <1>4 DEF Keeps
<1> QED
  BY <1>2, <1>3, <1>4, StepShape

-----------------------------------------------------------------------------
(* Type correctness.                                                       *)

LEMMA TypeStep == TypeOK /\ [Next]_vars => TypeOK'
<1> SUFFICES ASSUME TypeOK, [Next]_vars PROVE TypeOK'
  OBVIOUS
<1>1. CASE UNCHANGED vars
  BY <1>1 DEF vars, TypeOK
<1>2. CASE Next
  <2>1. running' \in BOOLEAN
    BY <1>2, StepShape
  <2>2. CASE Appends
    <3>1. PICK n \in Names, p \in Ports, a \in Hosts : VectorPushBack(MakeUser(n, p, a))
      BY <2>2 DEF Appends
    <3>2. /\ g_UserList' \in Seq(User)
          /\ DOMAIN g_UserList' = 1 .. Len(g_UserList) + 1
          /\ Len(g_UserList') <= capacity'
          /\ capacity' \in Nat
          /\ NewEntry(g_UserList'[Len(g_UserList) + 1], n, p, a)
      BY <3>1, AppendShape
    <3>3. \A k \in DOMAIN g_UserList :
             /\ g_UserList'[k].name \in Names
             /\ g_UserList'[k].server_name \in Hosts
             /\ g_UserList'[k].server_port \in Ports
      BY <1>2, StepKeeps DEF TypeOK
    <3>4. LET k == Len(g_UserList) + 1
          IN  /\ g_UserList'[k].name \in Names
              /\ g_UserList'[k].server_name \in Hosts
              /\ g_UserList'[k].server_port \in Ports
      BY <3>2 DEF NewEntry
    <3>5. \A k \in DOMAIN g_UserList' : k \in DOMAIN g_UserList \/ k = Len(g_UserList) + 1
      BY <3>2 DEF TypeOK
    <3> QED
      BY <2>1, <3>2, <3>3, <3>4, <3>5 DEF TypeOK
  <2>3. CASE Connects
    <3>1. /\ DOMAIN g_UserList' = DOMAIN g_UserList
          /\ Len(g_UserList') = Len(g_UserList)
          /\ capacity' = capacity
      BY <2>3, ConnectShape, ConnectsDiffer DEF Connects
    <3> QED
      BY <1>2, <2>1, <3>1, StepKeeps DEF TypeOK
  <2>4. CASE Keeps
    BY <2>1, <2>4 DEF Keeps, TypeOK
  <2> QED
    BY <1>2, <2>2, <2>3, <2>4, StepShape
<1> QED
  BY <1>1, <1>2

\* Every reachable list holds named users with addresses, and fits its
\* storage, for any number of logins.
THEOREM TypeCorrect == Spec => []TypeOK
<1>1. Init => TypeOK
  BY DEF Init, TypeOK
<1> QED
  BY <1>1, TypeStep, PTL DEF Spec

\* No handler renames, readdresses, reorders or drops a listed user.
THEOREM IdentitiesStay == Spec => ListGrowsOnly
<1>1. TypeOK /\ [Next]_vars => [IdentitiesKept]_vars
  BY StepKeeps DEF IdentitiesKept, vars
<1> QED
  BY <1>1, TypeCorrect, PTL DEF Spec, ListGrowsOnly

-----------------------------------------------------------------------------
(* The opposite of a paired user.                                          *)

LEMMA PeerStep == TypeOK /\ PeerRegistered /\ [Next]_vars => PeerRegistered'
<1> SUFFICES ASSUME TypeOK, PeerRegistered, [Next]_vars,
                    NEW k \in DOMAIN g_UserList', g_UserList'[k].conn_name # NoName
             PROVE  \E m \in DOMAIN g_UserList' \ {k} :
                       /\ g_UserList'[m].name = g_UserList'[k].conn_name
                       /\ g_UserList'[m].conn_name # NoName
  BY DEF PeerRegistered
<1>1. CASE UNCHANGED g_UserList
  BY <1>1 DEF PeerRegistered
<1>2. CASE Next
  <2>1. ASSUME k \in DOMAIN g_UserList, g_UserList'[k].conn_name = g_UserList[k].conn_name
        PROVE  \E m \in DOMAIN g_UserList' \ {k} :
                  /\ g_UserList'[m].name = g_UserList'[k].conn_name
                  /\ g_UserList'[m].conn_name # NoName
    <3>1. PICK m \in DOMAIN g_UserList \ {k} :
             /\ g_UserList[m].name = g_UserList[k].conn_name
             /\ g_UserList[m].conn_name # NoName
      BY <2>1 DEF PeerRegistered
    <3> QED
      BY <1>2, <2>1, <3>1, StepKeeps
  <2>2. CASE Appends
    <3>1. PICK n \in Names, p \in Ports, a \in Hosts : VectorPushBack(MakeUser(n, p, a))
      BY <2>2 DEF Appends
    <3>2. /\ DOMAIN g_UserList' = 1 .. Len(g_UserList) + 1
          /\ g_UserList'[Len(g_UserList) + 1].conn_name = NoName
          /\ \A i \in DOMAIN g_UserList :
               g_UserList'[i] = g_UserList[i] \/ g_UserList'[i] = MovedUser(g_UserList[i])
      BY <3>1, AppendShape DEF NewEntry
    <3>3. k \in DOMAIN g_UserList
      BY <3>2 DEF TypeOK
    <3>4. g_UserList'[k].conn_name = g_UserList[k].conn_name
      <4>1. g_UserList[k] \in User
        BY <3>3 DEF TypeOK
      <4>2. MovedUser(g_UserList[k]).conn_name = g_UserList[k].conn_name
        BY <4>1 DEF MovedUser, User
      <4> QED
        BY <3>2, <3>3, <4>2
    <3> QED
      BY <2>1, <3>3, <3>4
  <2>3. CASE Connects
    <3>1. PICK i \in DOMAIN g_UserList, j \in DOMAIN g_UserList, connect \in BOOLEAN :
             i # j /\ ConnectsTwo(i, j, connect)
      BY <2>3, ConnectsDiffer
    <3>2. /\ DOMAIN g_UserList' = DOMAIN g_UserList
          /\ g_UserList'[i] = Opposite(g_UserList[i], g_UserList[j], connect)
          /\ g_UserList'[j] = Opposite(g_UserList[j], g_UserList[i], connect)
          /\ \A m \in DOMAIN g_UserList \ {i, j} : g_UserList'[m] = g_UserList[m]
      BY <3>1, ConnectShape
    <3>3. /\ g_UserList[i] \in User /\ g_UserList[i].name # NoName
          /\ g_UserList[j] \in User /\ g_UserList[j].name # NoName
      BY NoNameAssumption DEF TypeOK
    <3>4. /\ g_UserList'[i].conn_name = g_UserList[j].name
          /\ g_UserList'[i].name = g_UserList[i].name
          /\ g_UserList'[j].conn_name = g_UserList[i].name
          /\ g_UserList'[j].name = g_UserList[j].name
      BY <3>2, <3>3 DEF Opposite, User
    <3>5. CASE k = i
      BY <3>1, <3>2, <3>3, <3>4, <3>5
    <3>6. CASE k = j
      BY <3>1, <3>2, <3>3, <3>4, <3>6
    <3>7. CASE k # i /\ k # j
      BY <2>1, <3>2, <3>7
    <3> QED
      BY <3>5, <3>6, <3>7
  <2>4. CASE Keeps
    BY <1>1, <2>4 DEF Keeps
  <2> QED
    BY <1>2, <2>2, <2>3, <2>4, StepShape
<1> QED
  BY <1>1, <1>2 DEF vars

\* A user that was ever paired has a listed, paired opposite, however many
\* logins, invitations, exits and moves of the list follow.
THEOREM PeersRegistered == Spec => []PeerRegistered
<1>1. Init => PeerRegistered
  BY DEF Init, PeerRegistered
<1> QED
  BY <1>1, PeerStep, TypeCorrect, PTL DEF Spec

-----------------------------------------------------------------------------
(* The recorded address of the opposite.                                   *)

\* Entry i of the list holds either no address of its opposite, or the whole
\* address of another entry that bears the opposite's name.
RouteOf(i) ==
    /\ g_UserList[i].conn_server_name = NoHost <=> g_UserList[i].conn_server_port = NoPort
    /\ g_UserList[i].is_conn => g_UserList[i].conn_name # NoName
    /\ g_UserList[i].conn_server_name # NoHost =>
         \E j \in DOMAIN g_UserList \ {i} :
            /\ g_UserList[j].name = g_UserList[i].conn_name
            /\ g_UserList[j].server_name = g_UserList[i].conn_server_name
            /\ g_UserList[j].server_port = g_UserList[i].conn_server_port

LEMMA RouteSoundSplit == RouteSound <=> \A i \in DOMAIN g_UserList : RouteOf(i)
BY DEF RouteSound, RouteOf

LEMMA RouteStep == TypeOK /\ RouteSound /\ [Next]_vars => RouteSound'
<1> SUFFICES ASSUME TypeOK, RouteSound, [Next]_vars PROVE RouteSound'
  OBVIOUS
<1>1. CASE UNCHANGED g_UserList
  BY <1>1 DEF RouteSound
<1>2. CASE Next
  <2> SUFFICES ASSUME NEW k \in DOMAIN g_UserList' PROVE RouteOf(k)'
    BY DEF RouteSound, RouteOf
  <2>1. ASSUME k \in DOMAIN g_UserList, g_UserList'[k] = g_UserList[k]
        PROVE  RouteOf(k)'
    BY <1>2, <2>1, StepKeeps DEF RouteSound, RouteOf
  <2>2. CASE Appends
    <3>1. PICK n \in Names, p \in Ports, a \in Hosts : VectorPushBack(MakeUser(n, p, a))
      BY <2>2 DEF Appends
    <3>2. /\ DOMAIN g_UserList' = 1 .. Len(g_UserList) + 1
          /\ NewEntry(g_UserList'[Len(g_UserList) + 1], n, p, a)
          /\ \A i \in DOMAIN g_UserList :
               g_UserList'[i] = g_UserList[i] \/ g_UserList'[i] = MovedUser(g_UserList[i])
      BY <3>1, AppendShape
    <3>3. CASE k \notin DOMAIN g_UserList
      <4>1. k = Len(g_UserList) + 1
        BY <3>2, <3>3 DEF TypeOK
      <4> QED
        BY <3>2, <4>1 DEF RouteOf, NewEntry
    <3>4. CASE k \in DOMAIN g_UserList /\ g_UserList'[k] = MovedUser(g_UserList[k])
      <4>1. g_UserList[k] \in User
        BY <3>4 DEF TypeOK
      <4>2. /\ MovedUser(g_UserList[k]).conn_server_name = NoHost
            /\ MovedUser(g_UserList[k]).conn_server_port = NoPort
            /\ MovedUser(g_UserList[k]).is_conn = g_UserList[k].is_conn
            /\ MovedUser(g_UserList[k]).conn_name = g_UserList[k].conn_name
        BY <4>1 DEF MovedUser, User
      <4> QED
        BY <3>4, <4>2 DEF RouteOf, RouteSound
    <3> QED
      BY <2>1, <3>2, <3>3, <3>4
  <2>3. CASE Connects
    <3>1. PICK i \in DOMAIN g_UserList, j \in DOMAIN g_UserList, connect \in BOOLEAN :
             i # j /\ ConnectsTwo(i, j, connect)
      BY <2>3, ConnectsDiffer
    <3>2. /\ DOMAIN g_UserList' = DOMAIN g_UserList
          /\ g_UserList'[i] = Opposite(g_UserList[i], g_UserList[j], connect)
          /\ g_UserList'[j] = Opposite(g_UserList[j], g_UserList[i], connect)
          /\ \A m \in DOMAIN g_UserList \ {i, j} : g_UserList'[m] = g_UserList[m]
      BY <3>1, ConnectShape
    <3>3. \A m \in DOMAIN g_UserList :
             /\ g_UserList[m] \in User
             /\ g_UserList[m].name # NoName
             /\ g_UserList[m].server_name # NoHost
             /\ g_UserList[m].server_port # NoPort
      BY NoNameAssumption, NoHostAssumption, NoPortAssumption DEF TypeOK
    <3>4. \A v, w \in User :
             /\ Opposite(v, w, connect).name = v.name
             /\ Opposite(v, w, connect).server_name = v.server_name
             /\ Opposite(v, w, connect).server_port = v.server_port
             /\ Opposite(v, w, connect).conn_name = w.name
             /\ Opposite(v, w, connect).conn_server_name = w.server_name
             /\ Opposite(v, w, connect).conn_server_port = w.server_port
      BY DEF Opposite, User
    <3>5. CASE k = i
      <4>1. /\ g_UserList'[i].conn_name = g_UserList'[j].name
            /\ g_UserList'[i].conn_server_name = g_UserList'[j].server_name
            /\ g_UserList'[i].conn_server_port = g_UserList'[j].server_port
            /\ g_UserList'[i].conn_name # NoName
            /\ g_UserList'[i].conn_server_name # NoHost
            /\ g_UserList'[i].conn_server_port # NoPort
        BY <3>2, <3>3, <3>4
      <4> QED
        BY <3>1, <3>2, <3>5, <4>1 DEF RouteOf
    <3>6. CASE k = j
      <4>1. /\ g_UserList'[j].conn_name = g_UserList'[i].name
            /\ g_UserList'[j].conn_server_name = g_UserList'[i].server_name
            /\ g_UserList'[j].conn_server_port = g_UserList'[i].server_port
            /\ g_UserList'[j].conn_name # NoName
            /\ g_UserList'[j].conn_server_name # NoHost
            /\ g_UserList'[j].conn_server_port # NoPort
        BY <3>2, <3>3, <3>4
      <4> QED
        BY <3>1, <3>2, <3>6, <4>1 DEF RouteOf
    <3>7. CASE k # i /\ k # j
      BY <2>1, <3>2, <3>7
    <3> QED
      BY <3>5, <3>6, <3>7
  <2>4. CASE Keeps
    BY <1>1, <2>4, <2>1 DEF Keeps
  <2> QED
    BY <1>2, <2>2, <2>3, <2>4, StepShape
<1> QED
  BY <1>1, <1>2 DEF vars

\* The address a user's data is relayed to is blank or wholly another user's.
THEOREM RoutesSound == Spec => []RouteSound
<1>1. Init => RouteSound
  BY DEF Init, RouteSound
<1> QED
  BY <1>1, RouteStep, TypeCorrect, PTL DEF Spec

\* A step that relays leaves the list alone, so what it sends goes where the
\* list it read says; every other step sends no data.
LEMMA RelayStep == TypeOK /\ RouteSound /\ RelayStaysInPair /\ [Next]_vars => RelayStaysInPair'
<1> SUFFICES ASSUME TypeOK, RouteSound, RelayStaysInPair, [Next]_vars
             PROVE  RelayStaysInPair'
  OBVIOUS
<1>1. CASE UNCHANGED vars
  BY <1>1 DEF vars, RelayStaysInPair
<1>2. CASE Data
  <2>1. PICK user \in Names, d \in Payloads : AskData(user, d)
    BY <1>2 DEF Data
  <2>2. CASE Quiet
    BY <2>2 DEF Quiet, NoSend, RelayStaysInPair
  <2>3. CASE \E k \in Named(user) :
               /\ IF g_UserList[k].is_conn
                    THEN sent' = Relay(g_UserList[k], d)
                    ELSE sent' = NoSend
               /\ UNCHANGED <<g_UserList, capacity, running>>
    <3>1. PICK k \in Named(user) :
             /\ IF g_UserList[k].is_conn
                  THEN sent' = Relay(g_UserList[k], d)
                  ELSE sent' = NoSend
             /\ UNCHANGED <<g_UserList, capacity, running>>
      BY <2>3
    <3>2. k \in DOMAIN g_UserList
      BY DEF Named
    <3>3. CASE ~ g_UserList[k].is_conn
      BY <3>1, <3>3 DEF NoSend, RelayStaysInPair
    <3>4. CASE g_UserList[k].is_conn
      <4>1. /\ sent'.from = g_UserList[k].name
            /\ sent'.host = g_UserList[k].conn_server_name
            /\ sent'.port = g_UserList[k].conn_server_port
        BY <3>1, <3>4 DEF Relay
      <4>2. RouteOf(k)
        BY <3>2, RouteSoundSplit
      <4>3. \/ sent'.host = NoHost /\ sent'.port = NoPort
            \/ \E j \in DOMAIN g_UserList \ {k} :
                 /\ g_UserList[j].name = g_UserList[k].conn_name
                 /\ g_UserList[j].server_name = sent'.host
                 /\ g_UserList[j].server_port = sent'.port
        BY <4>1, <4>2 DEF RouteOf
      <4>4. g_UserList' = g_UserList
        BY <3>1
      <4> QED
        BY <3>2, <3>4, <4>1, <4>3, <4>4 DEF RelayStaysInPair
    <3> QED
      BY <3>3, <3>4
  <2> QED
    BY <2>1, <2>2, <2>3 DEF AskData
<1>3. CASE Login \/ AllUser \/ Invite \/ ExitGame \/ Other
  <2>1. NoSend.kind # "data"
    BY DEF NoSend
  <2>2. \A kind, u, body : Reply(kind, u, body).kind = kind
    BY DEF Reply
  <2>3. ASSUME NEW u1, NEW u2, NEW connect, ConnectUser(u1, u2, connect)
        PROVE  sent' = NoSend
    BY <2>3 DEF ConnectUser, Crash
  <2>4. CASE Login
    <3>1. PICK k \in DOMAIN g_UserList' : sent' = Reply("ok", g_UserList'[k], <<>>)
      BY <2>4 DEF Login, AskLogin
    <3>2. sent'.kind = "ok"
      BY <2>2, <3>1
    <3> QED
      BY <3>2 DEF RelayStaysInPair
  <2>5. CASE AllUser
    <3>1. sent' = NoSend \/ \E u : sent' = Reply("list", u, Listing)
      BY <2>5 DEF AllUser, AskAllUser, Crash
    <3>2. sent'.kind # "data"
      BY <2>1, <2>2, <3>1
    <3> QED
      BY <3>2 DEF RelayStaysInPair
  <2>6. CASE Invite
    BY <2>1, <2>3, <2>6 DEF Invite, AskInvite, RelayStaysInPair
  <2>7. CASE ExitGame
    BY <2>1, <2>3, <2>7 DEF ExitGame, AskExitGame, Quiet, RelayStaysInPair
  <2>8. CASE Other
    BY <2>1, <2>8 DEF Other, AskOther, Quiet, RelayStaysInPair
  <2> QED
    BY <1>3, <2>4, <2>5, <2>6, <2>7, <2>8
<1> QED
  BY <1>1, <1>2, <1>3 DEF Next

\* Data is relayed only for a user that is playing, and only to nobody or to
\* a user named as its opposite.
THEOREM RelaysStayInPair == Spec => []RelayStaysInPair
<1>1. Init => RelayStaysInPair
  BY DEF Init, NoSend, RelayStaysInPair
<1> QED
  BY <1>1, RelayStep, TypeCorrect, RoutesSound, PTL DEF Spec

-----------------------------------------------------------------------------
(* Why an exit of a paired user finds two entries.  DisConnectUser reads   *)
(* the opposite of the FIRST entry of that name, so the invariant is about *)
(* first entries: if any entry of a name, or any entry whose opposite has  *)
(* that name, was paired, the first entry of the name was paired.  It      *)
(* holds because ConnectUser stops at the first two hits.                  *)

FirstPaired(n) ==
    \A k \in Named(n) : First(k, Named(n)) => g_UserList[k].conn_name # NoName

FirstsPaired ==
    \A i \in DOMAIN g_UserList : g_UserList[i].conn_name # NoName =>
        FirstPaired(g_UserList[i].name) /\ FirstPaired(g_UserList[i].conn_name)

\* A first entry that was paired stays first and paired.
LEMMA FirstPairedKept ==
    ASSUME TypeOK, Next, NEW n, Named(n) # {}, FirstPaired(n)
    PROVE  FirstPaired(n)'
<1> SUFFICES ASSUME NEW k \in Named(n)', First(k, Named(n))'
             PROVE  g_UserList'[k].conn_name # NoName
  BY DEF FirstPaired
<1>1. Named(n) \subseteq Named(n)'
  BY StepKeeps DEF Named
<1>2. PICK m : m \in Named(n)
  OBVIOUS
<1>3. k <= m
  BY <1>1, <1>2 DEF First
<1>4. k \in DOMAIN g_UserList
  BY <1>2, <1>3, StepKeeps DEF Named, TypeOK
<1>5. k \in Named(n)
  BY <1>4, StepKeeps DEF Named
<1>6. First(k, Named(n))
  BY <1>1, <1>5 DEF First
<1> QED
  BY <1>4, <1>5, <1>6, StepKeeps DEF FirstPaired

\* ConnectUser pairs the first entries of the two names it hits.
LEMMA ConnectPairsFirsts ==
    ASSUME TypeOK,
           NEW i \in DOMAIN g_UserList, NEW j \in DOMAIN g_UserList,
           NEW connect \in BOOLEAN, ConnectsTwo(i, j, connect),
           FirstTwo(i, j, Named(g_UserList[i].name) \cup Named(g_UserList[j].name)),
           Next,
           NEW n \in {g_UserList[i].name, g_UserList[j].name}
    PROVE  FirstPaired(n)'
<1>1. i # j
  BY DEF FirstTwo, TypeOK
<1>2. /\ DOMAIN g_UserList' = DOMAIN g_UserList
      /\ g_UserList'[i] = Opposite(g_UserList[i], g_UserList[j], connect)
      /\ g_UserList'[j] = Opposite(g_UserList[j], g_UserList[i], connect)
  BY <1>1, ConnectShape
<1>3. \A m \in DOMAIN g_UserList : g_UserList[m] \in User /\ g_UserList[m].name # NoName
  BY NoNameAssumption DEF TypeOK
<1>4. g_UserList'[i].conn_name # NoName /\ g_UserList'[j].conn_name # NoName
  <2>1. \A v, w \in User : Opposite(v, w, connect).conn_name = w.name
    BY DEF Opposite, User
  <2> QED
    BY <1>2, <1>3, <2>1
<1>5. Named(n)' = Named(n)
  BY <1>2, StepKeeps DEF Named
<1>6. ASSUME NEW k \in Named(n), First(k, Named(n))
      PROVE  g_UserList'[k].conn_name # NoName
  <2>1. PICK e \in {i, j} : n = g_UserList[e].name /\ e \in Named(n)
    BY DEF Named
  <2>2. k <= e
    BY <1>6, <2>1 DEF First
  <2>3. k = i \/ k >= j
    BY DEF FirstTwo
  <2>4. k \in Nat /\ i \in Nat /\ j \in Nat /\ i < j
    BY DEF Named, TypeOK, FirstTwo
  <2>5. k = i \/ k = j
    BY <2>1, <2>2, <2>3, <2>4
  <2> QED
    BY <1>4, <2>5
<1> QED
  BY <1>5, <1>6 DEF FirstPaired, First

LEMMA FirstsStep ==
    TypeOK /\ PeerRegistered /\ FirstsPaired /\ [Next]_vars => FirstsPaired'
<1> SUFFICES ASSUME TypeOK, PeerRegistered, FirstsPaired, [Next]_vars
             PROVE  FirstsPaired'
  OBVIOUS
<1>1. CASE UNCHANGED g_UserList
  BY <1>1 DEF FirstsPaired, FirstPaired, First, Named
<1>2. CASE Next
  <2> SUFFICES ASSUME NEW m \in DOMAIN g_UserList', g_UserList'[m].conn_name # NoName,
                      NEW n \in {g_UserList'[m].name, g_UserList'[m].conn_name}
               PROVE  FirstPaired(n)'
    BY DEF FirstsPaired, FirstPaired, First, Named
  <2>1. ASSUME m \in DOMAIN g_UserList, g_UserList'[m].conn_name = g_UserList[m].conn_name
        PROVE  FirstPaired(n)'
    <3>1. n = g_UserList[m].name \/ n = g_UserList[m].conn_name
      BY <1>2, <2>1, StepKeeps
    <3>2. FirstPaired(n)
      BY <2>1, <3>1 DEF FirstsPaired
    <3>3. Named(n) # {}
      BY <2>1, <3>1 DEF PeerRegistered, Named
    <3> QED
      BY <1>2, <3>2, <3>3, FirstPairedKept
  <2>2. CASE Appends
    <3>1. PICK u \in Names, p \in Ports, a \in Hosts : VectorPushBack(MakeUser(u, p, a))
      BY <2>2 DEF Appends
    <3>2. /\ DOMAIN g_UserList' = 1 .. Len(g_UserList) + 1
          /\ g_UserList'[Len(g_UserList) + 1].conn_name = NoName
          /\ \A i \in DOMAIN g_UserList :
               g_UserList'[i] = g_UserList[i] \/ g_UserList'[i] = MovedUser(g_UserList[i])
      BY <3>1, AppendShape DEF NewEntry
    <3>3. m \in DOMAIN g_UserList
      BY <3>2 DEF TypeOK
    <3>4. g_UserList[m] \in User
      BY <3>3 DEF TypeOK
    <3>5. MovedUser(g_UserList[m]).conn_name = g_UserList[m].conn_name
      BY <3>4 DEF MovedUser, User
    <3> QED
      BY <2>1, <3>2, <3>3, <3>5
  <2>3. CASE Connects
    <3>1. PICK i \in DOMAIN g_UserList, j \in DOMAIN g_UserList, connect \in BOOLEAN :
             /\ FirstTwo(i, j, Named(g_UserList[i].name) \cup Named(g_UserList[j].name))
             /\ ConnectsTwo(i, j, connect)
      BY <2>3 DEF Connects
    <3>2. i # j
      BY <3>1 DEF FirstTwo, TypeOK
    <3>3. /\ DOMAIN g_UserList' = DOMAIN g_UserList
          /\ g_UserList'[i] = Opposite(g_UserList[i], g_UserList[j], connect)
          /\ g_UserList'[j] = Opposite(g_UserList[j], g_UserList[i], connect)
          /\ \A k \in DOMAIN g_UserList \ {i, j} : g_UserList'[k] = g_UserList[k]
      BY <3>1, <3>2, ConnectShape
    <3>4. \A v, w \in User : /\ Opposite(v, w, connect).name = v.name
                             /\ Opposite(v, w, connect).conn_name = w.name
      BY DEF Opposite, User
    <3>5. CASE m \in {i, j}
      <4>1. n \in {g_UserList[i].name, g_UserList[j].name}
        BY <3>3, <3>4, <3>5 DEF TypeOK
      <4> QED
        BY <1>2, <3>1, <4>1, ConnectPairsFirsts
    <3>6. CASE m \notin {i, j}
      BY <2>1, <3>3, <3>6
    <3> QED
      BY <3>5, <3>6
  <2>4. CASE Keeps
    BY <2>1, <2>4 DEF Keeps
  <2> QED
    BY <1>2, <2>2, <2>3, <2>4, StepShape
<1> QED
  BY <1>1, <1>2 DEF vars

\* Once paired, a user and whoever it counts as its opposite can leave the
\* game at any time, and again, without bringing the hub down.
THEOREM PairedExitsSafe == Spec => []PairedExitSafe
<1>1. Init => FirstsPaired
  BY DEF Init, FirstsPaired
<1>2. TypeOK /\ PeerRegistered /\ FirstsPaired => PairedExitSafe
  <2> SUFFICES ASSUME TypeOK, PeerRegistered, FirstsPaired,
                      NEW i \in DOMAIN g_UserList, g_UserList[i].conn_name # NoName,
                      NEW n \in {g_UserList[i].name, g_UserList[i].conn_name}
               PROVE  ExitFindsTwo(n)
    BY DEF PairedExitSafe
  <2>1. Named(n) # {}
    BY DEF PeerRegistered, Named
  <2>2. FirstPaired(n)
    BY DEF FirstsPaired
  <2>3. ASSUME NEW k \in Named(n), First(k, Named(n))
        PROVE  \E x, y \in Named(n) \cup Named(g_UserList[k].conn_name) : x # y
    <3>1. k \in DOMAIN g_UserList /\ g_UserList[k].conn_name # NoName
      BY <2>2, <2>3 DEF FirstPaired, Named
    <3>2. PICK y \in DOMAIN g_UserList \ {k} : g_UserList[y].name = g_UserList[k].conn_name
      BY <3>1 DEF PeerRegistered
    <3>3. y \in Named(g_UserList[k].conn_name) /\ y # k
      BY <3>2 DEF Named
    <3> QED
      BY <3>3
  <2> QED
    BY <2>1, <2>3 DEF ExitFindsTwo
<1> QED
  BY <1>1, <1>2, FirstsStep, TypeCorrect, PeersRegistered, PTL DEF Spec

-----------------------------------------------------------------------------
(***************************************************************************)
(* The handlers of the hub implement the ledger of pairs, for any names,   *)
(* addresses and number of logins, as long as names are distinct: then a   *)
(* name has one entry, which every handler keeps, and the first two hits   *)
(* of ConnectUser are the two users it was asked about.                    *)
(***************************************************************************)

\* The ledger's variables, as the mapping of UserTable reads them off the list.
Partner == [n \in Names |-> IF n \in Listed THEN Entry(n).conn_name ELSE NoName]

Playing == {n \in Listed : Entry(n).is_conn}

Reach(host, port) ==
    {n \in Listed : Entry(n).server_name = host /\ Entry(n).server_port = port}

Line == IF sent.kind = "data"
          THEN [from |-> sent.from, reach |-> Reach(sent.host, sent.port)]
          ELSE [from |-> NoName, reach |-> {}]

-----------------------------------------------------------------------------
(* The one entry of a name.                                                *)

LEMMA OneEntry ==
    ASSUME TypeOK, DistinctNames, NEW n, NEW i \in DOMAIN g_UserList, g_UserList[i].name = n
    PROVE  Entry(n) = g_UserList[i] /\ n \in Listed /\ n \in Names
<1>1. Named(n) = {i}
  BY DEF Named, DistinctNames
<1>2. (CHOOSE k \in {i} : TRUE) = i
  OBVIOUS
<1>3. n \in Names
  BY DEF TypeOK
<1> QED
  BY <1>1, <1>2, <1>3 DEF Entry, Listed

\* The same of the list after a step.
LEMMA OneEntryAfter ==
    ASSUME TypeOK', DistinctNames', NEW n, NEW i \in DOMAIN g_UserList', g_UserList'[i].name = n
    PROVE  Entry(n)' = g_UserList'[i] /\ n \in Listed' /\ n \in Names
<1>1. Named(n)' = {i}
  BY DEF Named, DistinctNames
<1>2. (CHOOSE k \in {i} : TRUE) = i
  OBVIOUS
<1>3. n \in Names
  BY DEF TypeOK
<1> QED
  BY <1>1, <1>2, <1>3 DEF Entry, Listed

LEMMA EntryOfListed ==
    ASSUME TypeOK, DistinctNames, NEW n \in Listed
    PROVE  n \in Names /\ \E i \in DOMAIN g_UserList : g_UserList[i].name = n /\ Entry(n) = g_UserList[i]
<1>1. PICK i \in DOMAIN g_UserList : g_UserList[i].name = n
  BY DEF Listed, Named
<1> QED
  BY <1>1, OneEntry

\* Entry i is the one of name n, before and after a step.
Stays(i, n) ==
    /\ n \in Names /\ n \in Listed /\ n \in Listed'
    /\ Entry(n) = g_UserList[i] /\ Entry(n)' = g_UserList'[i]

\* Names that are distinct after a step were so before, and every listed name
\* keeps its entry.
LEMMA EntriesKept ==
    ASSUME TypeOK, Next, DistinctNames'
    PROVE  /\ DistinctNames
           /\ \A n : \A i \in DOMAIN g_UserList : g_UserList[i].name = n => Stays(i, n)
           /\ Listed \subseteq Listed'
<1>1. DistinctNames
  BY StepKeeps DEF DistinctNames
<1>2. TypeOK'
  BY TypeStep
<1>3. ASSUME NEW n, NEW i \in DOMAIN g_UserList, g_UserList[i].name = n
      PROVE  Stays(i, n)
  <2>1. i \in DOMAIN g_UserList' /\ g_UserList'[i].name = n
    BY <1>3, StepKeeps
  <2>2. Entry(n)' = g_UserList'[i] /\ n \in Listed'
    BY <1>2, <2>1, OneEntryAfter
  <2>3. Entry(n) = g_UserList[i] /\ n \in Listed /\ n \in Names
    BY <1>1, <1>3, OneEntry
  <2> QED
    BY <2>2, <2>3 DEF Stays
<1>4. Listed \subseteq Listed'
  BY <1>1, <1>3, EntryOfListed DEF Stays
<1> QED
  BY <1>1, <1>3, <1>4

\* A step that keeps the list keeps the ledger, up to the line.
LEMMA ListKept ==
    ASSUME UNCHANGED g_UserList
    PROVE  /\ Listed' = Listed /\ Partner' = Partner /\ Playing' = Playing
           /\ \A host, port : Reach(host, port)' = Reach(host, port)
<1>1. \A n : Named(n)' = Named(n)
  BY DEF Named
<1>2. Listed' = Listed /\ \A n : Entry(n)' = Entry(n)
  BY <1>1 DEF Listed, Entry
<1> QED
  BY <1>2 DEF Partner, Playing, Reach

-----------------------------------------------------------------------------
(* One lemma per way of changing the list.                                 *)

LEMMA LoginRegisters ==
    ASSUME TypeOK, Next, DistinctNames',
           NEW n \in Names, NEW p \in Ports, NEW a \in Hosts,
           VectorPushBack(MakeUser(n, p, a))
    PROVE  /\ n \notin Listed /\ Listed' = Listed \cup {n}
           /\ Partner' = Partner /\ Playing' = Playing
<1> DEFINE last == Len(g_UserList) + 1
<1>1. /\ DOMAIN g_UserList' = 1 .. last
      /\ NewEntry(g_UserList'[last], n, p, a)
      /\ \A i \in DOMAIN g_UserList :
           \/ g_UserList'[i] = g_UserList[i]
           \/ g_UserList'[i] = MovedUser(g_UserList[i])
  BY AppendShape
<1>2. DOMAIN g_UserList = 1 .. Len(g_UserList) /\ Len(g_UserList) \in Nat
  BY DEF TypeOK
<1>3. last \in DOMAIN g_UserList' /\ last \notin DOMAIN g_UserList
      /\ \A i \in DOMAIN g_UserList' : i = last \/ i \in DOMAIN g_UserList
  BY <1>1, <1>2
<1> HIDE DEF last
<1>4. /\ DistinctNames
      /\ \A m : \A i \in DOMAIN g_UserList : g_UserList[i].name = m => Stays(i, m)
      /\ Listed \subseteq Listed'
  BY EntriesKept
<1>5. Entry(n)' = g_UserList'[last] /\ n \in Listed'
  <2>1. g_UserList'[last].name = n
    BY <1>1 DEF NewEntry
  <2> QED
    BY <1>3, <2>1, OneEntryAfter, TypeStep
<1>6. n \notin Listed
  <2>1. \A i \in DOMAIN g_UserList : g_UserList[i].name # n
    BY <1>1, <1>3, StepKeeps DEF DistinctNames, NewEntry
  <2> QED
    BY <2>1 DEF Listed, Named
<1>7. Listed' \subseteq Listed \cup {n}
  <2> SUFFICES ASSUME NEW m \in Listed' PROVE m \in Listed \cup {n}
    OBVIOUS
  <2>1. PICK i \in DOMAIN g_UserList' : g_UserList'[i].name = m
    BY DEF Listed, Named
  <2>2. CASE i = last
    BY <1>1, <2>1, <2>2 DEF NewEntry
  <2>3. CASE i \in DOMAIN g_UserList
    BY <1>4, <2>1, <2>3, StepKeeps DEF Stays
  <2> QED
    BY <1>3, <2>2, <2>3
<1>8. ASSUME NEW m \in Listed
      PROVE  /\ Entry(m)'.conn_name = Entry(m).conn_name
             /\ Entry(m)'.is_conn = Entry(m).is_conn
  <2>1. PICK i \in DOMAIN g_UserList : g_UserList[i].name = m /\ Entry(m) = g_UserList[i]
    BY <1>4, EntryOfListed
  <2>2. Entry(m)' = g_UserList'[i]
    BY <1>4, <2>1 DEF Stays
  <2>3. g_UserList[i] \in User
    BY DEF TypeOK
  <2>4. /\ MovedUser(g_UserList[i]).conn_name = g_UserList[i].conn_name
        /\ MovedUser(g_UserList[i]).is_conn = g_UserList[i].is_conn
    BY <2>3 DEF MovedUser, User
  <2> QED
    BY <1>1, <2>1, <2>2, <2>4
<1>9. Entry(n)'.conn_name = NoName /\ ~ Entry(n)'.is_conn
  BY <1>1, <1>5 DEF NewEntry
<1>10. Listed' = Listed \cup {n}
  BY <1>4, <1>5, <1>7
<1>11. Partner' = Partner
  BY <1>6, <1>8, <1>9, <1>10 DEF Partner
<1>12. Playing' = Playing
  BY <1>6, <1>8, <1>9, <1>10 DEF Playing
<1> QED
  BY <1>6, <1>10, <1>11, <1>12

\* Two entries are connected: both names have the other as partner.
LEMMA ConnectPairs ==
    ASSUME TypeOK, Next, DistinctNames',
           NEW i \in DOMAIN g_UserList, NEW j \in DOMAIN g_UserList, i # j,
           NEW connect \in BOOLEAN, ConnectsTwo(i, j, connect),
           NEW a, NEW b, g_UserList[i].name = a, g_UserList[j].name = b
    PROVE  /\ a # b /\ a \in Listed /\ b \in Listed /\ a \in Names /\ b \in Names
           /\ Listed' = Listed
           /\ Partner' = [Partner EXCEPT ![a] = b, ![b] = a]
           /\ Playing' = IF connect THEN Playing \cup {a, b} ELSE Playing \ {a, b}
<1>1. /\ DOMAIN g_UserList' = DOMAIN g_UserList
      /\ g_UserList'[i] = Opposite(g_UserList[i], g_UserList[j], connect)
      /\ g_UserList'[j] = Opposite(g_UserList[j], g_UserList[i], connect)
      /\ \A k \in DOMAIN g_UserList \ {i, j} : g_UserList'[k] = g_UserList[k]
  BY ConnectShape
<1>2. /\ DistinctNames
      /\ \A m : \A k \in DOMAIN g_UserList : g_UserList[k].name = m => Stays(k, m)
      /\ Listed \subseteq Listed'
  BY EntriesKept
<1>3. a # b
  BY <1>2 DEF DistinctNames
<1>4. Listed' = Listed
  <2> SUFFICES ASSUME NEW m \in Listed' PROVE m \in Listed
    BY <1>2
  <2>1. PICK k \in DOMAIN g_UserList' : g_UserList'[k].name = m
    BY DEF Listed, Named
  <2> QED
    BY <1>1, <1>2, <2>1, StepKeeps DEF Stays
<1>5. g_UserList[i] \in User /\ g_UserList[j] \in User
  BY DEF TypeOK
<1>6. /\ Entry(a)'.conn_name = b /\ Entry(b)'.conn_name = a
      /\ Entry(a)'.is_conn = connect /\ Entry(b)'.is_conn = connect
  <2>1. Entry(a)' = g_UserList'[i] /\ Entry(b)' = g_UserList'[j]
    BY <1>2 DEF Stays
  <2>2. /\ Opposite(g_UserList[i], g_UserList[j], connect).conn_name = b
        /\ Opposite(g_UserList[j], g_UserList[i], connect).conn_name = a
        /\ Opposite(g_UserList[i], g_UserList[j], connect).is_conn = connect
        /\ Opposite(g_UserList[j], g_UserList[i], connect).is_conn = connect
    BY <1>5 DEF Opposite, User
  <2> QED
    BY <1>1, <2>1, <2>2
<1>7. ASSUME NEW m \in Listed, m # a, m # b PROVE Entry(m)' = Entry(m)
  <2>1. PICK k \in DOMAIN g_UserList : g_UserList[k].name = m /\ Entry(m) = g_UserList[k]
    BY <1>2, EntryOfListed
  <2>2. k # i /\ k # j
    BY <1>7, <2>1
  <2> QED
    BY <1>1, <1>2, <2>1, <2>2 DEF Stays
<1>8. a \in Listed /\ b \in Listed /\ a \in Names /\ b \in Names
  BY <1>2 DEF Stays
<1>9. Partner' = [Partner EXCEPT ![a] = b, ![b] = a]
  BY <1>3, <1>4, <1>6, <1>7, <1>8 DEF Partner
<1>10. Playing' = IF connect THEN Playing \cup {a, b} ELSE Playing \ {a, b}
  BY <1>4, <1>6, <1>7, <1>8 DEF Playing
<1> QED
  BY <1>3, <1>4, <1>8, <1>9, <1>10

-----------------------------------------------------------------------------
(* The steps of the ledger, said of the list.                              *)

Blank == [from |-> NoName, reach |-> {}]

Same == Listed' = Listed /\ Partner' = Partner /\ Playing' = Playing /\ running' = running

LEMMA LedgerRegister ==
    ASSUME NEW n \in Names, running, running' = running, Line' = Blank,
           n \notin Listed, Listed' = Listed \cup {n}, Partner' = Partner, Playing' = Playing
    PROVE  Ledger!LedgerNext
<1>1. Ledger!Register(n)
  BY DEF Ledger!Register, Ledger!NoRelay, Partner, Playing, Line, Reach, Blank
<1> QED
  BY <1>1 DEF Ledger!LedgerNext

LEMMA LedgerPair ==
    ASSUME NEW a \in Names, NEW b \in Names, running, running' = running, Line' = Blank,
           a \in Listed, b \in Listed, a # b, Listed' = Listed,
           Partner' = [Partner EXCEPT ![a] = b, ![b] = a], Playing' = Playing \cup {a, b}
    PROVE  Ledger!LedgerNext
<1>1. Ledger!Pair(a, b)
  BY DEF Ledger!Pair, Ledger!NoRelay, Partner, Playing, Line, Reach, Blank
<1> QED
  BY <1>1 DEF Ledger!LedgerNext

LEMMA LedgerLeave ==
    ASSUME NEW a \in Names, NEW b \in Names, running, running' = running, Line' = Blank,
           a \in Listed, Partner[a] = b, b # NoName, Listed' = Listed,
           Partner' = [Partner EXCEPT ![b] = a], Playing' = Playing \ {a, b}
    PROVE  Ledger!LedgerNext
<1>1. Ledger!Leave(a)
  BY DEF Ledger!Leave, Ledger!NoRelay, Partner, Playing, Line, Reach, Blank
<1> QED
  BY <1>1 DEF Ledger!LedgerNext

LEMMA LedgerRelayed ==
    ASSUME NEW a \in Names, NEW reach \in SUBSET Listed, running, Same,
           a \in Playing, reach = {} \/ Partner[a] \in reach,
           Line' = [from |-> a, reach |-> reach]
    PROVE  Ledger!LedgerNext
<1>1. Ledger!Relayed(a, reach)
  BY DEF Ledger!Relayed, Partner, Playing, Line, Reach, Same
<1> QED
  BY <1>1 DEF Ledger!LedgerNext

LEMMA LedgerIdle ==
    ASSUME running, Same, Line' = Blank
    PROVE  Ledger!LedgerNext
<1>1. Ledger!Idle
  BY DEF Ledger!Idle, Ledger!NoRelay, Partner, Playing, Line, Reach, Same, Blank
<1> QED
  BY <1>1 DEF Ledger!LedgerNext

LEMMA LedgerHalt ==
    ASSUME running, Crash
    PROVE  Ledger!LedgerNext
<1>1. Listed' = Listed /\ Partner' = Partner /\ Playing' = Playing
  BY ListKept DEF Crash
<1>2. Line' = Blank /\ running' = FALSE
  BY DEF Crash, NoSend, Line, Blank
<1>3. Ledger!Halt
  BY <1>1, <1>2 DEF Ledger!Halt, Ledger!NoRelay, Partner, Playing, Line, Reach, Blank
<1> QED
  BY <1>3 DEF Ledger!LedgerNext

LEMMA NothingSent ==
    ASSUME sent'.kind # "data" PROVE Line' = Blank
  BY DEF Line, Blank

LEMMA QuietIsIdle ==
    ASSUME running, Quiet
    PROVE  Ledger!LedgerNext
<1>1. Same
  BY ListKept DEF Quiet, Same
<1>2. Line' = Blank
  BY NothingSent DEF Quiet, NoSend
<1> QED
  BY <1>1, <1>2, LedgerIdle

-----------------------------------------------------------------------------
(* The handlers.                                                           *)

\* With distinct names ConnectUser crashes, or connects two users it was asked
\* about, one of each name.
LEMMA ConnectUserFinds ==
    ASSUME TypeOK, DistinctNames, NEW u1, NEW u2, NEW connect \in BOOLEAN,
           ConnectUser(u1, u2, connect), ~ Crash
    PROVE  \E i, j \in DOMAIN g_UserList :
              /\ i # j /\ ConnectsTwo(i, j, connect)
              /\ g_UserList[i].name # g_UserList[j].name
              /\ {g_UserList[i].name, g_UserList[j].name} = {u1, u2}
              /\ running' = running /\ sent' = NoSend
<1>1. PICK i, j \in Named(u1) \cup Named(u2) :
         /\ FirstTwo(i, j, Named(u1) \cup Named(u2))
         /\ ConnectsTwo(i, j, connect)
         /\ running' = running /\ sent' = NoSend
  BY DEF ConnectUser, ConnectsTwo
<1>2. i \in DOMAIN g_UserList /\ j \in DOMAIN g_UserList /\ i # j
  BY <1>1 DEF FirstTwo, Named, TypeOK
<1>3. g_UserList[i].name # g_UserList[j].name
  BY <1>2 DEF DistinctNames
<1>4. g_UserList[i].name \in {u1, u2} /\ g_UserList[j].name \in {u1, u2}
  BY DEF Named
<1>5. {g_UserList[i].name, g_UserList[j].name} = {u1, u2}
  BY <1>3, <1>4
<1> QED
  BY <1>1, <1>2, <1>3, <1>5

LEMMA LoginStep ==
    ASSUME TypeOK, Next, DistinctNames', running,
           NEW n \in Names, NEW p \in Ports, NEW a \in Hosts, AskLogin(n, p, a)
    PROVE  Ledger!LedgerNext
<1>1. /\ n \notin Listed /\ Listed' = Listed \cup {n}
      /\ Partner' = Partner /\ Playing' = Playing
  BY LoginRegisters DEF AskLogin
<1>2. sent'.kind = "ok" /\ running' = running
  BY DEF AskLogin, Reply
<1>3. Line' = Blank
  BY <1>2, NothingSent
<1> QED
  BY <1>1, <1>2, <1>3, LedgerRegister

LEMMA AllUserStep ==
    ASSUME running, NEW a, AskAllUser(a)
    PROVE  Ledger!LedgerNext
<1>1. CASE Crash
  BY <1>1, LedgerHalt
<1>2. CASE ~ Crash
  <2>1. PICK k \in At(a) : /\ sent' = Reply("list", g_UserList[k], Listing)
                           /\ UNCHANGED <<g_UserList, capacity, running>>
    BY <1>2 DEF AskAllUser
  <2>2. \A kind, u, body : Reply(kind, u, body).kind = kind
    BY DEF Reply
  <2>3. sent'.kind = "list"
    BY <2>1, <2>2
  <2>4. Same /\ Line' = Blank
    BY <2>1, <2>3, ListKept, NothingSent DEF Same
  <2> QED
    BY <2>4, LedgerIdle
<1> QED
  BY <1>1, <1>2

LEMMA InviteStep ==
    ASSUME TypeOK, Next, DistinctNames', running, NEW u1, NEW u2, AskInvite(u1, u2)
    PROVE  Ledger!LedgerNext
<1>1. CASE Crash
  BY <1>1, LedgerHalt
<1>2. CASE ~ Crash
  <2>1. DistinctNames
    BY EntriesKept
  <2>2. PICK i, j \in DOMAIN g_UserList :
           /\ i # j /\ ConnectsTwo(i, j, TRUE)
           /\ running' = running /\ sent' = NoSend
    BY <1>2, <2>1, ConnectUserFinds DEF AskInvite
  <2>3. PICK a, b : g_UserList[i].name = a /\ g_UserList[j].name = b
    OBVIOUS
  <2>4. /\ a # b /\ a \in Listed /\ b \in Listed /\ a \in Names /\ b \in Names
        /\ Listed' = Listed
        /\ Partner' = [Partner EXCEPT ![a] = b, ![b] = a]
        /\ Playing' = Playing \cup {a, b}
    BY <2>2, <2>3, ConnectPairs
  <2>5. Line' = Blank
    BY <2>2, NothingSent DEF NoSend
  <2> QED
    BY <2>2, <2>4, <2>5, LedgerPair
<1> QED
  BY <1>1, <1>2

\* The two that leave are the user and its partner: with distinct names the
\* first entry DisConnectUser finds is the only one.
LEMMA ExitStep ==
    ASSUME TypeOK, Next, DistinctNames', running, NEW user \in Names, AskExitGame(user)
    PROVE  Ledger!LedgerNext
<1>1. CASE Quiet
  BY <1>1, QuietIsIdle
<1>2. CASE Crash
  BY <1>2, LedgerHalt
<1>3. CASE ~ Quiet /\ ~ Crash
  <2>1. DistinctNames
    BY EntriesKept
  <2>2. PICK k \in Named(user) : ConnectUser(user, g_UserList[k].conn_name, FALSE)
    BY <1>3 DEF AskExitGame
  <2>3. PICK guest : guest = g_UserList[k].conn_name
    OBVIOUS
  <2>4. PICK i, j \in DOMAIN g_UserList :
           /\ i # j /\ ConnectsTwo(i, j, FALSE)
           /\ g_UserList[i].name # g_UserList[j].name
           /\ {g_UserList[i].name, g_UserList[j].name} = {user, guest}
           /\ running' = running /\ sent' = NoSend
    BY <1>3, <2>1, <2>2, <2>3, ConnectUserFinds
  <2>5. PICK a, b : g_UserList[i].name = a /\ g_UserList[j].name = b
    OBVIOUS
  <2>6. /\ a # b /\ a \in Listed /\ b \in Listed /\ a \in Names /\ b \in Names
        /\ Listed' = Listed
        /\ Partner' = [Partner EXCEPT ![a] = b, ![b] = a]
        /\ Playing' = Playing \ {a, b}
    <3> DEFINE connect == FALSE
    <3>1. connect \in BOOLEAN /\ ConnectsTwo(i, j, connect)
      BY <2>4
    <3>2. ~ connect
      OBVIOUS
    <3> HIDE DEF connect
    <3> QED
      BY <2>4, <2>5, <3>1, <3>2, ConnectPairs
  <2>7. /\ {a, b} = {user, guest} /\ user # guest
        /\ user \in Listed /\ guest \in Names
    BY <2>4, <2>5, <2>6
  <2>8. guest # NoName
    BY <2>7, NoNameAssumption
  <2>9. Partner[user] = guest
    <3>1. k \in DOMAIN g_UserList /\ g_UserList[k].name = user
      BY DEF Named
    <3>2. Entry(user) = g_UserList[k]
      BY <2>1, <3>1, OneEntry
    <3> QED
      BY <2>3, <2>7, <3>2 DEF Partner
  <2>10. DOMAIN Partner = Names
    BY DEF Partner
  <2>11. Partner' = [Partner EXCEPT ![guest] = user]
    <3>1. Partner' = [Partner EXCEPT ![user] = guest, ![guest] = user]
      <4>1. (a = user /\ b = guest) \/ (a = guest /\ b = user)
        BY <2>6, <2>7
      <4> QED
        BY <2>6, <2>7, <2>10, <4>1
    <3> QED
      BY <2>7, <2>9, <2>10, <3>1
  <2>12. Playing' = Playing \ {user, guest}
    BY <2>6, <2>7
  <2>13. Line' = Blank
    BY <2>4, NothingSent DEF NoSend
  <2> QED
    BY <2>4, <2>6, <2>7, <2>8, <2>9, <2>11, <2>12, <2>13, LedgerLeave
<1> QED
  BY <1>1, <1>2, <1>3

\* Data goes to the recorded address: by RouteSound to nobody, or to a user of
\* the partner's name, which is the partner.
LEMMA DataStep ==
    ASSUME TypeOK, RouteSound, Next, DistinctNames', running,
           NEW user \in Names, NEW d, AskData(user, d)
    PROVE  Ledger!LedgerNext
<1>1. CASE Quiet
  BY <1>1, QuietIsIdle
<1>2. CASE ~ Quiet
  <2>1. PICK k \in Named(user) :
           /\ IF g_UserList[k].is_conn
                THEN sent' = Relay(g_UserList[k], d)
                ELSE sent' = NoSend
           /\ UNCHANGED <<g_UserList, capacity, running>>
    BY <1>2 DEF AskData
  <2>2. g_UserList[k].is_conn /\ sent' = Relay(g_UserList[k], d)
    BY <1>2, <2>1 DEF Quiet
  <2>3. DistinctNames
    BY EntriesKept
  <2>4. k \in DOMAIN g_UserList /\ g_UserList[k].name = user
    BY DEF Named
  <2>5. Entry(user) = g_UserList[k] /\ user \in Listed
    BY <2>3, <2>4, OneEntry
  <2>6. PICK host, port : /\ host = g_UserList[k].conn_server_name
                          /\ port = g_UserList[k].conn_server_port
    OBVIOUS
  <2>7. /\ sent'.kind = "data" /\ sent'.from = user
        /\ sent'.host = host /\ sent'.port = port
    BY <2>2, <2>4, <2>6 DEF Relay
  <2>8. Same /\ Reach(host, port)' = Reach(host, port)
    BY <2>1, ListKept DEF Same
  <2>9. Line' = [from |-> user, reach |-> Reach(host, port)]
    <3>1. Line' = [from |-> user, reach |-> Reach(host, port)']
      BY <2>7 DEF Line, Reach
    <3> QED
      BY <2>8, <3>1
  <2>10. Reach(host, port) = {} \/ Partner[user] \in Reach(host, port)
    <3>1. CASE host = NoHost
      <4>1. \A n \in Listed : Entry(n).server_name # NoHost
        BY <2>3, EntryOfListed, NoHostAssumption DEF TypeOK
      <4> QED
        BY <3>1, <4>1 DEF Reach
    <3>2. CASE host # NoHost
      <4>1. PICK j \in DOMAIN g_UserList :
               /\ g_UserList[j].name = g_UserList[k].conn_name
               /\ g_UserList[j].server_name = host
               /\ g_UserList[j].server_port = port
        BY <2>4, <2>6, <3>2 DEF RouteSound
      <4>2. PICK m : m = g_UserList[j].name
        OBVIOUS
      <4>3. Entry(m) = g_UserList[j] /\ m \in Listed
        BY <2>3, <4>2, OneEntry
      <4>4. m \in Reach(host, port)
        BY <4>1, <4>3 DEF Reach
      <4>5. Partner[user] = m
        BY <2>5, <4>1, <4>2 DEF Partner
      <4> QED
        BY <4>4, <4>5
    <3> QED
      BY <3>1, <3>2
  <2>11. user \in Playing /\ Reach(host, port) \in SUBSET Listed
    BY <2>2, <2>5 DEF Playing, Reach
  <2> QED
    BY <2>8, <2>9, <2>10, <2>11, LedgerRelayed
<1> QED
  BY <1>1, <1>2

\* The handlers implement the ledger while names are distinct, for any users,
\* addresses, storage growth and number of logins.
THEOREM TableImplementsLedger == Spec => ImplementsLedger
<1>1. Init => Ledger!LedgerInit
  <2> SUFFICES ASSUME Init PROVE Ledger!LedgerInit
    OBVIOUS
  <2>1. Listed = {}
    BY DEF Init, Listed, Named
  <2>2. running = TRUE /\ sent.kind # "data"
    BY DEF Init, NoSend
  <2> QED
    BY <2>1, <2>2 DEF Ledger!LedgerInit, Ledger!NoRelay
<1>2. ASSUME TypeOK, RouteSound, Next, DistinctNames'
      PROVE  Ledger!LedgerNext
  <2>1. CASE Login
    BY <1>2, <2>1, LoginStep DEF Login
  <2>2. CASE AllUser
    BY <2>2, AllUserStep DEF AllUser
  <2>3. CASE Invite
    BY <1>2, <2>3, InviteStep DEF Invite
  <2>4. CASE Data
    BY <1>2, <2>4, DataStep DEF Data
  <2>5. CASE ExitGame
    BY <1>2, <2>5, ExitStep DEF ExitGame
  <2>6. CASE Other
    BY <2>6, QuietIsIdle DEF Other, AskOther
  <2> QED
    BY <1>2, <2>1, <2>2, <2>3, <2>4, <2>5, <2>6 DEF Next
<1>3. TypeOK /\ RouteSound /\ [Next]_vars =>
        [DistinctNames' => [Ledger!LedgerNext]_(Ledger!ledgerVars)]_vars
  BY <1>2 DEF vars
<1> QED
  BY <1>1, <1>3, TypeCorrect, RoutesSound, PTL DEF Spec, ImplementsLedger
=============================================================================
