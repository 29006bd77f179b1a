---------------------------- MODULE MailboxProofs ----------------------------
(***************************************************************************)
(* The listener implements the mailbox: it never shows an answer while an  *)
(* earlier one waits.  While the network keeps order a connection is only  *)
(* opened when all that was sent before has arrived, so that earlier holds *)
(* every answer sent before it (InLine), and Order says that those are     *)
(* shown when the connection has its slot.  Once says that an answer is in *)
(* one place at a time.                                                    *)
(***************************************************************************)
EXTENDS ListenerProofs

Left == posted \ ToSet(shown)

Enumerates(q, S) ==
    q \in [1 .. Cardinality(S) -> S] /\ \A i, j \in DOMAIN q : i < j => q[i] < q[j]

Once ==
    /\ \A p, q \in 1 .. Len(wire) :
         wire[p] = wire[q] /\ wire[p][2] = "answer" => p = q
    /\ \A k \in Clients : Len(stream[k]) <= 1
    /\ \A k \in Clients : stream[k] # <<>> => k \in posted /\ ~ Coming(k)
    /\ \A k \in Clients : Coming(k) \/ stream[k] # <<>> => ~ Seen(k)

InLine ==
    ~ delayed /\ pc # "stopped" =>
        \A k \in Clients : Waiting(k) \/ Placed(k) => earlier[k] = {j \in posted : j < k}

Sorted == ~ delayed => Enumerates(InOrder(Left), Left)

Delivery == Course /\ Once /\ InLine /\ Sorted

-----------------------------------------------------------------------------
(* Sets of numbers in their order.                                         *)

\* The smaller of two numbers is among the first.
LEMMA Least ==
    ASSUME NEW T, T \subseteq Nat, T # {}
    PROVE  \E x \in T : \A y \in T : x <= y
<1> DEFINE Less == OpToRel(<, Nat)
<1>1. \A a, b \in Nat : <<a, b>> \in Less <=> a < b
  BY DEF OpToRel
<1>2. IsWellFoundedOn(Less, Nat)
  BY NatLessThanWellFounded
<1> HIDE DEF Less
<1>3. PICK x \in T : \A y \in T : ~ (<<y, x>> \in Less)
  BY <1>2, WFMin
<1>4. \A y \in T : x <= y
  <2> TAKE y \in T
  <2>1. x \in Nat /\ y \in Nat /\ ~ (<<y, x>> \in Less)
    BY <1>3
  <2>2. ~ (y < x)
    BY <1>1, <2>1
  <2> QED
    BY <2>1, <2>2
<1> QED
  BY <1>4

LEMMA EnumeratedIs ==
    ASSUME NEW S, S \subseteq Nat, IsFiniteSet(S), NEW q, Enumerates(q, S)
    PROVE  /\ q \in Seq(S) /\ Len(q) = Cardinality(S) /\ Cardinality(S) \in Nat
           /\ q \in Surjection(1 .. Cardinality(S), S)
<1>1. Cardinality(S) \in Nat
  BY FS_CardinalityType
<1>2. q \in [1 .. Cardinality(S) -> S] /\ \A i, j \in 1 .. Cardinality(S) : i < j => q[i] < q[j]
  BY DEF Enumerates
<1>3. q \in Seq(S) /\ Len(q) = Cardinality(S)
  <2>1. q \in Seq(S)
    BY <1>1, <1>2, SeqDef
  <2>2. Len(q) \in Nat /\ 1 .. Len(q) = 1 .. Cardinality(S)
    BY <1>2, <2>1, LenProperties
  <2> QED
    BY <1>1, <2>1, <2>2
<1>4. q \in Injection(1 .. Cardinality(S), S)
  <2>1. ASSUME NEW i \in 1 .. Cardinality(S), NEW j \in 1 .. Cardinality(S), q[i] = q[j]
        PROVE  i = j
    <3>1. q[i] \in S /\ q[j] \in S /\ i \in Nat /\ j \in Nat
      BY <1>1, <1>2
    <3>2. q[i] \in Nat /\ q[j] \in Nat
      BY <3>1
    <3> QED
      BY <1>2, <2>1, <3>1, <3>2
  <2> QED
    BY <1>2, <2>1 DEF Injection, IsInjective
<1>5. IsFiniteSet(1 .. Cardinality(S)) /\ Cardinality(1 .. Cardinality(S)) = Cardinality(S)
  BY <1>1, FS_Interval
<1>6. q \in Surjection(1 .. Cardinality(S), S)
  BY <1>4, <1>5, FS_Injection
<1> QED
  BY <1>1, <1>3, <1>6

\* A set has one enumeration.
LEMMA OneEnumeration ==
    ASSUME NEW S, S \subseteq Nat, IsFiniteSet(S),
           NEW q, Enumerates(q, S), NEW r, Enumerates(r, S)
    PROVE  q = r
<1> DEFINE n == Cardinality(S)
           Unlike == {i \in 1 .. n : q[i] # r[i]}
<1>1. /\ n \in Nat /\ q \in [1 .. n -> S] /\ r \in [1 .. n -> S]
      /\ \A i, j \in 1 .. n : i < j => q[i] < q[j] /\ r[i] < r[j]
      /\ \A x \in S : (\E i \in 1 .. n : q[i] = x) /\ (\E i \in 1 .. n : r[i] = x)
  <2>1. n \in Nat /\ q \in Surjection(1 .. n, S)
    BY EnumeratedIs
  <2>2. r \in Surjection(1 .. n, S)
    BY EnumeratedIs
  <2> QED
    BY <2>1, <2>2 DEF Enumerates, Surjection
<1> HIDE DEF n
<1>2. ASSUME Unlike # {} PROVE FALSE
  <2>1. PICK i \in Unlike : \A j \in Unlike : i <= j
    <3>1. Unlike \subseteq Nat
      BY <1>1
    <3> QED
      BY <1>2, <3>1, Least
  <2>2. i \in 1 .. n /\ i \in Nat /\ q[i] # r[i] /\ q[i] \in Nat /\ r[i] \in Nat
    <3>1. i \in 1 .. n /\ i \in Nat /\ q[i] # r[i] /\ q[i] \in S /\ r[i] \in S
      BY <1>1
    <3> QED
      BY <3>1
  <2>3. \A j \in 1 .. n : j < i => q[j] = r[j]
    <3> SUFFICES ASSUME NEW j \in 1 .. n, j < i, q[j] # r[j] PROVE FALSE
      OBVIOUS
    <3>1. j \in Unlike /\ j \in Nat
      BY <1>1
    <3>2. i <= j
      BY <2>1, <3>1
    <3> QED
      BY <2>2, <3>1, <3>2
  <2>4. CASE q[i] < r[i]
    <3>1. PICK j \in 1 .. n : r[j] = q[i]
      BY <1>1, <2>2
    <3>2. j \in Nat /\ r[j] < r[i] /\ j # i
      BY <1>1, <2>2, <2>4, <3>1
    <3>3. j < i
      <4>1. ~ (i < j)
        <5> SUFFICES ASSUME i < j PROVE FALSE
          OBVIOUS
        <5>1. r[i] < r[j] /\ r[j] \in Nat
          BY <1>1, <2>2
        <5> QED
          BY <2>2, <3>2, <5>1
      <4> QED
        BY <2>2, <3>2, <4>1
    <3>4. q[j] = q[i] /\ q[j] < q[i]
      BY <1>1, <2>2, <2>3, <3>1, <3>3
    <3> QED
      BY <2>2, <3>4
  <2>5. CASE r[i] < q[i]
    <3>1. PICK j \in 1 .. n : q[j] = r[i]
      BY <1>1, <2>2
    <3>2. j \in Nat /\ q[j] < q[i] /\ j # i
      BY <1>1, <2>2, <2>5, <3>1
    <3>3. j < i
      <4>1. ~ (i < j)
        <5> SUFFICES ASSUME i < j PROVE FALSE
          OBVIOUS
        <5>1. q[i] < q[j] /\ q[j] \in Nat
          BY <1>1, <2>2
        <5> QED
          BY <2>2, <3>2, <5>1
      <4> QED
        BY <2>2, <3>2, <4>1
    <3>4. r[j] = r[i] /\ r[j] < r[i]
      BY <1>1, <2>2, <2>3, <3>1, <3>3
    <3> QED
      BY <2>2, <3>4
  <2> QED
    BY <2>2, <2>4, <2>5
<1>3. \A i \in 1 .. n : q[i] = r[i]
  BY <1>2
<1> QED
  BY <1>1, <1>3

LEMMA InOrderIs ==
    ASSUME NEW S, S \subseteq Nat, IsFiniteSet(S), NEW q, Enumerates(q, S)
    PROVE  InOrder(S) = q
<1>1. Enumerates(InOrder(S), S)
  BY DEF Enumerates, InOrder
<1> QED
  BY <1>1, OneEnumeration

LEMMA InOrderOfNone == Enumerates(InOrder({}), {}) /\ InOrder({}) = <<>>
<1>1. Cardinality({}) = 0 /\ IsFiniteSet({})
  BY FS_EmptySet
<1>2. Enumerates(<<>>, {})
  <2>1. <<>> \in [1 .. 0 -> {}] /\ DOMAIN <<>> = {}
    OBVIOUS
  <2> QED
    BY <1>1, <2>1 DEF Enumerates
<1> QED
  BY <1>1, <1>2, InOrderIs

\* A number behind all others goes to the end.
LEMMA InOrderPosts ==
    ASSUME NEW S, S \subseteq Nat, IsFiniteSet(S), Enumerates(InOrder(S), S),
           NEW x \in Nat, \A y \in S : y < x
    PROVE  /\ Enumerates(InOrder(S \cup {x}), S \cup {x})
           /\ InOrder(S \cup {x}) = Append(InOrder(S), x)
<1> DEFINE q == InOrder(S)
           T == S \cup {x}
<1>1. /\ q \in Seq(S) /\ Len(q) = Cardinality(S) /\ Cardinality(S) \in Nat
      /\ \A i, j \in 1 .. Len(q) : i < j => q[i] < q[j]
  <2>1. q \in Seq(S) /\ Len(q) = Cardinality(S) /\ Cardinality(S) \in Nat
    BY EnumeratedIs
  <2> QED
    BY <2>1, LenProperties DEF Enumerates
<1>2. IsFiniteSet(T) /\ Cardinality(T) = Len(q) + 1
  <2>1. x \notin S
    OBVIOUS
  <2> QED
    BY <1>1, <2>1, FS_AddElement
<1> HIDE DEF q
<1>3. q \in Seq(T) /\ x \in T
  BY <1>1, SeqMonotonic
<1>4. /\ Append(q, x) \in Seq(T) /\ Len(Append(q, x)) = Len(q) + 1
      /\ \A i \in 1 .. Len(q) : Append(q, x)[i] = q[i] /\ q[i] \in S
      /\ Append(q, x)[Len(q) + 1] = x
  <2>1. \A i \in 1 .. Len(q) : q[i] \in S
    BY <1>1, ElementOfSeq
  <2> QED
    BY <1>3, <2>1, AppendProperties
<1> HIDE DEF T
<1>5. Append(q, x) \in [1 .. Len(q) + 1 -> T] /\ DOMAIN Append(q, x) = 1 .. Len(q) + 1
  BY <1>4, LenProperties
<1>6. \A i, j \in 1 .. Len(q) + 1 : i < j => Append(q, x)[i] < Append(q, x)[j]
  <2> SUFFICES ASSUME NEW i \in 1 .. Len(q) + 1, NEW j \in 1 .. Len(q) + 1, i < j
               PROVE  Append(q, x)[i] < Append(q, x)[j]
    OBVIOUS
  <2>1. i \in 1 .. Len(q)
    BY <1>1
  <2>2. CASE j \in 1 .. Len(q)
    BY <1>1, <1>4, <2>1, <2>2
  <2>3. CASE j = Len(q) + 1
    BY <1>4, <2>1, <2>3
  <2> QED
    BY <1>1, <2>2, <2>3
<1>7. Enumerates(Append(q, x), T)
  BY <1>2, <1>5, <1>6 DEF Enumerates
<1>8. T \subseteq Nat
  BY DEF T
<1>9. InOrder(T) = Append(q, x)
  BY <1>2, <1>7, <1>8, InOrderIs
<1> QED
  BY <1>7, <1>9 DEF q, T

\* The smallest number is the first.
LEMMA InOrderShows ==
    ASSUME NEW S, S \subseteq Nat, IsFiniteSet(S), Enumerates(InOrder(S), S),
           NEW x \in S, \A y \in S : x <= y
    PROVE  /\ InOrder(S) # <<>> /\ Head(InOrder(S)) = x
           /\ Enumerates(InOrder(S \ {x}), S \ {x})
           /\ InOrder(S \ {x}) = Tail(InOrder(S))
<1> DEFINE q == InOrder(S)
           T == S \ {x}
<1>1. /\ q \in Seq(S) /\ Len(q) = Cardinality(S) /\ Cardinality(S) \in Nat
      /\ \A i, j \in 1 .. Len(q) : i < j => q[i] < q[j]
      /\ \A i \in 1 .. Len(q) : q[i] \in S
      /\ q \in Surjection(1 .. Cardinality(S), S)
  <2>1. q \in Seq(S) /\ Len(q) = Cardinality(S) /\ Cardinality(S) \in Nat
        /\ q \in Surjection(1 .. Cardinality(S), S)
    BY EnumeratedIs
  <2>2. \A i \in 1 .. Len(q) : q[i] \in S
    BY <2>1, ElementOfSeq
  <2> QED
    BY <2>1, <2>2, LenProperties DEF Enumerates
<1>p. PICK p \in 1 .. Len(q) : q[p] = x
  BY <1>1 DEF Surjection
<1>2. IsFiniteSet(T) /\ Cardinality(T) = Len(q) - 1
  BY <1>1, FS_RemoveElement
<1> HIDE DEF q
<1>3. q # <<>> /\ 1 \in 1 .. Len(q)
  <2>2. Len(q) \in Nat /\ Len(q) # 0
    BY <1>1, <1>p
  <2> QED
    BY <2>2
<1>4. q[1] = x
  <2>2. q[1] \in S /\ p \in Nat /\ (p = 1 \/ 1 < p)
    BY <1>1, <1>p, <1>3
  <2>4. q[1] \in Nat /\ x <= q[1] /\ x \in Nat
    BY <2>2
  <2>3. 1 < p => q[1] < x
    BY <1>1, <1>3, <1>p
  <2> QED
    BY <1>p, <2>2, <2>3, <2>4
<1>5. /\ Head(q) = x /\ Tail(q) \in Seq(S) /\ Len(Tail(q)) = Len(q) - 1
      /\ \A i \in 1 .. Len(q) - 1 : Tail(q)[i] = q[i + 1]
  <2>1. /\ Tail(q) \in Seq(S) /\ Len(Tail(q)) = Len(q) - 1
        /\ \A i \in 1 .. Len(Tail(q)) : Tail(q)[i] = q[i + 1]
    BY <1>1, <1>3, HeadTailProperties
  <2>2. Head(q) = q[1]
    BY <1>1, <1>3
  <2> QED
    BY <1>4, <2>1, <2>2
<1>6. \A i \in 1 .. Len(q) - 1 : Tail(q)[i] \in T
  <2> SUFFICES ASSUME NEW i \in 1 .. Len(q) - 1 PROVE Tail(q)[i] \in T
    OBVIOUS
  <2>1. i + 1 \in 1 .. Len(q) /\ 1 < i + 1
    BY <1>1
  <2>2. q[i + 1] \in S /\ q[1] < q[i + 1] /\ q[1] \in Nat
    BY <1>1, <1>3, <2>1
  <2> QED
    BY <1>4, <1>5, <2>2
<1> HIDE DEF T
<1>7. DOMAIN Tail(q) = 1 .. Len(q) - 1 /\ Tail(q) \in [1 .. Len(q) - 1 -> T]
  <2>1. DOMAIN Tail(q) = 1 .. Len(q) - 1 /\ Tail(q) \in [1 .. Len(q) - 1 -> S]
    BY <1>5, LenProperties
  <2> QED
    BY <1>6, <2>1
<1>8. \A i, j \in 1 .. Len(q) - 1 : i < j => Tail(q)[i] < Tail(q)[j]
  <2> SUFFICES ASSUME NEW i \in 1 .. Len(q) - 1, NEW j \in 1 .. Len(q) - 1, i < j
               PROVE  Tail(q)[i] < Tail(q)[j]
    OBVIOUS
  <2>1. i + 1 \in 1 .. Len(q) /\ j + 1 \in 1 .. Len(q) /\ i + 1 < j + 1
    BY <1>1
  <2>2. q[i + 1] < q[j + 1]
    BY <1>1, <2>1
  <2> QED
    BY <1>5, <2>2
<1>9. Enumerates(Tail(q), T)
  BY <1>2, <1>7, <1>8 DEF Enumerates
<1>10. InOrder(T) = Tail(q)
  <2>1. T \subseteq Nat
    BY DEF T
  <2> QED
    BY <1>2, <1>9, <2>1, InOrderIs
<1> QED
  BY <1>3, <1>5, <1>9, <1>10 DEF q, T

-----------------------------------------------------------------------------
(* The steps.                                                              *)

\* Nothing is sent or shown.
LEMMA DeliveryStays ==
    ASSUME Delivery, Course', UNCHANGED <<delayed, posted, wire, shown, earlier>>,
           \A k \in Clients : stream'[k] \in {stream[k], <<>>},
           pc' # "stopped" => /\ pc # "stopped"
                              /\ \A k \in Clients : Waiting(k)' \/ Placed(k)' => Waiting(k) \/ Placed(k)
    PROVE  Delivery'
<1>1. \A k : (Coming(k)' <=> Coming(k)) /\ (Seen(k)' <=> Seen(k))
  BY DEF Coming, Seen
<1>2. Once'
  <2>1. Len(<<>>) = 0
    OBVIOUS
  <2>2. \A k \in Clients : Len(stream'[k]) <= 1
    BY <2>1 DEF Delivery, Once
  <2> QED
    BY <1>1, <2>2 DEF Delivery, Once
<1>3. InLine'
  BY DEF Delivery, InLine
<1>4. Sorted'
  BY DEF Delivery, Sorted, Left
<1> QED
  BY <1>2, <1>3, <1>4 DEF Delivery

LEMMA LeftIs ==
    ASSUME Course
    PROVE  /\ Left \subseteq Nat /\ IsFiniteSet(Left)
           /\ \A k : k \in ToSet(shown) <=> Seen(k)
<1>1. posted \subseteq Clients /\ shown \in Seq(Clients)
  BY DEF Course, Books, History
<1>2. DOMAIN shown = 1 .. Len(shown)
  BY <1>1, LenProperties
<1>3. \A k : k \in ToSet(shown) <=> Seen(k)
  BY <1>2 DEF ToSet, Seen
<1>4. Left \subseteq Nat
  BY <1>1, ClientNumbers DEF Left
<1>5. Left \in SUBSET Clients
  BY <1>1 DEF Left
<1>6. IsFiniteSet(Left)
  BY <1>5, ListenerAssumption, FS_Subset
<1> QED
  BY <1>3, <1>4, <1>6

\* When a connection is opened, all that was sent has arrived.
LEMMA DeliveryConnects ==
    ASSUME Delivery, Course', HubConnects
    PROVE  Delivery' /\ UNCHANGED <<delayed, posted, shown>>
<1>1. /\ call \in Clients /\ stage = "connect" /\ (delayed \/ wire = <<>>)
      /\ backlog' = Append(backlog, call)
      /\ earlier' = [earlier EXCEPT ![call] = Arrived]
      /\ UNCHANGED <<stream, fd_A, pc, call, posted, wire, shown, delayed>>
  BY DEF HubConnects, procVars
<1>2. Once'
  <2>1. \A k : (Coming(k)' <=> Coming(k)) /\ (Seen(k)' <=> Seen(k))
    BY <1>1 DEF Coming, Seen
  <2> QED
    BY <1>1, <2>1 DEF Delivery, Once
<1>3. Sorted'
  BY <1>1 DEF Delivery, Sorted, Left
<1>4. InLine'
  <2> SUFFICES ASSUME ~ delayed, pc # "stopped", NEW k \in Clients, Waiting(k)' \/ Placed(k)'
               PROVE  earlier'[k] = {j \in posted : j < k}
    BY <1>1 DEF InLine
  <2>1. Loop /\ Books /\ earlier \in [Clients -> SUBSET Clients]
    BY DEF Delivery, Course, History
  <2>2. Waiting(k) \/ Placed(k) \/ k = call
    <3>1. /\ Len(backlog) \in Nat /\ Len(backlog') = Len(backlog) + 1
          /\ \A m \in 1 .. Len(backlog) : backlog'[m] = backlog[m]
          /\ backlog'[Len(backlog) + 1] = call
      BY <1>1, <2>1, AppendProperties, LenProperties DEF Loop
    <3>2. \A m \in 1 .. Len(backlog') : m \in 1 .. Len(backlog) \/ m = Len(backlog) + 1
      BY <3>1
    <3>3. Placed(k)' <=> Placed(k)
      BY <1>1 DEF Placed
    <3> QED
      BY <3>1, <3>2, <3>3 DEF Waiting
  <2>3. CASE k = call
    <3>1. Arrived = posted
      <4>1. \A j : ~ Coming(j)
        <5>1. Len(wire) = 0
          BY <1>1
        <5> QED
          BY <5>1 DEF Coming
      <4>2. \A j : j \in Arrived <=> j \in posted /\ ~ Coming(j)
        BY <2>1, ArrivedAre
      <4> QED
        BY <4>1, <4>2
    <3>2. \A j \in posted : j < call
      BY <1>1, <2>1 DEF Books
    <3> QED
      BY <1>1, <2>1, <2>3, <3>1, <3>2
  <2>4. CASE k # call
    BY <1>1, <2>1, <2>2, <2>4 DEF Delivery, InLine
  <2> QED
    BY <2>3, <2>4
<1> QED
  BY <1>1, <1>2, <1>3, <1>4 DEF Delivery

LEMMA DeliveryPosts ==
    ASSUME Delivery, Course', HubSends
    PROVE  /\ Delivery' /\ UNCHANGED <<delayed, shown>> /\ call \in Clients
           /\ ~ delayed => InOrder(Left') = Append(InOrder(Left), call)
<1>1. /\ call \in Clients /\ call \in Nat /\ stage = "send"
      /\ wire' = Append(wire, <<call, "answer">>) /\ posted' = posted \cup {call}
      /\ UNCHANGED <<earlier, shown, stream, fd_A, backlog, pc, delayed>>
  BY ClientNumbers DEF HubSends, hubVars, clientVars, loopVars, procVars
<1>c. Course /\ Books /\ posted \subseteq Nat
  BY ClientNumbers DEF Delivery, Course, Books
<1>2. \A j \in posted : j < call
  BY <1>1, <1>c DEF Books
<1>3. call \notin posted
  BY <1>1, <1>2
<1> DEFINE e == <<call, "answer">>
<1>e. e \in Clients \X {"answer", "end"} /\ e[2] = "answer" /\ \A k : e = <<k, "answer">> <=> k = call
  BY <1>1
<1> HIDE DEF e
<1>4. /\ Len(wire') = Len(wire) + 1 /\ Len(wire) \in Nat /\ wire'[Len(wire) + 1] = e
      /\ \A p \in 1 .. Len(wire) : wire'[p] = wire[p]
      /\ \A p \in 1 .. Len(wire') : p \in 1 .. Len(wire) \/ p = Len(wire) + 1
      /\ \A k : Coming(k)' <=> Coming(k) \/ k = call
  <2>1. wire' = Append(wire, e)
    BY <1>1 DEF e
  <2> QED
    BY <1>c, <1>e, <2>1, WireGrows
<1>5. \A k : Coming(k) \/ Seen(k) => k \in posted
  BY <1>c, WireKnown DEF Course, Books, History, Coming, Seen
<1>6. \A k : Seen(k)' <=> Seen(k)
  BY <1>1 DEF Seen
<1>7. Once'
  <2>1. ASSUME NEW p \in 1 .. Len(wire'), NEW q \in 1 .. Len(wire'),
               wire'[p] = wire'[q], wire'[p][2] = "answer"
        PROVE  p = q
    <3>1. \A l \in 1 .. Len(wire) : wire[l] # e
      BY <1>3, <1>5 DEF Coming, e
    <3> QED
      BY <1>4, <2>1, <3>1 DEF Delivery, Once
  <2>2. \A k \in Clients : Len(stream'[k]) <= 1
    BY <1>1 DEF Delivery, Once
  <2>3. \A k \in Clients : stream'[k] # <<>> => k \in posted' /\ ~ Coming(k)'
    BY <1>1, <1>3, <1>4 DEF Delivery, Once
  <2>4. \A k \in Clients : Coming(k)' \/ stream'[k] # <<>> => ~ Seen(k)'
    BY <1>1, <1>3, <1>4, <1>5, <1>6 DEF Delivery, Once
  <2> QED
    BY <2>1, <2>2, <2>3, <2>4 DEF Once
<1>8. InLine'
  <2> SUFFICES ASSUME ~ delayed, pc # "stopped", NEW k \in Clients, Waiting(k) \/ Placed(k)
               PROVE  earlier[k] = {j \in posted' : j < k}
    BY <1>1 DEF InLine, Waiting, Placed
  <2>1. earlier[k] = {j \in posted : j < k}
    BY DEF Delivery, InLine
  <2>2. k \in Nat /\ k <= call
    BY <1>1, ClientNumbers DEF Delivery, Course, Loop, Opened
  <2>3. ~ (call < k)
    BY <1>1, <2>2
  <2> QED
    BY <1>1, <2>1, <2>3
<1>9. /\ Left' = Left \cup {call} /\ Left \subseteq Nat /\ IsFiniteSet(Left)
      /\ \A y \in Left : y < call
  <2>1. /\ Left \subseteq Nat /\ IsFiniteSet(Left)
        /\ \A k : k \in ToSet(shown) <=> Seen(k)
    BY <1>c, LeftIs
  <2>2. call \notin ToSet(shown)
    BY <1>3, <1>5, <2>1
  <2>3. Left' = Left \cup {call}
    BY <1>1, <2>2 DEF Left
  <2> QED
    BY <1>2, <2>1, <2>3 DEF Left
<1>10. ~ delayed => /\ Enumerates(InOrder(Left'), Left')
                    /\ InOrder(Left') = Append(InOrder(Left), call)
  BY <1>1, <1>9, InOrderPosts DEF Delivery, Sorted
<1>11. Sorted'
  BY <1>1, <1>10 DEF Sorted
<1> QED
  BY <1>1, <1>7, <1>8, <1>10, <1>11 DEF Delivery

LEMMA DeliveryCloses ==
    ASSUME Delivery, Course', HubCloses
    PROVE  Delivery' /\ UNCHANGED <<delayed, posted, shown>>
<1>1. /\ call \in Clients /\ wire' = Append(wire, <<call, "end">>)
      /\ UNCHANGED <<posted, earlier, shown, stream, fd_A, backlog, pc, delayed>>
  BY DEF HubCloses, hubVars, clientVars, loopVars, procVars
<1> DEFINE e == <<call, "end">>
<1>e. e \in Clients \X {"answer", "end"} /\ e[2] = "end" /\ \A k : e # <<k, "answer">>
  BY <1>1
<1> HIDE DEF e
<1>4. /\ Len(wire') = Len(wire) + 1 /\ Len(wire) \in Nat /\ wire'[Len(wire) + 1] = e
      /\ \A p \in 1 .. Len(wire) : wire'[p] = wire[p]
      /\ \A p \in 1 .. Len(wire') : p \in 1 .. Len(wire) \/ p = Len(wire) + 1
      /\ \A k : Coming(k)' <=> Coming(k)
  <2>1. wire' = Append(wire, e) /\ Books
    BY <1>1 DEF e, Delivery, Course
  <2> QED
    BY <1>e, <2>1, WireGrows
<1>6. \A k : Seen(k)' <=> Seen(k)
  BY <1>1 DEF Seen
<1>7. Once'
  <2>1. ASSUME NEW p \in 1 .. Len(wire'), NEW q \in 1 .. Len(wire'),
               wire'[p] = wire'[q], wire'[p][2] = "answer"
        PROVE  p = q
    BY <1>4, <1>e, <2>1 DEF Delivery, Once
  <2> QED
    BY <1>1, <1>4, <1>6, <2>1 DEF Delivery, Once
<1>8. InLine'
  BY <1>1 DEF Delivery, InLine, Waiting, Placed
<1>9. Sorted'
  BY <1>1 DEF Delivery, Sorted, Left
<1> QED
  BY <1>1, <1>7, <1>8, <1>9 DEF Delivery

\* An answer that arrives leaves the wire for the stream.
LEMMA DeliveryArrives ==
    ASSUME Delivery, Course', Network
    PROVE  Delivery' /\ UNCHANGED <<delayed, posted, shown>>
<1>1. PICK p \in DOMAIN wire : Arrive(p)
  BY DEF Network
<1>b. Books /\ stream \in [Clients -> Seq({A})]
  BY DEF Delivery, Course, Ends
<1>2. /\ p \in 1 .. Len(wire) /\ wire[p] \in Clients \X {"answer", "end"}
      /\ wire[p] = <<wire[p][1], wire[p][2]>>
  BY <1>b, WireKnown
<1>k. PICK k \in Clients : k = wire[p][1]
  BY <1>2
<1>3. /\ wire' = RemoveAt(wire, p)
      /\ UNCHANGED <<posted, earlier, shown, fd_A, backlog, pc, delayed>>
      /\ \/ stream' = stream
         \/ wire[p][2] = "answer" /\ stream' = [stream EXCEPT ![k] = Append(@, A)]
  BY <1>1, <1>2, <1>k DEF Arrive, A, loopVars, procVars, hubSide
<1>4. /\ \A l, m \in 1 .. Len(wire') : \E o, q \in 1 .. Len(wire) :
           wire'[l] = wire[o] /\ wire'[m] = wire[q] /\ (o < q <=> l < m)
      /\ \A j : Coming(j)' => \E o \in 1 .. Len(wire) : wire[o] = <<j, "answer">> /\ o # p
  BY <1>b, <1>2, <1>3, WireShrinks
<1>5. \A j : Coming(j)' => Coming(j)
  BY <1>4 DEF Coming
<1>6. /\ Len(wire) \in Nat
      /\ wire' \in Seq(Clients \X {"answer", "end"}) /\ Len(wire') \in Nat
  BY <1>b, WireKnown, LenProperties DEF Course, Books
<1>7. \A j : Seen(j)' <=> Seen(j)
  BY <1>3 DEF Seen
<1>8. ASSUME wire[p][2] = "answer"
      PROVE  Coming(k) /\ ~ Coming(k)' /\ stream[k] = <<>> /\ k \in posted
  <2>1. wire[p] = <<k, "answer">>
    BY <1>2, <1>8, <1>k
  <2>2. Coming(k)
    BY <1>2, <2>1 DEF Coming
  <2>3. ASSUME NEW o \in 1 .. Len(wire), wire[o] = <<k, "answer">> PROVE o = p
    BY <1>2, <1>8, <2>1, <2>3 DEF Delivery, Once
  <2>4. ~ Coming(k)'
    BY <1>4, <2>3
  <2> QED
    BY <1>2, <1>b, <1>k, <1>8, <2>2, <2>4 DEF Delivery, Once, Books
<1>9. Once'
  <2>1. ASSUME NEW l \in 1 .. Len(wire'), NEW m \in 1 .. Len(wire'),
               wire'[l] = wire'[m], wire'[l][2] = "answer"
        PROVE  l = m
    <3>1. PICK o, q \in 1 .. Len(wire) :
             wire'[l] = wire[o] /\ wire'[m] = wire[q] /\ (o < q <=> l < m)
      BY <1>4
    <3>2. PICK o2, q2 \in 1 .. Len(wire) :
             wire'[m] = wire[o2] /\ wire'[l] = wire[q2] /\ (o2 < q2 <=> m < l)
      BY <1>4
    <3>3. o = q /\ o2 = q2
      BY <2>1, <3>1, <3>2 DEF Delivery, Once
    <3>4. ~ (l < m) /\ ~ (m < l)
      BY <1>6, <3>1, <3>2, <3>3
    <3> QED
      BY <1>6, <3>4
  <2>2. CASE stream' = stream
    BY <1>3, <1>5, <1>7, <2>1, <2>2 DEF Delivery, Once
  <2>3. CASE wire[p][2] = "answer" /\ stream' = [stream EXCEPT ![k] = Append(@, A)]
    <3>1. /\ Len(stream'[k]) = 1
          /\ \A j \in Clients : j # k => stream'[j] = stream[j]
      <4>1. stream[k] \in Seq({A}) /\ Len(stream[k]) = 0 /\ A \in {A}
        BY <1>8, <1>b, <2>3
      <4>2. PICK s : s = Append(stream[k], A)
        OBVIOUS
      <4>3. Len(s) = 1
        BY <4>1, <4>2, AppendProperties
      <4>4. stream' = [stream EXCEPT ![k] = s]
        BY <2>3, <4>2
      <4>5. stream'[k] = s
        BY <1>b, <4>4
      <4>6. \A j \in Clients : j # k => stream'[j] = stream[j]
        BY <1>b, <4>4
      <4> QED
        BY <4>3, <4>5, <4>6
    <3>2. ASSUME NEW j \in Clients
          PROVE  Len(stream'[j]) <= 1
      <4>1. CASE j = k
        <5>1. Len(stream'[j]) = 1
          BY <3>1, <4>1
        <5> QED
          BY <5>1
      <4>2. CASE j # k
        <5>1. stream'[j] = stream[j] /\ Len(stream[j]) <= 1
          BY <3>1, <4>2 DEF Delivery, Once
        <5> QED
          BY <5>1
      <4> QED
        BY <4>1, <4>2
    <3>3. \A j \in Clients : stream'[j] # <<>> => j \in posted' /\ ~ Coming(j)'
      BY <1>3, <1>5, <1>8, <2>3, <3>1 DEF Delivery, Once
    <3>4. \A j \in Clients : Coming(j)' \/ stream'[j] # <<>> => ~ Seen(j)'
      BY <1>3, <1>5, <1>7, <1>8, <2>3, <3>1 DEF Delivery, Once
    <3> QED
      BY <2>1, <3>2, <3>3, <3>4 DEF Once
  <2> QED
    BY <1>3, <2>2, <2>3
<1>10. InLine'
  BY <1>3 DEF Delivery, InLine, Waiting, Placed
<1>11. Sorted'
  BY <1>3 DEF Delivery, Sorted, Left
<1> QED
  BY <1>3, <1>9, <1>10, <1>11 DEF Delivery

\* What is shown is the smallest of what was sent and not yet shown.
LEMMA DeliveryShows ==
    ASSUME Delivery, Course', started = "listening", NEW i \in Slots, ShowAnswer(i)
    PROVE  /\ Delivery' /\ UNCHANGED <<delayed, posted>>
           /\ ~ delayed => /\ InOrder(Left) # <<>> /\ InOrder(Left') = Tail(InOrder(Left))
                           /\ shown' = Append(shown, Head(InOrder(Left)))
<1>1. /\ pc = "scan" /\ i \in fdsr /\ stream[fd_A[i]] # <<>>
      /\ shown' = Append(shown, fd_A[i])
      /\ UNCHANGED <<posted, wire, earlier, backlog, fd_A, pc, delayed, sock_fd>>
      /\ \E n \in 1 .. Len(stream[fd_A[i]]) :
            stream' = [stream EXCEPT ![fd_A[i]] = SubSeq(@, n + 1, Len(@))]
  BY ShowTakes DEF procVars, hubSide
<1>2. Course /\ Loop /\ stream \in [Clients -> Seq({A})] /\ posted \subseteq Clients
  BY <1>1 DEF Delivery, Course, Ends, Books
<1>k. PICK k \in Clients : k = fd_A[i]
  BY <1>1, <1>2 DEF Loop
<1>3. /\ k \in posted /\ ~ Coming(k) /\ ~ Seen(k) /\ Placed(k)
      /\ sock_fd /\ Order
  BY <1>1, <1>2, <1>k DEF Delivery, Once, Placed, Course, Loop
<1>4. stream' = [stream EXCEPT ![k] = <<>>]
  <2>1. PICK n \in 1 .. Len(stream[k]) :
          stream' = [stream EXCEPT ![k] = SubSeq(stream[k], n + 1, Len(stream[k]))]
    BY <1>1, <1>k
  <2>2. Len(stream[k]) <= 1 /\ Len(stream[k]) \in Nat
    BY <1>2, LenProperties DEF Delivery, Once
  <2>3. n + 1 \in Int /\ Len(stream[k]) \in Int /\ Len(stream[k]) < n + 1
    BY <2>2
  <2>4. SubSeq(stream[k], n + 1, Len(stream[k])) = <<>>
    BY <2>3, SubSeqEmpty
  <2> QED
    BY <2>1, <2>4
<1>5. /\ stream'[k] = <<>> /\ \A j \in Clients : j # k => stream'[j] = stream[j]
      /\ \A j : Coming(j)' <=> Coming(j)
  BY <1>1, <1>2, <1>4 DEF Coming
<1>6. /\ \A j : Seen(j)' <=> Seen(j) \/ j = k
      /\ ToSet(shown') = ToSet(shown) \cup {k}
  <2>1. shown \in Seq(Clients)
    BY <1>2 DEF Course, History
  <2>2. /\ shown' \in Seq(Clients) /\ Len(shown') = Len(shown) + 1 /\ Len(shown) \in Nat
        /\ \A n \in 1 .. Len(shown) : shown'[n] = shown[n]
        /\ shown'[Len(shown) + 1] = k
    BY <1>1, <1>k, <2>1, AppendProperties, LenProperties
  <2>3. /\ \A n \in 1 .. Len(shown') : n \in 1 .. Len(shown) \/ n = Len(shown) + 1
        /\ 1 .. Len(shown) \subseteq 1 .. Len(shown') /\ Len(shown) + 1 \in 1 .. Len(shown')
    BY <2>2
  <2>4. DOMAIN shown = 1 .. Len(shown) /\ DOMAIN shown' = 1 .. Len(shown')
    BY <2>1, <2>2, LenProperties
  <2> QED
    BY <2>2, <2>3, <2>4 DEF Seen, ToSet
<1>7. Once'
  <2>1. Len(<<>>) = 0
    OBVIOUS
  <2>2. \A j \in Clients : Len(stream'[j]) <= 1
    BY <1>5, <2>1 DEF Delivery, Once
  <2>3. \A j \in Clients : Coming(j)' \/ stream'[j] # <<>> => ~ Seen(j)'
    BY <1>3, <1>5, <1>6 DEF Delivery, Once
  <2>4. \A j \in Clients : stream'[j] # <<>> => j \in posted' /\ ~ Coming(j)'
    BY <1>1, <1>5 DEF Delivery, Once
  <2> QED
    BY <1>1, <2>2, <2>3, <2>4 DEF Delivery, Once
<1>8. InLine'
  BY <1>1 DEF Delivery, InLine, Waiting, Placed
<1>9. /\ Left \subseteq Nat /\ IsFiniteSet(Left) /\ k \in Left /\ Left' = Left \ {k}
      /\ \A j : j \in ToSet(shown) <=> Seen(j)
  <2>1. /\ Left \subseteq Nat /\ IsFiniteSet(Left)
        /\ \A j : j \in ToSet(shown) <=> Seen(j)
    BY <1>2, LeftIs
  <2> QED
    BY <1>1, <1>3, <1>6, <2>1 DEF Left
<1>10. ASSUME ~ delayed PROVE \A j \in Left : k <= j
  <2> SUFFICES ASSUME NEW j \in Left, ~ (k <= j) PROVE FALSE
    OBVIOUS
  <2>1. j \in posted /\ ~ Seen(j) /\ j \in Nat /\ k \in Nat
    BY <1>9 DEF Left
  <2>2. earlier[k] = {l \in posted : l < k}
    BY <1>1, <1>3, <1>10 DEF Delivery, InLine
  <2>3. j \in earlier[k]
    BY <2>1, <2>2
  <2> QED
    BY <1>1, <1>2, <1>3, <1>k, <2>1, <2>3 DEF Order, Loop
<1>11. ~ delayed => /\ InOrder(Left) # <<>> /\ Head(InOrder(Left)) = k
                    /\ Enumerates(InOrder(Left'), Left')
                    /\ InOrder(Left') = Tail(InOrder(Left))
  BY <1>9, <1>10, InOrderShows DEF Delivery, Sorted
<1>12. Sorted'
  BY <1>1, <1>11 DEF Sorted
<1> QED
  BY <1>1, <1>k, <1>7, <1>8, <1>11, <1>12 DEF Delivery

\* The steps of the loop that show nothing.
LEMMA DeliveryLoop ==
    ASSUME Delivery, Course', started = "listening",
           Turn \/ AcceptShutDown \/ LoopEnds
    PROVE  Delivery' /\ UNCHANGED <<delayed, posted, shown>>
<1>c. Course /\ (pc # "stopped" => Loop)
  BY DEF Delivery, Course
<1>1. ASSUME Turn
      PROVE  /\ UNCHANGED <<delayed, posted, wire, shown, earlier, stream>> /\ pc # "stopped"
             /\ \A k \in Clients : Waiting(k)' \/ Placed(k)' => Waiting(k) \/ Placed(k)
  <2>0. UNCHANGED <<delayed, posted, wire, shown, earlier>>
    BY <1>1 DEF Turn, procVars, hubSide
  <2>1. CASE sock_fd /\ Select
    BY <2>0, <2>1 DEF Select, clientVars, Waiting, Placed
  <2>2. CASE Again
    BY <2>0, <2>2 DEF Again, clientVars, Waiting, Placed
  <2>3. CASE \E i \in Slots : RecvClosed(i)
    <3>1. PICK i \in Slots : RecvClosed(i)
      BY <2>3
    <3>2. /\ pc = "scan" /\ fd_A' = [fd_A EXCEPT ![i] = Free]
          /\ UNCHANGED <<backlog, stream>>
      BY <3>1 DEF RecvClosed, Reached, clientVars
    <3>3. fd_A \in [Slots -> Clients \cup {Free, Invalid}] /\ Free \notin Clients
      BY <1>c, HubAssumption DEF Course, Ends
    <3> QED
      BY <2>0, <3>2, <3>3 DEF Waiting, Placed
  <2>4. CASE sock_fd /\ Accept
    <3>1. /\ pc = "scan" /\ listening /\ fdsr = {} /\ backlog' = Tail(backlog) /\ stream' = stream
          /\ \E i \in Slots : fd_A' = [fd_A EXCEPT ![i] = Head(backlog)]
      BY <2>4 DEF Accept, Accepting, clientVars, FreeSlots
    <3>2. backlog \in Seq(Clients) /\ backlog # <<>>
      BY <1>c, <2>4, <3>1 DEF Course, Loop, Order
    <3>3. /\ Head(backlog) = backlog[1] /\ Len(backlog) \in Nat \ {0}
          /\ Len(Tail(backlog)) = Len(backlog) - 1
          /\ \A m \in 1 .. Len(Tail(backlog)) : Tail(backlog)[m] = backlog[m + 1]
      BY <3>2, EmptySeq, HeadTailProperties
    <3>4. \A k : Waiting(k)' => Waiting(k)
      <4> SUFFICES ASSUME NEW m \in 1 .. Len(backlog') PROVE Waiting(backlog'[m])
        BY DEF Waiting
      <4>1. m + 1 \in 1 .. Len(backlog) /\ backlog'[m] = backlog[m + 1]
        BY <3>1, <3>3
      <4> QED
        BY <4>1 DEF Waiting
    <3>5. Waiting(Head(backlog))
      BY <3>3 DEF Waiting
    <3>6. fd_A \in [Slots -> Clients \cup {Free, Invalid}]
      BY <1>c DEF Course, Ends
    <3>7. \A k \in Clients : Placed(k)' => Placed(k) \/ k = Head(backlog)
      BY <3>1, <3>6 DEF Placed
    <3> QED
      BY <2>0, <3>1, <3>4, <3>5, <3>7
  <2> QED
    BY <1>1, <2>1, <2>2, <2>3, <2>4 DEF Turn
<1>2. ASSUME AcceptShutDown
      PROVE  /\ UNCHANGED <<delayed, posted, wire, shown, earlier, stream>> /\ pc # "stopped"
             /\ \A k \in Clients : Waiting(k)' \/ Placed(k)' => Waiting(k) \/ Placed(k)
  <2>1. /\ UNCHANGED <<delayed, posted, wire, shown, earlier, stream, backlog>> /\ pc = "scan"
        /\ \E i \in Slots : fd_A' = [fd_A EXCEPT ![i] = Invalid]
    BY <1>2 DEF AcceptShutDown, Accepting, FreeSlots, clientVars, procVars, hubSide
  <2>2. fd_A \in [Slots -> Clients \cup {Free, Invalid}] /\ Invalid \notin Clients
    BY <1>c, HubAssumption DEF Course, Ends
  <2> QED
    BY <2>1, <2>2 DEF Waiting, Placed
<1>3. ASSUME LoopEnds
      PROVE  UNCHANGED <<delayed, posted, wire, shown, earlier, stream>> /\ pc' = "stopped"
  BY <1>3 DEF LoopEnds, hubSide
<1> QED
  BY <1>1, <1>2, <1>3, DeliveryStays

LEMMA DeliveryThreads ==
    ASSUME Delivery, Course', ListenerStartup \/ Prepare \/ SenderStep
    PROVE  Delivery' /\ UNCHANGED <<delayed, posted, shown>>
<1>1. CASE ListenerStartup \/ Prepare
  <2>1. UNCHANGED <<delayed, posted, wire, shown, earlier, stream, backlog, fd_A, pc>>
    BY <1>1 DEF ListenerStartup, Prepare, hubVars, clientVars, loopVars, hubSide
  <2> QED
    BY <2>1, DeliveryStays DEF Waiting, Placed
<1>2. CASE SenderStep
  <2>1. UNCHANGED <<delayed, posted, wire, shown, earlier, fd_A, pc>> /\ IfShutDown
    BY <1>2 DEF SenderStep, SenderStartup, SenderEnds, hubSide
  <2>2. \/ UNCHANGED <<stream, backlog>>
        \/ stream' = [k \in Clients |-> <<>>] /\ backlog' = <<>>
    BY <2>1 DEF IfShutDown
  <2>3. Len(<<>>) = 0
    OBVIOUS
  <2>4. \A k : Waiting(k)' => Waiting(k)
    BY <2>2, <2>3 DEF Waiting
  <2>5. \A k : Placed(k)' <=> Placed(k)
    BY <2>1 DEF Placed
  <2>6. \A k \in Clients : stream'[k] \in {stream[k], <<>>}
    BY <2>2
  <2> QED
    BY <2>1, <2>4, <2>5, <2>6, DeliveryStays
<1> QED
  BY <1>1, <1>2

LEMMA DeliveryBegins ==
    ASSUME ListenerInit
    PROVE  Delivery /\ Box!BoxInit
<1>1. /\ wire = <<>> /\ posted = {} /\ shown = <<>> /\ earlier = [k \in Clients |-> {}]
      /\ stream = [k \in Clients |-> <<>>]
      /\ backlog = <<>> /\ fd_A = [i \in Slots |-> Free]
  BY DEF ListenerInit, HubInit
<1>2. Len(<<>>) = 0 /\ Free \notin Clients
  BY HubAssumption
<1>3. Course
  BY CourseBegins
<1>4. Once
  BY <1>1, <1>2 DEF Once, Coming
<1>5. InLine
  BY <1>1, <1>2 DEF InLine, Waiting, Placed
<1>6. Left = {}
  BY <1>1 DEF Left
<1>7. Sorted /\ InOrder(Left) = <<>>
  BY <1>6, InOrderOfNone DEF Sorted
<1> QED
  BY <1>1, <1>3, <1>4, <1>5, <1>7 DEF Delivery, Box!BoxInit, Left

\* Every step of the listener is a step of the mailbox or leaves it alone.
LEMMA DeliveryGoesOn ==
    ASSUME Delivery, [ListenerNext]_listenerVars
    PROVE  Delivery' /\ [Box!BoxNext]_Box!boxVars
<1>0. Course'
  BY CourseGoesOn DEF Delivery
<1>1. UNCHANGED <<delayed, posted, shown>> => UNCHANGED Box!boxVars
  BY DEF Box!boxVars
<1>2. ASSUME HubRefused \/ UNCHANGED listenerVars
      PROVE  Delivery' /\ UNCHANGED <<delayed, posted, shown>>
  <2>1. UNCHANGED <<delayed, posted, wire, shown, earlier, stream, backlog, fd_A, pc>>
    BY <1>2 DEF HubRefused, listenerVars, hubVars, clientVars, loopVars, procVars, hubSide
  <2> QED
    BY <1>0, <2>1, DeliveryStays DEF Waiting, Placed
<1>3. ASSUME HubSends PROVE Delivery' /\ [Box!BoxNext]_Box!boxVars
  <2>1. /\ Delivery' /\ UNCHANGED <<delayed, shown>> /\ call \in Clients
        /\ ~ delayed => InOrder(Left') = Append(InOrder(Left), call)
    BY <1>0, <1>3, DeliveryPosts
  <2>2. CASE delayed
    BY <2>1, <2>2 DEF Box!boxVars
  <2>3. CASE ~ delayed
    <3>1. Box!Post(call)
      BY <2>1, <2>3 DEF Box!Post, Left
    <3> QED
      BY <2>1, <3>1 DEF Box!BoxNext
  <2> QED
    BY <2>1, <2>2, <2>3
<1>4. ASSUME started = "listening", NEW i \in Slots, ShowAnswer(i)
      PROVE  Delivery' /\ [Box!BoxNext]_Box!boxVars
  <2>1. /\ Delivery' /\ UNCHANGED <<delayed, posted>>
        /\ ~ delayed => /\ InOrder(Left) # <<>> /\ InOrder(Left') = Tail(InOrder(Left))
                        /\ shown' = Append(shown, Head(InOrder(Left)))
    BY <1>0, <1>4, DeliveryShows
  <2>2. CASE delayed
    BY <2>1, <2>2 DEF Box!boxVars
  <2>3. CASE ~ delayed
    <3>1. Box!Show
      BY <2>1, <2>3 DEF Box!Show, Left
    <3> QED
      BY <2>1, <3>1 DEF Box!BoxNext
  <2> QED
    BY <2>1, <2>2, <2>3
<1>5. CASE HubSide
  BY <1>0, <1>1, <1>2, <1>3, <1>5, DeliveryConnects, DeliveryCloses DEF HubSide
<1>6. CASE Network
  BY <1>0, <1>1, <1>6, DeliveryArrives
<1>7. CASE ListenerStep \/ SenderStep
  BY <1>0, <1>1, <1>4, <1>7, DeliveryThreads, DeliveryLoop DEF ListenerStep
<1>8. CASE UNCHANGED listenerVars
  BY <1>1, <1>2, <1>8
<1> QED
  BY <1>5, <1>6, <1>7, <1>8 DEF ListenerNext

\* The listener of a client's process is a mailbox, for any number of slots, of
\* answers and of connections that wait, and whenever the threads of the process
\* end: on a network that keeps order the answers are shown whole, each once and
\* in the order in which the hub sent them.
THEOREM ListenerImplementsMailbox == ListenerSpec => ImplementsMailbox
<1>1. ListenerInit => Delivery /\ Box!BoxInit
  BY DeliveryBegins
<1>2. Delivery /\ [ListenerNext]_listenerVars => Delivery' /\ [Box!BoxNext]_Box!boxVars
  BY DeliveryGoesOn
<1> QED
  BY <1>1, <1>2, PTL DEF ListenerSpec, ImplementsMailbox, Box!BoxSpec
==============================================================================
