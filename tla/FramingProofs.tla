--------------------------- MODULE FramingProofs ---------------------------
(***************************************************************************)
(* Theorems about the requests as bytes, for any names, texts and numbers  *)
(* of requests, and however recv cuts the stream.                          *)
(***************************************************************************)
EXTENDS Answers, SequenceTheorems, FiniteSetTheorems, TLAPS

-----------------------------------------------------------------------------
(* Numbers: a set of them has a least one, and a function may be defined   *)
(* by a step from each value to the next.                                  *)

\* A set of numbers that is not empty has a least one.
LEMMA Least ==
    ASSUME NEW T, T \subseteq Nat, T # {}
    PROVE  \E x \in T : \A y \in T : x <= y
<1> DEFINE Less == OpToRel(<, Nat)
<1>1. \A a, b \in Nat : <<a, b>> \in Less <=> a < b
  BY DEF OpToRel
<1>2. IsWellFoundedOn(Less, Nat)
  BY NatLessThanWellFounded
<1> HIDE DEF Less
<1>3. PICK x \in T : \A y \in T : ~ (<<y, x>> \in Less)
  BY <1>2, WFMin
<1>4. \A y \in T : x <= y
  <2> TAKE y \in T
  <2>1. x \in Nat /\ y \in Nat /\ ~ (<<y, x>> \in Less)
    BY <1>3
  <2>2. ~ (y < x)
    BY <1>1, <2>1
  <2> QED
    BY <2>1, <2>2
<1> QED
  BY <1>4

\* A set of numbers that has 0 and with each number the next has them all.
LEMMA SetInduction ==
    ASSUME NEW T, T \subseteq Nat, 0 \in T, \A n \in T : n + 1 \in T
    PROVE  T = Nat
<1> SUFFICES ASSUME Nat \ T # {} PROVE FALSE
  OBVIOUS
<1>1. PICK x \in Nat \ T : \A y \in Nat \ T : x <= y
  <2>1. Nat \ T \subseteq Nat
    OBVIOUS
  <2> QED
    BY <2>1, Least
<1>2. x # 0 /\ x - 1 \in Nat
  BY <1>1
<1>3. x - 1 \in T
  BY <1>1, <1>2
<1> QED
  BY <1>1, <1>2, <1>3

\* The values f[0], ..., f[n] are b and what step makes of each in turn.
Runs(f, T, b, step, n) ==
    f \in [0 .. n -> T] /\ f[0] = b /\ \A k \in 0 .. n - 1 : f[k + 1] = step[<<k, f[k]>>]

\* A function that begins with b and goes on by step exists, up to any n.
LEMMA Recursion ==
    ASSUME NEW T, NEW b \in T, NEW step \in [Nat \X T -> T], NEW n \in Nat
    PROVE  \E f : Runs(f, T, b, step, n)
<1> DEFINE S == {m \in Nat : \E f : Runs(f, T, b, step, m)}
<1>1. 0 \in S
  <2> DEFINE f == [k \in 0 .. 0 |-> b]
  <2>1. f \in [0 .. 0 -> T] /\ f[0] = b
    OBVIOUS
  <2> HIDE DEF f
  <2>2. \A k \in 0 .. 0 - 1 : f[k + 1] = step[<<k, f[k]>>]
    OBVIOUS
  <2> QED
    BY <2>1, <2>2 DEF Runs
<1>2. ASSUME NEW m \in S PROVE m + 1 \in S
  <2>1. PICK f : Runs(f, T, b, step, m)
    OBVIOUS
  <2> DEFINE g == [k \in 0 .. m + 1 |-> IF k = m + 1 THEN step[<<m, f[m]>>] ELSE f[k]]
  <2>2. g \in [0 .. m + 1 -> T]
    BY <2>1 DEF Runs
  <2>3. g[0] = b
    BY <2>1 DEF Runs
  <2>4. ASSUME NEW k \in 0 .. m PROVE g[k + 1] = step[<<k, g[k]>>]
    <3>1. g[k] = f[k]
      OBVIOUS
    <3>2. CASE k = m
      <4>1. k + 1 \in 0 .. m + 1 /\ k + 1 = m + 1
        BY <3>2
      <4>2. g[k + 1] = step[<<m, f[m]>>]
        BY <4>1
      <4> QED
        BY <3>1, <3>2, <4>2
    <3>3. CASE k # m
      <4>1. k \in 0 .. m - 1 /\ k + 1 \in 0 .. m
        BY <3>3
      <4>2. g[k + 1] = f[k + 1]
        BY <4>1
      <4> QED
        BY <2>1, <3>1, <4>1, <4>2 DEF Runs
    <3> QED
      BY <3>2, <3>3
  <2> HIDE DEF g
  <2>5. \A k \in 0 .. m + 1 - 1 : g[k + 1] = step[<<k, g[k]>>]
    <3>1. m + 1 - 1 = m
      OBVIOUS
    <3> QED
      BY <2>4, <3>1
  <2> QED
    BY <2>2, <2>3, <2>5 DEF Runs
<1>3. S = Nat
  <2> HIDE DEF S
  <2>1. S \subseteq Nat
    BY DEF S
  <2> QED
    BY <1>1, <1>2, <2>1, SetInduction
<1> QED
  BY <1>3

-----------------------------------------------------------------------------
(* Sequences put one behind the other.                                     *)

\* What FlattenSeq makes of sequences of characters, as a recursion.
LEMMA FlattenIs ==
    ASSUME NEW Q \in Seq(Seq(Char)),
           NEW f \in [0 .. Len(Q) -> Seq(Char)], f[0] = <<>>,
           \A k \in 0 .. Len(Q) - 1 : f[k + 1] = f[k] \o Q[k + 1]
    PROVE  FlattenSeq(Q) = f[Len(Q)]
<1> DEFINE n == Len(Q)
<1>0. n \in Nat /\ Q \in [1 .. n -> Seq(Char)] /\ DOMAIN Q = 1 .. n
  BY LenProperties
<1>1. CASE n = 0
  <2>1. Q = <<>>
    BY <1>0, <1>1
  <2> QED
    BY <1>1, <2>1 DEF FlattenSeq
<1>2. CASE n # 0
  <2> DEFINE P(h) == h = [i \in 1 .. n |-> IF i = 1 THEN Q[i] ELSE h[i - 1] \o Q[i]]
             g == [i \in 1 .. n |-> f[i]]
             c == CHOOSE h : P(h)
  <2>0. f[1] = Q[1]
    <3>1. 0 \in 0 .. n - 1 /\ 1 \in 1 .. n
      BY <1>0, <1>2
    <3>2. f[0 + 1] = f[0] \o Q[0 + 1]
      BY <3>1
    <3>3. 0 + 1 = 1
      OBVIOUS
    <3>4. f[1] = <<>> \o Q[1]
      BY <3>2, <3>3
    <3> QED
      BY <1>0, <3>1, <3>4, ConcatEmptySeq
  <2>1. P(g)
    <3>1. ASSUME NEW i \in 1 .. n
          PROVE  g[i] = IF i = 1 THEN Q[i] ELSE g[i - 1] \o Q[i]
      <4>1. CASE i = 1
        BY <2>0, <4>1
      <4>2. CASE i # 1
        <5>1. PICK k \in 0 .. n - 1 : k + 1 = i /\ i - 1 = k /\ k \in 1 .. n
          BY <1>0, <4>2
        <5>2. f[k + 1] = f[k] \o Q[k + 1]
          OBVIOUS
        <5>3. g[i] = f[k + 1] /\ g[k] = f[k]
          BY <5>1
        <5> QED
          BY <4>2, <5>1, <5>2, <5>3
      <4> QED
        BY <4>1, <4>2
    <3> QED
      BY <3>1
  <2>2. P(c)
    BY <2>1
  <2>3. FlattenSeq(Q) = c[n]
    BY <1>0, <1>2 DEF FlattenSeq
  <2> HIDE DEF c
  <2> DEFINE S == {k \in Nat : k + 1 \in 1 .. n => c[k + 1] = f[k + 1]}
  <2>4. 0 \in S
    <3>1. 1 \in 1 .. n
      BY <1>0, <1>2
    <3>2. c[1] = Q[1]
      BY <2>2, <3>1
    <3> QED
      BY <2>0, <3>2
  <2>5. ASSUME NEW k \in S PROVE k + 1 \in S
    <3> DEFINE m == k + 1
    <3>0. m \in Nat /\ m # 0
      OBVIOUS
    <3> SUFFICES ASSUME m + 1 \in 1 .. n PROVE c[m + 1] = f[m + 1]
      BY <3>0
    <3>1. m \in 1 .. n /\ m \in 0 .. n - 1 /\ c[m] = f[m]
      BY <1>0, <3>0
    <3> HIDE DEF m
    <3>2. m + 1 - 1 = m /\ m + 1 # 1
      BY <3>0
    <3>3. c[m + 1] = c[m] \o Q[m + 1]
      <4>1. PICK i \in 1 .. n : i = m + 1
        OBVIOUS
      <4>2. c[i] = IF i = 1 THEN Q[i] ELSE c[i - 1] \o Q[i]
        BY <2>2
      <4>3. i # 1 /\ i - 1 = m
        BY <3>0, <4>1
      <4> QED
        BY <4>1, <4>2, <4>3
    <3>4. f[m + 1] = f[m] \o Q[m + 1]
      BY <3>1
    <3> QED
      BY <3>1, <3>3, <3>4
  <2>6. S = Nat
    <3> HIDE DEF S
    <3>1. S \subseteq Nat
      BY DEF S
    <3> QED
      BY <2>4, <2>5, <3>1, SetInduction
  <2>7. PICK k \in Nat : k + 1 = n
    <3>1. n - 1 \in Nat /\ n - 1 + 1 = n
      BY <1>0, <1>2
    <3> QED
      BY <3>1
  <2>8. k + 1 \in 1 .. n => c[k + 1] = f[k + 1]
    BY <2>6
  <2> QED
    BY <1>0, <1>2, <2>3, <2>7, <2>8
<1> QED
  BY <1>1, <1>2

\* One sequence more adds its characters at the end.
LEMMA FlattenAppend ==
    ASSUME NEW Q \in Seq(Seq(Char)), NEW x \in Seq(Char)
    PROVE  /\ FlattenSeq(Q) \in Seq(Char)
           /\ FlattenSeq(Append(Q, x)) = FlattenSeq(Q) \o x
<1> DEFINE n == Len(Q)
           m == n + 1
           R == Append(Q, x)
<1>1. /\ n \in Nat /\ m \in Nat /\ m - 1 = n
      /\ R \in Seq(Seq(Char)) /\ Len(R) = m /\ R[m] = x
      /\ \A k \in 1 .. n : R[k] = Q[k]
  BY LenProperties, AppendProperties
<1>2. \A k \in 0 .. n : R[k + 1] \in Seq(Char)
  BY <1>1, ElementOfSeq
<1> HIDE DEF R, m
<1> DEFINE step == [a \in Nat \X Seq(Char) |-> IF a[1] \in 0 .. n THEN a[2] \o R[a[1] + 1] ELSE <<>>]
<1>3. step \in [Nat \X Seq(Char) -> Seq(Char)]
  <2>1. ASSUME NEW a \in Nat \X Seq(Char)
        PROVE  (IF a[1] \in 0 .. n THEN a[2] \o R[a[1] + 1] ELSE <<>>) \in Seq(Char)
    <3>1. CASE a[1] \in 0 .. n
      <4>1. a[2] \in Seq(Char) /\ R[a[1] + 1] \in Seq(Char)
        BY <1>2, <3>1
      <4>2. a[2] \o R[a[1] + 1] \in Seq(Char)
        BY <4>1, ConcatProperties
      <4> QED
        BY <3>1, <4>2
    <3>2. CASE a[1] \notin 0 .. n
      BY <3>2, EmptySeq
    <3> QED
      BY <3>1, <3>2
  <2> QED
    BY <2>1
<1>4. ASSUME NEW k \in 0 .. n, NEW v \in Seq(Char)
      PROVE  step[<<k, v>>] = v \o R[k + 1]
  <2>1. <<k, v>> \in Nat \X Seq(Char) /\ <<k, v>>[1] = k /\ <<k, v>>[2] = v
    BY <1>1
  <2> QED
    BY <2>1
<1> HIDE DEF step
<1>5. PICK f : Runs(f, Seq(Char), <<>>, step, m)
  <2>1. <<>> \in Seq(Char)
    BY EmptySeq
  <2> QED
    BY <1>1, <1>3, <2>1, Recursion
<1>6. ASSUME NEW k \in 0 .. n PROVE f[k + 1] = f[k] \o R[k + 1]
  <2>1. f[k] \in Seq(Char)
    BY <1>1, <1>5 DEF Runs
  <2>2. f[k + 1] = step[<<k, f[k]>>]
    BY <1>1, <1>5 DEF Runs
  <2> QED
    BY <1>4, <2>1, <2>2
<1>7. FlattenSeq(R) = f[m]
  <2>1. \A k \in 0 .. Len(R) - 1 : f[k + 1] = f[k] \o R[k + 1]
    BY <1>1, <1>6
  <2> QED
    BY <1>1, <1>5, <2>1, FlattenIs DEF Runs
<1>8. FlattenSeq(Q) = f[n] /\ f[n] \in Seq(Char)
  <2> DEFINE g == [k \in 0 .. n |-> f[k]]
  <2>1. g \in [0 .. n -> Seq(Char)] /\ g[0] = <<>>
    BY <1>1, <1>5 DEF Runs
  <2>2. ASSUME NEW k \in 0 .. n - 1 PROVE g[k + 1] = g[k] \o Q[k + 1]
    <3>1. k \in 0 .. n /\ k + 1 \in 0 .. n /\ k + 1 \in 1 .. n
      BY <1>1
    <3>2. f[k + 1] = f[k] \o R[k + 1] /\ R[k + 1] = Q[k + 1]
      BY <1>1, <1>6, <3>1
    <3>3. g[k + 1] = f[k + 1] /\ g[k] = f[k]
      BY <3>1
    <3> QED
      BY <3>2, <3>3
  <2>3. g[n] = f[n] /\ f[n] \in Seq(Char)
    BY <1>1, <1>5 DEF Runs
  <2> HIDE DEF g
  <2> QED
    BY <2>1, <2>2, <2>3, FlattenIs
<1>9. f[m] = f[n] \o R[m]
  <2>1. n \in 0 .. n /\ n + 1 = m
    BY <1>1
  <2>2. f[n + 1] = f[n] \o R[n + 1]
    BY <1>6, <2>1
  <2> QED
    BY <2>1, <2>2
<1> QED
  BY <1>1, <1>7, <1>8, <1>9 DEF R

-----------------------------------------------------------------------------
(* atoi.                                                                   *)

Digits == {"0", "1", "2", "3", "4", "5", "6", "7", "8", "9"}

\* The ten digits and what they are worth.
LEMMA DigitValues ==
    /\ DOMAIN DigitValue = Digits
    /\ \A d \in Digits : DigitValue[d] \in Nat
    /\ \A d, e \in Digits : DigitValue[d] = DigitValue[e] => d = e
    /\ DigitValue["0"] = 0 /\ DigitValue["1"] = 1 /\ DigitValue["3"] = 3
    /\ DigitValue["4"] = 4 /\ DigitValue["5"] = 5 /\ DigitValue["6"] = 6
<1> DEFINE D == <<"0", "1", "2", "3", "4", "5", "6", "7", "8", "9">>
           V(d) == CHOOSE v \in 0 .. 9 : d = D[v + 1]
<1>1. \A d \in Digits : \E v \in 0 .. 9 : d = D[v + 1]
  <2>1. \A v \in 0 .. 9 : D[v + 1] \in Digits
    BY DEF Digits
  <2>2. /\ D[0 + 1] = "0" /\ D[1 + 1] = "1" /\ D[2 + 1] = "2" /\ D[3 + 1] = "3" /\ D[4 + 1] = "4"
        /\ D[5 + 1] = "5" /\ D[6 + 1] = "6" /\ D[7 + 1] = "7" /\ D[8 + 1] = "8" /\ D[9 + 1] = "9"
    OBVIOUS
  <2>3. 0 \in 0 .. 9 /\ 1 \in 0 .. 9 /\ 2 \in 0 .. 9 /\ 3 \in 0 .. 9 /\ 4 \in 0 .. 9
        /\ 5 \in 0 .. 9 /\ 6 \in 0 .. 9 /\ 7 \in 0 .. 9 /\ 8 \in 0 .. 9 /\ 9 \in 0 .. 9
    OBVIOUS
  <2> HIDE DEF D
  <2> QED
    BY <2>2, <2>3 DEF Digits
<1>2. DigitValue = [d \in Digits |-> V(d)]
  BY DEF DigitValue, Digits
<1>3. \A d \in Digits : V(d) \in 0 .. 9 /\ d = D[V(d) + 1]
  BY <1>1
<1>4. \A v \in 0 .. 9 : v = 0 \/ v = 1 \/ v = 2 \/ v = 3 \/ v = 4
                        \/ v = 5 \/ v = 6 \/ v = 7 \/ v = 8 \/ v = 9
  OBVIOUS
<1>5. \A v, w \in 0 .. 9 : D[v + 1] = D[w + 1] => v = w
  BY <1>4
<1>6. D[1] = "0" /\ D[2] = "1" /\ D[4] = "3" /\ D[5] = "4" /\ D[6] = "5" /\ D[7] = "6"
  OBVIOUS
<1>7. \A v \in 0 .. 9 : \A d \in Digits : D[v + 1] = d => V(d) = v
  BY <1>3, <1>5
<1> HIDE DEF D, V
<1>8. /\ V("0") = 0 /\ V("1") = 1 /\ V("3") = 3
      /\ V("4") = 4 /\ V("5") = 5 /\ V("6") = 6
  BY <1>6, <1>7 DEF Digits
<1>9. /\ "0" \in Digits /\ "1" \in Digits /\ "3" \in Digits
      /\ "4" \in Digits /\ "5" \in Digits /\ "6" \in Digits
  BY DEF Digits
<1> QED
  BY <1>2, <1>3, <1>8, <1>9

\* What Number makes of a row of digits, as a recursion.
LEMMA NumberIs ==
    ASSUME NEW d \in Seq(Digits), NEW f \in [0 .. Len(d) -> Nat], f[0] = 0,
           \A k \in 0 .. Len(d) - 1 : f[k + 1] = 10 * f[k] + DigitValue[d[k + 1]]
    PROVE  Number(d) = f[Len(d)]
<1> DEFINE n == Len(d)
           P(h) == h = [k \in 0 .. n |-> IF k = 0 THEN 0 ELSE 10 * h[k - 1] + DigitValue[d[k]]]
           c == CHOOSE h : P(h)
<1>0. n \in Nat
  BY LenProperties
<1>1. P(f)
  <2>1. ASSUME NEW k \in 0 .. n
        PROVE  f[k] = IF k = 0 THEN 0 ELSE 10 * f[k - 1] + DigitValue[d[k]]
    <3>1. CASE k = 0
      BY <3>1
    <3>2. CASE k # 0
      <4>1. PICK i \in 0 .. n - 1 : i + 1 = k /\ k - 1 = i
        BY <1>0, <3>2
      <4>2. f[i + 1] = 10 * f[i] + DigitValue[d[i + 1]]
        OBVIOUS
      <4> QED
        BY <3>2, <4>1, <4>2
    <3> QED
      BY <3>1, <3>2
  <2> QED
    BY <2>1
<1>2. P(c)
  BY <1>1
<1>3. Number(d) = c[n]
  BY DEF Number
<1> HIDE DEF c
<1> DEFINE S == {k \in Nat : k \in 0 .. n => c[k] = f[k]}
<1>4. 0 \in S
  BY <1>0, <1>2
<1>5. ASSUME NEW k \in S PROVE k + 1 \in S
  <2>0. k \in Nat
    OBVIOUS
  <2> SUFFICES ASSUME k + 1 \in 0 .. n PROVE c[k + 1] = f[k + 1]
    BY <2>0
  <2>1. k \in 0 .. n /\ k \in 0 .. n - 1 /\ c[k] = f[k]
    BY <1>0
  <2>2. PICK i \in 0 .. n : i = k + 1
    OBVIOUS
  <2>3. c[i] = IF i = 0 THEN 0 ELSE 10 * c[i - 1] + DigitValue[d[i]]
    BY <1>2
  <2>4. i # 0 /\ i - 1 = k
    BY <2>0, <2>2
  <2>5. f[k + 1] = 10 * f[k] + DigitValue[d[k + 1]]
    BY <2>1
  <2> QED
    BY <2>1, <2>2, <2>3, <2>4, <2>5
<1>6. S = Nat
  <2> HIDE DEF S
  <2>1. S \subseteq Nat
    BY DEF S
  <2> QED
    BY <1>4, <1>5, <2>1, SetInduction
<1>7. n \in S
  BY <1>0, <1>6
<1> QED
  BY <1>0, <1>3, <1>7

\* A digit more is ten times the number and that digit.
LEMMA NumberAppend ==
    ASSUME NEW d \in Seq(Digits), NEW x \in Digits
    PROVE  /\ Number(<<>>) = 0
           /\ Number(d) \in Nat
           /\ Number(Append(d, x)) = 10 * Number(d) + DigitValue[x]
<1> DEFINE n == Len(d)
           m == n + 1
           e == Append(d, x)
<1>1. /\ n \in Nat /\ m \in Nat /\ m - 1 = n
      /\ e \in Seq(Digits) /\ Len(e) = m /\ e[m] = x
      /\ \A k \in 1 .. n : e[k] = d[k]
  BY LenProperties, AppendProperties
<1>2. \A k \in 0 .. n : DigitValue[e[k + 1]] \in Nat
  <2>1. \A k \in 0 .. n : e[k + 1] \in Digits
    BY <1>1, ElementOfSeq
  <2> QED
    BY <2>1, DigitValues
<1> HIDE DEF e, m
<1> DEFINE step == [a \in Nat \X Nat |-> IF a[1] \in 0 .. n THEN 10 * a[2] + DigitValue[e[a[1] + 1]] ELSE 0]
<1>3. step \in [Nat \X Nat -> Nat]
  <2>1. ASSUME NEW a \in Nat \X Nat
        PROVE  (IF a[1] \in 0 .. n THEN 10 * a[2] + DigitValue[e[a[1] + 1]] ELSE 0) \in Nat
    <3>1. a[2] \in Nat /\ a[1] \in Nat
      OBVIOUS
    <3> QED
      BY <1>2, <3>1
  <2> QED
    BY <2>1
<1>4. ASSUME NEW k \in 0 .. n, NEW v \in Nat
      PROVE  step[<<k, v>>] = 10 * v + DigitValue[e[k + 1]]
  <2>1. <<k, v>> \in Nat \X Nat /\ <<k, v>>[1] = k /\ <<k, v>>[2] = v
    BY <1>1
  <2> QED
    BY <2>1
<1> HIDE DEF step
<1>5. PICK f : Runs(f, Nat, 0, step, m)
  BY <1>1, <1>3, Recursion
<1>6. ASSUME NEW k \in 0 .. n PROVE f[k + 1] = 10 * f[k] + DigitValue[e[k + 1]]
  <2>1. f[k] \in Nat
    BY <1>1, <1>5 DEF Runs
  <2>2. f[k + 1] = step[<<k, f[k]>>]
    BY <1>1, <1>5 DEF Runs
  <2> QED
    BY <1>4, <2>1, <2>2
<1>7. Number(e) = f[m]
  <2>1. \A k \in 0 .. Len(e) - 1 : f[k + 1] = 10 * f[k] + DigitValue[e[k + 1]]
    BY <1>1, <1>6
  <2> QED
    BY <1>1, <1>5, <2>1, NumberIs DEF Runs
<1>8. Number(d) = f[n] /\ f[n] \in Nat
  <2> DEFINE g == [k \in 0 .. n |-> f[k]]
  <2>1. g \in [0 .. n -> Nat] /\ g[0] = 0
    BY <1>1, <1>5 DEF Runs
  <2>2. ASSUME NEW k \in 0 .. n - 1 PROVE g[k + 1] = 10 * g[k] + DigitValue[d[k + 1]]
    <3>1. k \in 0 .. n /\ k + 1 \in 0 .. n /\ k + 1 \in 1 .. n
      BY <1>1
    <3>2. f[k + 1] = 10 * f[k] + DigitValue[e[k + 1]] /\ e[k + 1] = d[k + 1]
      BY <1>1, <1>6, <3>1
    <3>3. g[k + 1] = f[k + 1] /\ g[k] = f[k]
      BY <3>1
    <3> QED
      BY <3>2, <3>3
  <2>3. g[n] = f[n] /\ f[n] \in Nat
    BY <1>1, <1>5 DEF Runs
  <2> HIDE DEF g
  <2> QED
    BY <2>1, <2>2, <2>3, NumberIs
<1>9. f[m] = 10 * f[n] + DigitValue[e[m]]
  <2>1. n \in 0 .. n /\ n + 1 = m
    BY <1>1
  <2>2. f[n + 1] = 10 * f[n] + DigitValue[e[n + 1]]
    BY <1>6, <2>1
  <2> QED
    BY <2>1, <2>2
<1>10. Number(<<>>) = 0
  <2> DEFINE h == [k \in 0 .. 0 |-> 0]
  <2>1. <<>> \in Seq(Digits) /\ Len(<<>>) = 0 /\ h \in [0 .. 0 -> Nat] /\ h[0] = 0
    OBVIOUS
  <2> HIDE DEF h
  <2>2. \A k \in 0 .. 0 - 1 : h[k + 1] = 10 * h[k] + DigitValue[<<>>[k + 1]]
    OBVIOUS
  <2> QED
    BY <2>1, <2>2, NumberIs
<1> QED
  BY <1>1, <1>7, <1>8, <1>9, <1>10 DEF e

\* What four digits are worth, and what is left of them when recv begins a
\* message inside a tag.
LEMMA NumberOfFour ==
    /\ \A x \in Digits : Number(<<x>>) = DigitValue[x]
    /\ \A x, y \in Digits : Number(<<x, y>>) = 10 * DigitValue[x] + DigitValue[y]
    /\ \A x, y, z \in Digits :
          Number(<<x, y, z>>) = 100 * DigitValue[x] + 10 * DigitValue[y] + DigitValue[z]
    /\ \A x, y, z, w \in Digits :
          Number(<<x, y, z, w>>) =
             1000 * DigitValue[x] + 100 * DigitValue[y] + 10 * DigitValue[z] + DigitValue[w]
<1>1. ASSUME NEW x \in Digits PROVE Number(<<x>>) = DigitValue[x]
  <2>1. <<x>> = Append(<<>>, x) /\ <<>> \in Seq(Digits)
    OBVIOUS
  <2>2. Number(<<x>>) = 10 * Number(<<>>) + DigitValue[x] /\ Number(<<>>) = 0
    BY <2>1, NumberAppend
  <2>3. DigitValue[x] \in Nat
    BY DigitValues
  <2> QED
    BY <2>2, <2>3
<1>2. ASSUME NEW x \in Digits, NEW y \in Digits
      PROVE  Number(<<x, y>>) = 10 * DigitValue[x] + DigitValue[y]
  <2>1. <<x, y>> = Append(<<x>>, y) /\ <<x>> \in Seq(Digits)
    OBVIOUS
  <2> QED
    BY <1>1, <2>1, NumberAppend
<1>3. ASSUME NEW x \in Digits, NEW y \in Digits, NEW z \in Digits
      PROVE  Number(<<x, y, z>>) = 100 * DigitValue[x] + 10 * DigitValue[y] + DigitValue[z]
  <2>1. <<x, y, z>> = Append(<<x, y>>, z) /\ <<x, y>> \in Seq(Digits)
    OBVIOUS
  <2>2. Number(<<x, y, z>>) = 10 * Number(<<x, y>>) + DigitValue[z]
    BY <2>1, NumberAppend
  <2>3. DigitValue[x] \in Nat /\ DigitValue[y] \in Nat /\ DigitValue[z] \in Nat
    BY DigitValues
  <2> QED
    BY <1>2, <2>2, <2>3
<1>4. ASSUME NEW x \in Digits, NEW y \in Digits, NEW z \in Digits, NEW w \in Digits
      PROVE  Number(<<x, y, z, w>>) =
                1000 * DigitValue[x] + 100 * DigitValue[y] + 10 * DigitValue[z] + DigitValue[w]
  <2>1. <<x, y, z, w>> = Append(<<x, y, z>>, w) /\ <<x, y, z>> \in Seq(Digits)
    OBVIOUS
  <2>2. Number(<<x, y, z, w>>) = 10 * Number(<<x, y, z>>) + DigitValue[w]
    BY <2>1, NumberAppend
  <2>3. /\ DigitValue[x] \in Nat /\ DigitValue[y] \in Nat
        /\ DigitValue[z] \in Nat /\ DigitValue[w] \in Nat
    BY DigitValues
  <2> QED
    BY <1>3, <2>2, <2>3
<1> QED
  BY <1>1, <1>2, <1>3, <1>4

-----------------------------------------------------------------------------
(* Pieces of sequences.                                                    *)

\* The characters of a piece of a sequence.
LEMMA PieceIs ==
    ASSUME NEW s \in Seq(Char), NEW a \in Nat \ {0}, NEW b \in Nat, a <= b + 1, b <= Len(s)
    PROVE  /\ SubSeq(s, a, b) \in Seq(Char)
           /\ Len(SubSeq(s, a, b)) = b - a + 1
           /\ \A i \in 1 .. b - a + 1 : SubSeq(s, a, b)[i] = s[a + i - 1]
<1>1. Len(s) \in Nat
  BY LenProperties
<1>2. \A i \in a .. b : s[i] \in Char
  BY <1>1, ElementOfSeq
<1>3. a \in Int /\ b \in Int
  OBVIOUS
<1>4. /\ SubSeq(s, a, b) \in Seq(Char)
      /\ Len(SubSeq(s, a, b)) = IF a <= b THEN b - a + 1 ELSE 0
      /\ \A i \in 1 .. b - a + 1 : SubSeq(s, a, b)[i] = s[a + i - 1]
  BY <1>2, <1>3, SubSeqProperties
<1> QED
  BY <1>3, <1>4

\* Pieces with the same characters are equal.
LEMMA SamePiece ==
    ASSUME NEW s \in Seq(Char), NEW a \in Nat \ {0}, NEW b \in Nat, a <= b + 1, b <= Len(s),
           NEW t \in Seq(Char), NEW c \in Nat \ {0}, NEW d \in Nat, c <= d + 1, d <= Len(t),
           b - a = d - c, \A i \in 1 .. b - a + 1 : s[a + i - 1] = t[c + i - 1]
    PROVE  SubSeq(s, a, b) = SubSeq(t, c, d)
<1>1. /\ SubSeq(s, a, b) \in Seq(Char)
      /\ Len(SubSeq(s, a, b)) = b - a + 1
      /\ \A i \in 1 .. b - a + 1 : SubSeq(s, a, b)[i] = s[a + i - 1]
  BY PieceIs
<1>2. /\ SubSeq(t, c, d) \in Seq(Char)
      /\ Len(SubSeq(t, c, d)) = d - c + 1
      /\ \A i \in 1 .. d - c + 1 : SubSeq(t, c, d)[i] = t[c + i - 1]
  BY PieceIs
<1>3. b - a + 1 = d - c + 1
  OBVIOUS
<1> DEFINE u == SubSeq(s, a, b)
           v == SubSeq(t, c, d)
<1>4. Len(u) = Len(v)
  BY <1>1, <1>2, <1>3
<1>5. \A i \in 1 .. Len(u) : u[i] = v[i]
  BY <1>1, <1>2, <1>3
<1>6. u \in Seq(Char) /\ v \in Seq(Char)
  BY <1>1, <1>2
<1> HIDE DEF u, v
<1>7. u = v
  BY <1>4, <1>5, <1>6, SeqEqual
<1> QED
  BY <1>7 DEF u, v

\* The characters atoi reads.
Numeral == Digits \cup Blanks \cup {Plus}

\* The first k characters of s, and no more, are of T.
Stop(s, T, k) ==
    /\ k \in 0 .. Len(s)
    /\ \A i \in 1 .. k : s[i] \in T
    /\ k = Len(s) \/ s[k + 1] \notin T

\* The characters of T that s begins with end at one place at most.
LEMMA StopsOnce ==
    ASSUME NEW T, NEW s \in Seq(Char), NEW j, NEW k, Stop(s, T, j), Stop(s, T, k)
    PROVE  j = k
<1>1. Len(s) \in Nat /\ j \in Nat /\ k \in Nat
  BY LenProperties DEF Stop
<1>2. ~ (j < k)
  <2> SUFFICES ASSUME j < k PROVE FALSE
    OBVIOUS
  <2>1. j + 1 \in 1 .. k /\ j # Len(s)
    BY <1>1 DEF Stop
  <2> QED
    BY <2>1 DEF Stop
<1>3. ~ (k < j)
  <2> SUFFICES ASSUME k < j PROVE FALSE
    OBVIOUS
  <2>1. k + 1 \in 1 .. j /\ k # Len(s)
    BY <1>1 DEF Stop
  <2> QED
    BY <2>1 DEF Stop
<1> QED
  BY <1>1, <1>2, <1>3

\* They do end.
LEMMA StopsSomewhere ==
    ASSUME NEW T, NEW s \in Seq(Char)
    PROVE  \E k : Stop(s, T, k)
<1> DEFINE n == Len(s)
           E == {k \in 0 .. n : k = n \/ s[k + 1] \notin T}
<1>1. n \in Nat
  BY LenProperties
<1>2. n \in E /\ E \subseteq Nat
  BY <1>1
<1>3. PICK k \in E : \A j \in E : k <= j
  <2> HIDE DEF E
  <2>1. E # {}
    BY <1>2
  <2> QED
    BY <1>2, <2>1, Least
<1>4. ASSUME NEW i \in 1 .. k PROVE s[i] \in T
  <2>1. PICK j \in 0 .. n : j + 1 = i /\ j < k /\ j # n
    <3>1. k \in 0 .. n /\ i - 1 \in 0 .. n /\ i - 1 + 1 = i /\ i - 1 < k /\ i - 1 # n
      BY <1>1
    <3> QED
      BY <3>1
  <2>2. j \notin E
    BY <1>2, <1>3, <2>1
  <2> QED
    BY <2>1, <2>2
<1>5. Stop(s, T, k)
  BY <1>4 DEF Stop
<1> QED
  BY <1>5

\* Where they end, Leading stops.
LEMMA LeadingIs ==
    ASSUME NEW T, NEW s \in Seq(Char), NEW k, Stop(s, T, k)
    PROVE  Leading(s, T) = k
<1>1. Stop(s, T, Leading(s, T))
  BY DEF Stop, Leading
<1> QED
  BY <1>1, StopsOnce

\* Leading does not look behind the first character that is not of T.
LEMMA LeadingAgrees ==
    ASSUME NEW T, NEW s \in Seq(Char), NEW t \in Seq(Char),
           NEW k \in Nat, k <= Len(s), k <= Len(t),
           \A i \in 1 .. k : s[i] = t[i],
           k = Len(s) \/ s[k + 1] \notin T,
           k = Len(t) \/ t[k + 1] \notin T
    PROVE  /\ Leading(s, T) \in 0 .. k /\ Leading(t, T) = Leading(s, T)
           /\ Stop(s, T, Leading(s, T)) /\ Stop(t, T, Leading(s, T))
<1>0. Len(s) \in Nat /\ Len(t) \in Nat
  BY LenProperties
<1>1. PICK j : Stop(s, T, j)
  BY StopsSomewhere
<1>2. j \in Nat /\ j <= Len(s)
  BY <1>0, <1>1 DEF Stop
<1>3. j <= k
  <2> SUFFICES ASSUME k < j PROVE FALSE
    BY <1>2
  <2>1. k + 1 \in 1 .. j /\ k # Len(s)
    BY <1>0, <1>2
  <2> QED
    BY <1>1, <2>1 DEF Stop
<1>4. Stop(t, T, j)
  <2>1. \A i \in 1 .. j : t[i] \in T
    <3> TAKE i \in 1 .. j
    <3>1. i \in 1 .. k
      BY <1>2, <1>3
    <3> QED
      BY <1>1, <3>1 DEF Stop
  <2>2. j = Len(t) \/ t[j + 1] \notin T
    <3>1. CASE j = k
      BY <3>1
    <3>2. CASE j # k
      <4>1. j + 1 \in 1 .. k /\ j # Len(s)
        BY <1>0, <1>2, <1>3, <3>2
      <4> QED
        BY <1>1, <4>1 DEF Stop
    <3> QED
      BY <3>1, <3>2
  <2> QED
    BY <1>0, <1>2, <1>3, <2>1, <2>2 DEF Stop
<1>5. Leading(s, T) = j /\ Leading(t, T) = j
  BY <1>1, <1>4, LeadingIs
<1> QED
  BY <1>1, <1>2, <1>3, <1>4, <1>5

\* Nor does the reading of digits.
LEMMA DigitsAgree ==
    ASSUME NEW s \in Seq(Char), NEW t \in Seq(Char),
           NEW k \in Nat, k <= Len(s), k <= Len(t),
           \A i \in 1 .. k : s[i] = t[i],
           k = Len(s) \/ s[k + 1] \notin Digits,
           k = Len(t) \/ t[k + 1] \notin Digits
    PROVE  DigitsOf(s) = DigitsOf(t)
<1>0. Len(s) \in Nat /\ Len(t) \in Nat
  BY LenProperties
<1>1. PICK j \in 0 .. k : j = Leading(s, Digits) /\ j = Leading(t, Digits)
  BY LeadingAgrees
<1>5. SubSeq(s, 1, j) = SubSeq(t, 1, j)
  <2>1. \A i \in 1 .. j - 1 + 1 : s[1 + i - 1] = t[1 + i - 1]
    <3> TAKE i \in 1 .. j - 1 + 1
    <3>1. i \in 1 .. k /\ 1 + i - 1 = i
      BY <1>1
    <3> QED
      BY <3>1
  <2>2. 1 \in Nat \ {0} /\ j \in Nat /\ 1 <= j + 1 /\ j <= Len(t) /\ j <= Len(s)
    BY <1>0, <1>1
  <2> QED
    BY <2>1, <2>2, SamePiece
<1>6. DOMAIN DigitValue = Digits
  BY DigitValues
<1> QED
  BY <1>1, <1>5, <1>6 DEF DigitsOf

\* Nor atoi behind the first character it does not read.
LEMMA AtoiAgrees ==
    ASSUME NEW s \in Seq(Char), NEW t \in Seq(Char),
           NEW k \in Nat, k <= Len(s), k <= Len(t),
           \A i \in 1 .. k : s[i] = t[i],
           k = Len(s) \/ s[k + 1] \notin Numeral,
           k = Len(t) \/ t[k + 1] \notin Numeral
    PROVE  Atoi(s) = Atoi(t)
<1>0. Len(s) \in Nat /\ Len(t) \in Nat
  BY LenProperties
<1>1. PICK b \in 0 .. k : b = Leading(s, Blanks) /\ b = Leading(t, Blanks)
  <2>1. /\ k = Len(s) \/ s[k + 1] \notin Blanks
        /\ k = Len(t) \/ t[k + 1] \notin Blanks
    BY DEF Numeral
  <2> QED
    BY <2>1, LeadingAgrees
<1>2. \E m \in 0 .. k : m = Skipped(s) /\ m = Skipped(t)
  <2>1. CASE b = k
    <3>1. ~ (b < Len(s) /\ s[b + 1] = Plus) /\ ~ (b < Len(t) /\ t[b + 1] = Plus)
      BY <1>0, <2>1 DEF Numeral
    <3> QED
      BY <1>1, <3>1 DEF Skipped
  <2>2. CASE b # k
    <3>1. b + 1 \in 1 .. k /\ b < Len(s) /\ b < Len(t)
      BY <1>0, <2>2
    <3>2. s[b + 1] = t[b + 1]
      BY <3>1
    <3> QED
      BY <1>1, <3>1, <3>2 DEF Skipped
  <2> QED
    BY <2>1, <2>2
<1>3. PICK m \in 0 .. k : m = Skipped(s) /\ m = Skipped(t)
  BY <1>2
<1> DEFINE x == SubSeq(s, m + 1, Len(s))
           y == SubSeq(t, m + 1, Len(t))
<1>4. /\ x \in Seq(Char) /\ Len(x) = Len(s) - m
      /\ \A i \in 1 .. Len(s) - m : x[i] = s[m + i]
  <2>1. m + 1 \in Nat \ {0} /\ m + 1 <= Len(s) + 1 /\ Len(s) <= Len(s)
    BY <1>0
  <2>2. /\ x \in Seq(Char) /\ Len(x) = Len(s) - (m + 1) + 1
        /\ \A i \in 1 .. Len(s) - (m + 1) + 1 : x[i] = s[m + 1 + i - 1]
    BY <1>0, <2>1, PieceIs
  <2>3. \A i \in Nat : m + 1 + i - 1 = m + i
    OBVIOUS
  <2>4. Len(s) - (m + 1) + 1 = Len(s) - m /\ 1 .. Len(s) - m \subseteq Nat
    BY <1>0
  <2> HIDE DEF x
  <2> QED
    BY <2>2, <2>3, <2>4
<1>5. /\ y \in Seq(Char) /\ Len(y) = Len(t) - m
      /\ \A i \in 1 .. Len(t) - m : y[i] = t[m + i]
  <2>1. m + 1 \in Nat \ {0} /\ m + 1 <= Len(t) + 1 /\ Len(t) <= Len(t)
    BY <1>0
  <2>2. /\ y \in Seq(Char) /\ Len(y) = Len(t) - (m + 1) + 1
        /\ \A i \in 1 .. Len(t) - (m + 1) + 1 : y[i] = t[m + 1 + i - 1]
    BY <1>0, <2>1, PieceIs
  <2>3. \A i \in Nat : m + 1 + i - 1 = m + i
    OBVIOUS
  <2>4. Len(t) - (m + 1) + 1 = Len(t) - m /\ 1 .. Len(t) - m \subseteq Nat
    BY <1>0
  <2> HIDE DEF y
  <2> QED
    BY <2>2, <2>3, <2>4
<1>6. Atoi(s) = DigitsOf(x) /\ Atoi(t) = DigitsOf(y)
  BY <1>3 DEF Atoi
<1> HIDE DEF x, y
<1>7. PICK j \in Nat : j = k - m
  <2>1. k - m \in Nat
    OBVIOUS
  <2> QED
    BY <2>1
<1>8. j <= Len(x) /\ j <= Len(y) /\ \A i \in 1 .. j : x[i] = y[i]
  <2>1. j <= Len(x) /\ j <= Len(y)
    BY <1>0, <1>4, <1>5, <1>7
  <2>2. ASSUME NEW i \in 1 .. j PROVE x[i] = y[i]
    <3>1. i \in 1 .. Len(s) - m /\ i \in 1 .. Len(t) - m /\ m + i \in 1 .. k
      BY <1>0, <1>7
    <3> QED
      BY <1>4, <1>5, <3>1
  <2> QED
    BY <2>1, <2>2
<1>9. j = Len(x) \/ x[j + 1] \notin Digits
  <2>1. CASE k = Len(s)
    BY <1>0, <1>4, <1>7, <2>1
  <2>2. CASE k # Len(s)
    <3>1. j + 1 \in 1 .. Len(s) - m /\ m + (j + 1) = k + 1
      BY <1>0, <1>7, <2>2
    <3> QED
      BY <1>4, <2>2, <3>1 DEF Numeral
  <2> QED
    BY <2>1, <2>2
<1>10. j = Len(y) \/ y[j + 1] \notin Digits
  <2>1. CASE k = Len(t)
    BY <1>0, <1>5, <1>7, <2>1
  <2>2. CASE k # Len(t)
    <3>1. j + 1 \in 1 .. Len(t) - m /\ m + (j + 1) = k + 1
      BY <1>0, <1>7, <2>2
    <3> QED
      BY <1>5, <2>2, <3>1 DEF Numeral
  <2> QED
    BY <2>1, <2>2
<1> QED
  BY <1>4, <1>5, <1>6, <1>8, <1>9, <1>10, DigitsAgree

\* A sequence of digits is read to its end.
LEMMA AtoiOfDigits ==
    ASSUME NEW s \in Seq(Char), \A i \in 1 .. Len(s) : s[i] \in Digits
    PROVE  Atoi(s) = Number(s)
<1>1. Len(s) \in Nat
  BY LenProperties
<1>2. \A c \in Digits : c \notin Blanks /\ c # Plus
  BY DEF Digits, Blanks, Plus
<1>3. Len(s) # 0 => s[1] \in Digits
  BY <1>1
<1>4. Stop(s, Blanks, 0)
  BY <1>1, <1>2, <1>3 DEF Stop
<1>5. Skipped(s) = 0
  BY <1>1, <1>2, <1>3, <1>4, LeadingIs DEF Skipped
<1>6. SubSeq(s, 1, Len(s)) = s
  BY SubSeqFull
<1>7. Stop(s, Digits, Len(s))
  BY <1>1 DEF Stop
<1>8. Leading(s, Digits) = Len(s) /\ DOMAIN DigitValue = Digits
  BY <1>7, LeadingIs, DigitValues
<1>9. DigitsOf(s) = Number(s)
  BY <1>6, <1>8 DEF DigitsOf
<1>10. SubSeq(s, Skipped(s) + 1, Len(s)) = s
  BY <1>5, <1>6
<1> QED
  BY <1>9, <1>10 DEF Atoi

\* Where nothing is that atoi reads, it reads 0, which is no code.
LEMMA AtoiOfNone ==
    ASSUME NEW s \in Seq(Char), s = <<>> \/ s[1] \notin Numeral
    PROVE  Atoi(s) = 0
<1>1. Len(s) \in Nat /\ (s = <<>> => Len(s) = 0)
  BY LenProperties
<1>2. Number(<<>>) = 0
  <2>1. "0" \in Digits /\ <<>> \in Seq(Digits)
    BY DEF Digits
  <2> QED
    BY <2>1, NumberAppend
<1>3. PICK e \in Seq(Char) : e = <<>> /\ Len(e) = 0
  <2>1. <<>> \in Seq(Char) /\ Len(<<>>) = 0
    OBVIOUS
  <2> QED
    BY <2>1
<1>4. Atoi(e) = 0
  <2>1. \A i \in 1 .. Len(e) : e[i] \in Digits
    BY <1>3
  <2> QED
    BY <1>2, <1>3, <2>1, AtoiOfDigits
<1>5. Atoi(s) = Atoi(e)
  <2>1. PICK k \in Nat : k = 0
    OBVIOUS
  <2>2. /\ k <= Len(s) /\ k <= Len(e) /\ \A i \in 1 .. k : s[i] = e[i]
        /\ k = Len(s) \/ s[k + 1] \notin Numeral
        /\ k = Len(e)
    BY <1>1, <1>3, <2>1
  <2> QED
    BY <2>2, AtoiAgrees
<1> QED
  BY <1>4, <1>5

-----------------------------------------------------------------------------
(* Strings in buffers: what a handler reads depends on the string only.    *)

\* i is the first place from `from' on at which ch stands in s, or the end.
FirstAt(s, ch, from, i) ==
    /\ i \in from .. Len(s) + 1
    /\ i = Len(s) + 1 \/ s[i] = ch
    /\ \A j \in from .. i - 1 : s[j] # ch

\* IndexFrom finds a place, in the sequence or behind it.
LEMMA IndexExists ==
    ASSUME NEW s \in Seq(Char), NEW ch, NEW from \in 1 .. Len(s) + 1
    PROVE  FirstAt(s, ch, from, IndexFrom(s, ch, from))
<1> DEFINE n == Len(s)
           T == {i \in from .. n + 1 : i = n + 1 \/ s[i] = ch}
<1>1. n \in Nat /\ from \in Nat /\ from <= n + 1
  BY LenProperties
<1>2. n + 1 \in T /\ T \subseteq Nat
  BY <1>1
<1>3. PICK i \in T : \A j \in T : i <= j
  <2> HIDE DEF T
  <2>1. T # {}
    BY <1>2
  <2> QED
    BY <1>2, <2>1, Least
<1>4. ASSUME NEW j \in from .. i - 1 PROVE s[j] # ch
  <2>1. i \in from .. n + 1
    OBVIOUS
  <2>2. j \in from .. n + 1 /\ j < i
    BY <1>1, <2>1
  <2>3. j \notin T
    <3>1. j \in Nat /\ i \in Nat /\ ~ (i <= j)
      BY <1>1, <2>1, <2>2
    <3> QED
      BY <1>3, <3>1
  <2> QED
    BY <2>2, <2>3
<1>5. FirstAt(s, ch, from, i)
  BY <1>4 DEF FirstAt
<1> QED
  BY <1>5 DEF FirstAt, IndexFrom

\* Only one place is the first.
LEMMA FirstOnce ==
    ASSUME NEW s \in Seq(Char), NEW ch, NEW from \in 1 .. Len(s) + 1,
           NEW i, NEW j, FirstAt(s, ch, from, i), FirstAt(s, ch, from, j)
    PROVE  i = j
<1>1. Len(s) \in Nat /\ from \in Nat
  BY LenProperties
<1>2. /\ i \in Nat /\ j \in Nat /\ from <= i /\ from <= j
      /\ i <= Len(s) + 1 /\ j <= Len(s) + 1
  BY <1>1 DEF FirstAt
<1>3. ~ (i < j)
  <2> SUFFICES ASSUME i < j PROVE FALSE
    OBVIOUS
  <2>1. i \in from .. j - 1 /\ i # Len(s) + 1
    BY <1>1, <1>2
  <2> QED
    BY <2>1 DEF FirstAt
<1>4. ~ (j < i)
  <2> SUFFICES ASSUME j < i PROVE FALSE
    OBVIOUS
  <2>1. j \in from .. i - 1 /\ j # Len(s) + 1
    BY <1>1, <1>2
  <2> QED
    BY <2>1 DEF FirstAt
<1> QED
  BY <1>2, <1>3, <1>4

\* Whoever finds a first place has found IndexFrom's.
LEMMA IndexIs ==
    ASSUME NEW s \in Seq(Char), NEW ch, NEW from \in 1 .. Len(s) + 1,
           NEW i, FirstAt(s, ch, from, i)
    PROVE  IndexFrom(s, ch, from) = i
  BY IndexExists, FirstOnce

\* The buffer b holds the string P.
HoldsString(b, P) ==
    /\ b \in Seq(Char) /\ P \in Seq(Char)
    /\ \A j \in 1 .. Len(P) : P[j] # NUL
    /\ Len(P) <= Len(b)
    /\ \A j \in 1 .. Len(P) : b[j] = P[j]
    /\ Len(b) = Len(P) \/ b[Len(P) + 1] = NUL

\* A piece of a buffer inside the string it holds is the string's.
LEMMA StringPiece ==
    ASSUME NEW b, NEW P, HoldsString(b, P),
           NEW a \in Nat \ {0}, NEW e \in Nat, e < a \/ e <= Len(P)
    PROVE  SubSeq(b, a, e) = SubSeq(P, a, e)
<1>0. Len(b) \in Nat /\ Len(P) \in Nat /\ Len(P) <= Len(b)
  BY LenProperties DEF HoldsString
<1>1. CASE e < a
  BY <1>1, SubSeqEmpty
<1>2. CASE ~ (e < a)
  <2>1. e <= Len(P) /\ e <= Len(b) /\ a <= e + 1 /\ e - a = e - a
    BY <1>0, <1>2
  <2>2. \A i \in 1 .. e - a + 1 : b[a + i - 1] = P[a + i - 1]
    <3> TAKE i \in 1 .. e - a + 1
    <3>1. a + i - 1 \in 1 .. Len(P)
      BY <1>0, <2>1
    <3> QED
      BY <3>1 DEF HoldsString
  <2> QED
    BY <2>1, <2>2, SamePiece DEF HoldsString
<1> QED
  BY <1>1, <1>2

\* The string a buffer holds is what strlen counts.
LEMMA CStringIs ==
    ASSUME NEW b, NEW P, HoldsString(b, P)
    PROVE  CString(b) = P
<1>0. Len(b) \in Nat /\ Len(P) \in Nat /\ Len(P) <= Len(b)
  BY LenProperties DEF HoldsString
<1>1. FirstAt(b, NUL, 1, Len(P) + 1)
  <2>1. \A j \in 1 .. Len(P) + 1 - 1 : b[j] # NUL
    <3> TAKE j \in 1 .. Len(P) + 1 - 1
    <3>1. j \in 1 .. Len(P)
      BY <1>0
    <3> QED
      BY <3>1 DEF HoldsString
  <2> QED
    BY <1>0, <2>1 DEF HoldsString, FirstAt
<1>2. IndexFrom(b, NUL, 1) = Len(P) + 1
  <2>1. 1 \in 1 .. Len(b) + 1
    BY <1>0
  <2> QED
    BY <1>1, <2>1, IndexIs DEF HoldsString
<1>3. CString(b) = SubSeq(b, 1, Len(P))
  <2>1. Len(P) + 1 - 1 = Len(P)
    BY <1>0
  <2> QED
    BY <1>2, <2>1 DEF CString
<1>4. SubSeq(b, 1, Len(P)) = SubSeq(P, 1, Len(P))
  BY <1>0, StringPiece
<1>5. SubSeq(P, 1, Len(P)) = P
  BY SubSeqFull DEF HoldsString
<1> QED
  BY <1>3, <1>4, <1>5

\* The search of the handlers for a ':' does not get past the string, whatever
\* the buffer holds behind it.
LEMMA ColonIs ==
    ASSUME NEW b, NEW P, HoldsString(b, P), NEW from \in 1 .. Len(P) + 1
    PROVE  ColonOrEnd(b, from, Len(P)) = IndexFrom(P, Colon, from)
<1> DEFINE c == IndexFrom(b, Colon, from)
           p == IndexFrom(P, Colon, from)
<1>0. Len(b) \in Nat /\ Len(P) \in Nat /\ Len(P) <= Len(b) /\ from \in Nat /\ 1 <= from
  BY LenProperties DEF HoldsString
<1>1. FirstAt(P, Colon, from, p)
  BY IndexExists DEF HoldsString
<1>2. FirstAt(b, Colon, from, c)
  <2>1. from \in 1 .. Len(b) + 1
    BY <1>0
  <2> QED
    BY <2>1, IndexExists DEF HoldsString
<1> HIDE DEF c, p
<1>3. p \in Nat /\ c \in Nat /\ from <= p /\ p <= Len(P) + 1 /\ from <= c /\ c <= Len(b) + 1
  BY <1>0, <1>1, <1>2 DEF FirstAt
<1>4. \A j \in from .. p - 1 : b[j] # Colon
  <2> TAKE j \in from .. p - 1
  <2>1. j \in 1 .. Len(P)
    BY <1>0, <1>3
  <2> QED
    BY <1>1, <2>1 DEF FirstAt, HoldsString
<1>5. CASE p <= Len(P)
  <2>1. p \in 1 .. Len(P) /\ p # Len(P) + 1
    BY <1>0, <1>3, <1>5
  <2>2. b[p] = Colon
    BY <1>1, <2>1 DEF FirstAt, HoldsString
  <2>3. FirstAt(b, Colon, from, p)
    BY <1>0, <1>3, <1>4, <2>2, <1>5 DEF FirstAt
  <2>4. from \in 1 .. Len(b) + 1
    BY <1>0
  <2>5. c = p
    BY <1>2, <2>3, <2>4, FirstOnce DEF HoldsString
  <2> QED
    BY <1>0, <1>3, <1>5, <2>5 DEF ColonOrEnd, c, p
<1>6. CASE p = Len(P) + 1
  <2>1. ~ (c <= Len(P))
    <3> SUFFICES ASSUME c <= Len(P) PROVE FALSE
      OBVIOUS
    <3>1. c \in from .. p - 1 /\ c # Len(b) + 1
      BY <1>0, <1>3, <1>6
    <3> QED
      BY <1>2, <1>4, <3>1 DEF FirstAt
  <2>2. c > Len(P)
    BY <1>0, <1>3, <2>1
  <2> QED
    BY <1>6, <2>2 DEF ColonOrEnd, c, p
<1> QED
  BY <1>0, <1>3, <1>5, <1>6

\* Nor does TransferData's, which looks at the NUL too.
LEMMA DataColonIs ==
    ASSUME NEW b, NEW P, HoldsString(b, P), Len(b) >= Len(P) + 1
    PROVE  ColonOrEnd(b, 1, Len(P) + 1) =
              IF IndexFrom(P, Colon, 1) <= Len(P) THEN IndexFrom(P, Colon, 1) ELSE Len(P) + 2
<1> DEFINE c == IndexFrom(b, Colon, 1)
           p == IndexFrom(P, Colon, 1)
<1>0. Len(b) \in Nat /\ Len(P) \in Nat /\ Len(P) <= Len(b)
  BY LenProperties DEF HoldsString
<1>1. FirstAt(P, Colon, 1, p) /\ FirstAt(b, Colon, 1, c)
  <2>1. 1 \in 1 .. Len(b) + 1 /\ 1 \in 1 .. Len(P) + 1
    BY <1>0
  <2> QED
    BY <2>1, IndexExists DEF HoldsString
<1>2. ColonOrEnd(b, 1, Len(P)) = p
  <2>1. 1 \in 1 .. Len(P) + 1
    BY <1>0
  <2> QED
    BY <2>1, ColonIs
<1>3. p = IF c > Len(P) THEN Len(P) + 1 ELSE c
  BY <1>2 DEF ColonOrEnd
<1> HIDE DEF c, p
<1>4. c \in Nat /\ c # Len(P) + 1
  <2>1. b[Len(P) + 1] # Colon
    <3>1. b[Len(P) + 1] = NUL
      BY <1>0 DEF HoldsString
    <3> QED
      BY <3>1 DEF NUL, Colon
  <2>2. Len(P) + 1 # Len(b) + 1
    BY <1>0
  <2> QED
    BY <1>0, <1>1, <2>1, <2>2 DEF FirstAt
<1>5. ColonOrEnd(b, 1, Len(P) + 1) = IF c > Len(P) + 1 THEN Len(P) + 1 + 1 ELSE c
  BY DEF ColonOrEnd, c
<1>6. CASE c > Len(P)
  <2>1. p = Len(P) + 1 /\ c > Len(P) + 1
    BY <1>0, <1>3, <1>4, <1>6
  <2> QED
    BY <1>0, <1>5, <2>1 DEF p
<1>7. CASE ~ (c > Len(P))
  <2>1. p = c /\ p <= Len(P) /\ ~ (c > Len(P) + 1)
    BY <1>0, <1>3, <1>4, <1>7
  <2> QED
    BY <1>5, <2>1 DEF p
<1> QED
  BY <1>6, <1>7

\* The first ':' of a string, or its end.
FirstColon(P) == IndexFrom(P, Colon, 1)

LEMMA FirstColonIs ==
    ASSUME NEW P \in Seq(Char)
    PROVE  FirstAt(P, Colon, 1, FirstColon(P)) /\ FirstColon(P) \in 1 .. Len(P) + 1
<1>1. Len(P) \in Nat /\ 1 \in 1 .. Len(P) + 1
  BY LenProperties
<1> QED
  BY <1>1, IndexExists DEF FirstColon, FirstAt

\* ConnectUser reads the same two names in every buffer that holds P.
LEMMA PairIs ==
    ASSUME NEW b, NEW P, HoldsString(b, P)
    PROVE  ReadPair(b) = <<SubSeq(P, 1, FirstColon(P) - 1), SubSeq(P, FirstColon(P) + 1, Len(P))>>
<1> DEFINE i == FirstColon(P)
<1>1. Len(P) \in Nat /\ i \in 1 .. Len(P) + 1
  BY LenProperties, FirstColonIs DEF HoldsString
<1>2. CString(b) = P /\ ColonOrEnd(b, 1, Len(P)) = i
  <2>1. 1 \in 1 .. Len(P) + 1
    BY <1>1
  <2> QED
    BY <2>1, CStringIs, ColonIs DEF FirstColon
<1> HIDE DEF i
<1>3. ReadPair(b) = <<SubSeq(b, 1, i - 1), SubSeq(b, i + 1, Len(P))>>
  BY <1>2 DEF ReadPair
<1>4. SubSeq(b, 1, i - 1) = SubSeq(P, 1, i - 1)
  <2>1. 1 \in Nat \ {0} /\ i - 1 \in Nat /\ i - 1 <= Len(P)
    BY <1>1
  <2> QED
    BY <2>1, StringPiece
<1>5. SubSeq(b, i + 1, Len(P)) = SubSeq(P, i + 1, Len(P))
  <2>1. i + 1 \in Nat \ {0} /\ Len(P) <= Len(P)
    BY <1>1
  <2> QED
    BY <1>1, <2>1, StringPiece
<1> QED
  BY <1>3, <1>4, <1>5 DEF i

\* Where MakeUser ends the port.
PortEnd(P) ==
    IF FirstColon(P) + 1 > Len(P) THEN FirstColon(P) + 1
    ELSE IndexFrom(P, Colon, FirstColon(P) + 1)

\* MakeUser reads the same name and port in each of them.
LEMMA UserIs ==
    ASSUME NEW b, NEW P, HoldsString(b, P)
    PROVE  ReadUser(b) = <<SubSeq(P, 1, FirstColon(P) - 1),
                           SubSeq(P, FirstColon(P) + 1, PortEnd(P) - 1)>>
<1> DEFINE i == FirstColon(P)
           j == PortEnd(P)
<1>1. Len(P) \in Nat /\ i \in 1 .. Len(P) + 1
  BY LenProperties, FirstColonIs DEF HoldsString
<1>2. CString(b) = P /\ ColonOrEnd(b, 1, Len(P)) = i
  <2>1. 1 \in 1 .. Len(P) + 1
    BY <1>1
  <2> QED
    BY <2>1, CStringIs, ColonIs DEF FirstColon
<1>3. ~ (i + 1 > Len(P)) =>
        /\ ColonOrEnd(b, i + 1, Len(P)) = IndexFrom(P, Colon, i + 1)
        /\ FirstAt(P, Colon, i + 1, IndexFrom(P, Colon, i + 1))
  <2> SUFFICES ASSUME ~ (i + 1 > Len(P))
               PROVE  /\ ColonOrEnd(b, i + 1, Len(P)) = IndexFrom(P, Colon, i + 1)
                      /\ FirstAt(P, Colon, i + 1, IndexFrom(P, Colon, i + 1))
    OBVIOUS
  <2> HIDE DEF i
  <2>1. i + 1 \in 1 .. Len(P) + 1
    BY <1>1
  <2> QED
    BY <2>1, ColonIs, IndexExists DEF HoldsString
<1>4. j = IF i + 1 > Len(P) THEN i + 1 ELSE ColonOrEnd(b, i + 1, Len(P))
  BY <1>3 DEF PortEnd
<1>5. /\ j \in Nat /\ i + 1 <= j
      /\ j - 1 < i + 1 \/ j - 1 <= Len(P)
  <2>1. CASE i + 1 > Len(P)
    <3>1. j = i + 1
      BY <2>1 DEF PortEnd
    <3> HIDE DEF i, j
    <3> QED
      BY <1>1, <3>1
  <2>2. CASE ~ (i + 1 > Len(P))
    <3>1. j = IndexFrom(P, Colon, i + 1)
      BY <2>2 DEF PortEnd
    <3> HIDE DEF i, j
    <3>2. j \in i + 1 .. Len(P) + 1
      BY <1>3, <2>2, <3>1 DEF FirstAt
    <3> QED
      BY <1>1, <3>2
  <2> QED
    BY <2>1, <2>2
<1> HIDE DEF i, j
<1>6. ReadUser(b) = <<SubSeq(b, 1, i - 1), SubSeq(b, i + 1, j - 1)>>
  BY <1>2, <1>4 DEF ReadUser
<1>7. SubSeq(b, 1, i - 1) = SubSeq(P, 1, i - 1)
  <2>1. 1 \in Nat \ {0} /\ i - 1 \in Nat /\ i - 1 <= Len(P)
    BY <1>1
  <2> QED
    BY <2>1, StringPiece
<1>8. SubSeq(b, i + 1, j - 1) = SubSeq(P, i + 1, j - 1)
  <2>1. i + 1 \in Nat \ {0} /\ j - 1 \in Nat
    BY <1>1, <1>5
  <2> QED
    BY <1>5, <2>1, StringPiece
<1> QED
  BY <1>6, <1>7, <1>8 DEF i, j

\* TransferData reads the same name and data, when room is left behind P.
LEMMA DataIs ==
    ASSUME NEW b, NEW P, HoldsString(b, P), Len(b) >= Len(P) + 1
    PROVE  ReadData(b) =
              IF FirstColon(P) <= Len(P)
                THEN <<SubSeq(P, 1, FirstColon(P) - 1), SubSeq(P, FirstColon(P) + 1, Len(P))>>
                ELSE <<P, Missing>>
<1> DEFINE p == FirstColon(P)
           i == ColonOrEnd(b, 1, Len(P) + 1)
<1>1. Len(P) \in Nat /\ p \in 1 .. Len(P) + 1 /\ Len(b) \in Nat
  BY LenProperties, FirstColonIs DEF HoldsString
<1>2. i = IF p <= Len(P) THEN p ELSE Len(P) + 2
  BY DataColonIs DEF FirstColon
<1>3. PICK length, k :
        /\ length = Len(CString(b)) + 1 /\ k = ColonOrEnd(b, 1, length)
        /\ ReadData(b) = <<CString(SubSeq(b, 1, k - 1)), Sent(b, k + 1, length - k)>>
  <2>1. PICK length, k : length = Len(CString(b)) + 1 /\ k = ColonOrEnd(b, 1, length)
    OBVIOUS
  <2>2. ReadData(b) = <<CString(SubSeq(b, 1, k - 1)), Sent(b, k + 1, length - k)>>
    BY <2>1 DEF ReadData
  <2> QED
    BY <2>1, <2>2
<1>a. length = Len(P) + 1 /\ k = i
  <2>1. length = Len(P) + 1
    BY <1>3, CStringIs
  <2> QED
    BY <1>3, <2>1
<1> HIDE DEF p, i
<1>4. CASE p <= Len(P)
  <2>1. k = p /\ Sent(b, k + 1, length - k) = SubSeq(b, p + 1, Len(P))
    <3>1. k = p /\ ~ (length - k < 0) /\ (k + 1) + (length - k) - 2 = Len(P)
      BY <1>1, <1>2, <1>4, <1>a
    <3> QED
      BY <3>1 DEF Sent
  <2>2. /\ 1 \in Nat \ {0} /\ p - 1 \in Nat /\ p - 1 <= Len(P) /\ 1 <= p - 1 + 1
        /\ p + 1 \in Nat \ {0} /\ Len(P) <= Len(P)
    BY <1>1, <1>4
  <2>3. SubSeq(b, 1, p - 1) = SubSeq(P, 1, p - 1)
    BY <2>2, StringPiece
  <2>4. SubSeq(b, p + 1, Len(P)) = SubSeq(P, p + 1, Len(P))
    BY <1>1, <2>2, StringPiece
  <2> DEFINE q == SubSeq(P, 1, p - 1)
  <2>5. HoldsString(q, q)
    <3>1. q \in Seq(Char) /\ Len(q) = p - 1 - 1 + 1 /\ \A m \in 1 .. p - 1 - 1 + 1 : q[m] = P[1 + m - 1]
      BY <2>2, PieceIs DEF HoldsString
    <3> HIDE DEF q
    <3>2. ASSUME NEW m \in 1 .. Len(q) PROVE q[m] # NUL
      <4>1. m \in 1 .. p - 1 - 1 + 1 /\ 1 + m - 1 = m /\ m \in 1 .. Len(P)
        BY <1>1, <1>4, <3>1
      <4>2. q[m] = P[m]
        BY <3>1, <4>1
      <4> QED
        BY <4>1, <4>2 DEF HoldsString
    <3>3. Len(q) \in Nat
      BY <3>1, LenProperties
    <3> QED
      BY <3>1, <3>2, <3>3 DEF HoldsString
  <2>6. CString(q) = q
    BY <2>5, CStringIs
  <2> HIDE DEF q
  <2>7. ReadData(b) = <<q, SubSeq(P, p + 1, Len(P))>>
    BY <1>3, <2>1, <2>3, <2>4, <2>6 DEF q
  <2> QED
    BY <1>4, <2>7 DEF p, q
<1>5. CASE ~ (p <= Len(P))
  <2>1. k - 1 = Len(P) + 1 /\ Sent(b, k + 1, length - k) = Missing
    <3>1. k - 1 = Len(P) + 1 /\ length - k < 0
      BY <1>1, <1>2, <1>5, <1>a
    <3> QED
      BY <3>1 DEF Sent
  <2> DEFINE q == SubSeq(b, 1, Len(P) + 1)
  <2>2. HoldsString(q, P)
    <3>1. 1 \in Nat \ {0} /\ Len(P) + 1 \in Nat /\ 1 <= Len(P) + 1 + 1 /\ Len(P) + 1 <= Len(b)
      BY <1>1
    <3>2. q \in Seq(Char) /\ Len(q) = Len(P) + 1 - 1 + 1
          /\ \A m \in 1 .. Len(P) + 1 - 1 + 1 : q[m] = b[1 + m - 1]
      BY <3>1, PieceIs DEF HoldsString
    <3> HIDE DEF q
    <3>3. ASSUME NEW m \in 1 .. Len(P) + 1 PROVE q[m] = b[m]
      <4>1. m \in 1 .. Len(P) + 1 - 1 + 1 /\ 1 + m - 1 = m
        BY <1>1
      <4> QED
        BY <3>2, <4>1
    <3>4. Len(q) = Len(P) + 1 /\ Len(P) + 1 \in 1 .. Len(P) + 1 /\ Len(P) + 1 # Len(P)
      BY <1>1, <3>2
    <3>5. \A m \in 1 .. Len(P) : q[m] = P[m]
      <4> TAKE m \in 1 .. Len(P)
      <4>1. m \in 1 .. Len(P) + 1
        BY <1>1
      <4> QED
        BY <3>3, <4>1 DEF HoldsString
    <3>6. q[Len(P) + 1] = NUL
      <4>1. Len(b) # Len(P)
        BY <1>1
      <4> QED
        BY <3>3, <3>4, <4>1 DEF HoldsString
    <3>7. Len(P) <= Len(q)
      BY <1>1, <3>4
    <3> QED
      BY <3>2, <3>5, <3>6, <3>7 DEF HoldsString
  <2>3. CString(q) = P
    BY <2>2, CStringIs
  <2> HIDE DEF q
  <2>4. ReadData(b) = <<P, Missing>>
    BY <1>3, <2>1, <2>3 DEF q
  <2> QED
    BY <1>5, <2>4 DEF p
<1> QED
  BY <1>4, <1>5

\* What memcpy leaves in a buffer.
LEMMA OverwriteIs ==
    ASSUME NEW b \in Seq(Char), NEW s \in Seq(Char)
    PROVE  /\ Overwrite(b, s) \in Seq(Char) /\ Len(Overwrite(b, s)) = Len(b)
           /\ \A j \in 1 .. Len(b) :
                 Overwrite(b, s)[j] = IF j <= Len(s) THEN s[j] ELSE b[j]
<1>1. Len(b) \in Nat /\ Len(s) \in Nat /\ DOMAIN b = 1 .. Len(b)
  BY LenProperties
<1> DEFINE c == Overwrite(b, s)
<1>2. c = [j \in 1 .. Len(b) |-> IF j <= Len(s) THEN s[j] ELSE b[j]]
  BY <1>1 DEF Overwrite
<1>3. ASSUME NEW j \in 1 .. Len(b) PROVE (IF j <= Len(s) THEN s[j] ELSE b[j]) \in Char
  <2>1. j <= Len(s) => s[j] \in Char
    <3> SUFFICES ASSUME j <= Len(s) PROVE s[j] \in Char
      OBVIOUS
    <3>1. j \in 1 .. Len(s)
      BY <1>1
    <3> QED
      BY <3>1, ElementOfSeq
  <2>2. b[j] \in Char
    BY ElementOfSeq
  <2> QED
    BY <2>1, <2>2
<1>4. c \in [1 .. Len(b) -> Char] /\ \A j \in 1 .. Len(b) : c[j] = IF j <= Len(s) THEN s[j] ELSE b[j]
  BY <1>2, <1>3
<1> HIDE DEF c
<1>5. c \in Seq(Char)
  BY <1>1, <1>4, SeqDef
<1>6. Len(c) = Len(b)
  <2>1. Len(c) \in Nat /\ DOMAIN c = 1 .. Len(c)
    BY <1>5, LenProperties
  <2>2. 1 .. Len(c) = 1 .. Len(b)
    BY <1>4, <2>1
  <2>3. ~ (Len(c) < Len(b))
    <3> SUFFICES ASSUME Len(c) < Len(b) PROVE FALSE
      OBVIOUS
    <3>1. Len(b) \in 1 .. Len(b) /\ Len(b) \notin 1 .. Len(c)
      BY <1>1, <2>1
    <3> QED
      BY <2>2, <3>1
  <2>4. ~ (Len(b) < Len(c))
    <3> SUFFICES ASSUME Len(b) < Len(c) PROVE FALSE
      OBVIOUS
    <3>1. Len(c) \in 1 .. Len(c) /\ Len(c) \notin 1 .. Len(b)
      BY <1>1, <2>1
    <3> QED
      BY <2>2, <3>1
  <2>5. Len(c) \in Nat /\ Len(b) \in Nat
    BY <1>1, <2>1
  <2> QED
    BY <2>3, <2>4, <2>5
<1> QED
  BY <1>4, <1>5, <1>6 DEF c

\* A string in a buffer with room behind it, and one character more.
LEMMA OneMore ==
    ASSUME NEW P \in Seq(Char), NEW ch \in Char
    PROVE  /\ P \o <<ch>> \in Seq(Char) /\ Len(P \o <<ch>>) = Len(P) + 1
           /\ \A j \in 1 .. Len(P) : (P \o <<ch>>)[j] = P[j]
           /\ (P \o <<ch>>)[Len(P) + 1] = ch
<1> DEFINE t == <<ch>>
<1>1. t \in Seq(Char) /\ Len(t) = 1 /\ t[1] = ch
  OBVIOUS
<1>2. Len(P) \in Nat
  BY LenProperties
<1> HIDE DEF t
<1>3. /\ P \o t \in Seq(Char) /\ Len(P \o t) = Len(P) + Len(t)
      /\ \A j \in 1 .. Len(P) + Len(t) : (P \o t)[j] = IF j <= Len(P) THEN P[j] ELSE t[j - Len(P)]
  BY <1>1, ConcatProperties
<1>4. \A j \in 1 .. Len(P) : (P \o t)[j] = P[j]
  <2> TAKE j \in 1 .. Len(P)
  <2>1. j \in 1 .. Len(P) + Len(t) /\ j <= Len(P)
    BY <1>1, <1>2
  <2> QED
    BY <1>3, <2>1
<1>5. (P \o t)[Len(P) + 1] = ch
  <2>1. PICK k \in Nat : k = Len(P) + 1
    BY <1>2
  <2>2. k \in 1 .. Len(P) + Len(t) /\ ~ (k <= Len(P)) /\ k - Len(P) = 1
    BY <1>1, <1>2, <2>1
  <2>3. (P \o t)[k] = t[1]
    BY <1>3, <2>2
  <2> QED
    BY <1>1, <2>1, <2>3
<1> QED
  BY <1>1, <1>3, <1>4, <1>5 DEF t

\* The separators are characters, and atoi reads none of them.
LEMMA Characters ==
    /\ NUL \in Char /\ Bar \in Char /\ Colon \in Char /\ Digits \subseteq Char
    /\ NUL # Bar /\ NUL # Colon /\ Bar # Colon
    /\ NUL \notin Numeral /\ Bar \notin Numeral /\ Colon \notin Numeral
    /\ "a" \in Char /\ "a" \notin Numeral /\ "a" \notin {NUL, Bar, Colon} /\ "x" \in Char
<1>1. /\ NUL \in Char /\ Bar \in Char /\ Colon \in Char /\ Digits \subseteq Char
      /\ "a" \in Char /\ "x" \in Char
  BY FramingAssumption, DigitValues
<1>2. /\ NUL # Bar /\ NUL # Colon /\ Bar # Colon /\ "a" \notin {NUL, Bar, Colon}
  BY DEF NUL, Bar, Colon
<1>3. /\ NUL \notin Numeral /\ Bar \notin Numeral /\ Colon \notin Numeral
      /\ "a" \notin Numeral
  BY DEF NUL, Bar, Colon, Plus, Blanks, Digits, Numeral
<1> QED
  BY <1>1, <1>2, <1>3

\* DisConnectUser writes behind the string before it reads two names.
LEMMA LeaverIs ==
    ASSUME NEW b, NEW P, HoldsString(b, P), Len(b) >= Len(P) + 1
    PROVE  ReadLeaver(b, <<>>) = ReadPair(P \o <<Colon>>)
<1> DEFINE Q == P \o <<Colon>>
           s == CString(b) \o <<Colon>> \o <<>> \o <<NUL>>
           c == Overwrite(b, s)
<1>1. /\ Len(P) \in Nat /\ Len(b) \in Nat /\ b \in Seq(Char) /\ P \in Seq(Char)
      /\ \A j \in 1 .. Len(P) : P[j] # NUL
  BY LenProperties DEF HoldsString
<1>2. /\ Q \in Seq(Char) /\ Len(Q) = Len(P) + 1 /\ \A j \in 1 .. Len(P) : Q[j] = P[j]
      /\ Q[Len(P) + 1] = Colon
  BY <1>1, OneMore, Characters
<1>3. s = Q \o <<NUL>>
  <2>1. CString(b) = P
    BY CStringIs
  <2>2. Q \o <<>> = Q
    BY <1>2, ConcatEmptySeq
  <2> QED
    BY <2>1, <2>2
<1> HIDE DEF Q
<1>4. /\ s \in Seq(Char) /\ Len(s) = Len(Q) + 1 /\ \A j \in 1 .. Len(Q) : s[j] = Q[j]
      /\ s[Len(Q) + 1] = NUL
  <2> HIDE DEF s
  <2>1. NUL \in Char
    BY Characters
  <2> QED
    BY <1>2, <1>3, <2>1, OneMore
<1> HIDE DEF s
<1>5. /\ c \in Seq(Char) /\ Len(c) = Len(b)
      /\ \A j \in 1 .. Len(b) : c[j] = IF j <= Len(s) THEN s[j] ELSE b[j]
  BY <1>1, <1>4, OverwriteIs
<1> HIDE DEF c
<1>6. \A j \in 1 .. Len(Q) : Q[j] # NUL
  <2> TAKE j \in 1 .. Len(Q)
  <2>1. CASE j = Len(P) + 1
    BY <1>2, <2>1, Characters
  <2>2. CASE j # Len(P) + 1
    <3>1. j \in 1 .. Len(P)
      BY <1>1, <1>2, <2>2
    <3> QED
      BY <1>1, <1>2, <3>1
  <2> QED
    BY <2>1, <2>2
<1>7. HoldsString(c, Q)
  <2>1. Len(Q) \in Nat /\ Len(Q) <= Len(c)
    BY <1>1, <1>2, <1>5
  <2>2. ASSUME NEW j \in 1 .. Len(Q) PROVE c[j] = Q[j]
    <3>1. j \in 1 .. Len(b) /\ j <= Len(s)
      BY <1>1, <1>4, <1>5, <2>1
    <3> QED
      BY <1>4, <1>5, <3>1
  <2>3. ASSUME Len(c) # Len(Q) PROVE c[Len(Q) + 1] = NUL
    <3>1. PICK k \in Nat : k = Len(Q) + 1
      BY <2>1
    <3>2. k \in 1 .. Len(b) /\ k <= Len(s)
      BY <1>1, <1>4, <1>5, <2>1, <2>3, <3>1
    <3>3. c[k] = s[k]
      BY <1>5, <3>2
    <3> QED
      BY <1>4, <3>1, <3>3
  <2> QED
    BY <1>2, <1>5, <1>6, <2>1, <2>2, <2>3 DEF HoldsString
<1>8. HoldsString(Q, Q)
  <2>1. Len(Q) \in Nat
    BY <1>1, <1>2
  <2> QED
    BY <1>2, <1>6, <2>1 DEF HoldsString
<1>9. ReadLeaver(b, <<>>) = ReadPair(c)
  BY DEF ReadLeaver, c, s
<1>10. ReadPair(c) = ReadPair(Q)
  BY <1>7, <1>8, PairIs
<1> QED
  BY <1>9, <1>10 DEF Q

\* The fields of a handler are those of the string its buffer holds.
LEMMA FieldsOfString ==
    ASSUME NEW b, NEW P, HoldsString(b, P), Len(b) >= Len(P) + 1, NEW op \in DOMAIN Codes
    PROVE  Fields(op, b) = Fields(op, P \o <<NUL>>)
<1> DEFINE c == P \o <<NUL>>
<1>1. Len(P) \in Nat /\ P \in Seq(Char) /\ \A j \in 1 .. Len(P) : P[j] # NUL
  BY LenProperties DEF HoldsString
<1>2. /\ c \in Seq(Char) /\ Len(c) = Len(P) + 1 /\ \A j \in 1 .. Len(P) : c[j] = P[j]
      /\ c[Len(P) + 1] = NUL
  BY <1>1, OneMore, Characters
<1> HIDE DEF c
<1>3. HoldsString(c, P) /\ Len(c) >= Len(P) + 1
  BY <1>1, <1>2 DEF HoldsString
<1>4. /\ ReadUser(b) = ReadUser(c) /\ ReadPair(b) = ReadPair(c)
      /\ ReadLeaver(b, <<>>) = ReadLeaver(c, <<>>)
  BY <1>3, UserIs, PairIs, LeaverIs
<1>5. ReadData(b) = ReadData(c)
  BY <1>3, DataIs
<1>6. op \in {"login", "list", "invite", "data", "exit"}
  BY DEF Codes
<1> QED
  BY <1>4, <1>5, <1>6 DEF Fields, c

-----------------------------------------------------------------------------
(* The bytes of a request.                                                 *)

CodeDigit == [login |-> "1", list |-> "3", invite |-> "4", data |-> "5", exit |-> "6"]

\* What itoa writes of a request's code.
LEMMA CodesAre ==
    ASSUME NEW op \in DOMAIN Codes
    PROVE  /\ op \in {"login", "list", "invite", "data", "exit"}
           /\ CodeDigit[op] \in Digits
           /\ Codes[op] = 1000 + DigitValue[CodeDigit[op]]
           /\ Itoa(Codes[op]) = <<"1", "0", "0", CodeDigit[op]>>
           /\ Codes[op] \in RequestCodes
<1>1. op \in {"login", "list", "invite", "data", "exit"}
  BY DEF Codes
<1>2. CodeDigit[op] \in Digits /\ Codes[op] = 1000 + DigitValue[CodeDigit[op]]
  BY <1>1, DigitValues DEF Codes, CodeDigit, Digits
<1> DEFINE v == DigitValue[CodeDigit[op]]
<1>3. v \in 0 .. 9
  BY <1>1, DigitValues DEF CodeDigit
<1>4. /\ (1000 + v) \div 1000 = 1 /\ ((1000 + v) \div 100) % 10 = 0
      /\ ((1000 + v) \div 10) % 10 = 0 /\ (1000 + v) % 10 = v
  <2> HIDE DEF v
  <2>1. \/ v = 0 \/ v = 1 \/ v = 2 \/ v = 3 \/ v = 4
        \/ v = 5 \/ v = 6 \/ v = 7 \/ v = 8 \/ v = 9
    BY <1>3
  <2> QED
    BY <2>1
<1> DEFINE digit(w) == CHOOSE d \in DOMAIN DigitValue : DigitValue[d] = w
<1>5. ASSUME NEW d \in Digits PROVE digit(DigitValue[d]) = d
  BY DigitValues
<1>6. "0" \in Digits /\ "1" \in Digits /\ DigitValue["0"] = 0 /\ DigitValue["1"] = 1
  BY DigitValues DEF Digits
<1>7. digit(0) = "0" /\ digit(1) = "1" /\ digit(v) = CodeDigit[op]
  <2>1. digit(DigitValue["0"]) = "0" /\ digit(DigitValue["1"]) = "1" /\ digit(v) = CodeDigit[op]
    BY <1>2, <1>5, <1>6
  <2> QED
    BY <1>6, <2>1
<1>8. Itoa(1000 + v) = <<"1", "0", "0", CodeDigit[op]>>
  <2>1. Itoa(1000 + v) = <<digit((1000 + v) \div 1000), digit(((1000 + v) \div 100) % 10),
                           digit(((1000 + v) \div 10) % 10), digit((1000 + v) % 10)>>
    BY DEF Itoa
  <2> HIDE DEF digit, v
  <2> QED
    BY <1>4, <1>7, <2>1
<1> QED
  BY <1>1, <1>2, <1>8 DEF RequestCodes

\* What stands behind the ':' of a body.
Rest(r) == IF r.op = "login" THEN Port ELSE r.arg

Names == {Self, Port} \cup Guests

\* The names and texts of a request hold no NUL.
LEMMA RequestKinds ==
    ASSUME NEW r \in Requests
    PROVE  /\ r.op \in DOMAIN Codes
           /\ r.op \in {"invite"} => r.arg \in Guests
           /\ r.op \in {"data"} => r.arg \in Texts
           /\ Self \in Seq(Char) /\ Rest(r) \in Seq(Char)
           /\ \A j \in 1 .. Len(Self) : Self[j] # NUL
           /\ \A j \in 1 .. Len(Rest(r)) : Rest(r)[j] # NUL
<1>1. Self \in Names /\ Port \in Names /\ Guests \subseteq Names
  BY DEF Names
<1>2. ASSUME NEW s \in Names
      PROVE  s \in Seq(Char) /\ \A j \in 1 .. Len(s) : s[j] \notin {NUL, Bar, Colon}
  <2>1. s \in Seq(Char) /\ IsPlain(s)
    BY FramingAssumption DEF Names
  <2> QED
    BY <2>1, LenProperties DEF IsPlain
<1>3. ASSUME NEW t \in Texts PROVE t \in Seq(Char) /\ \A j \in 1 .. Len(t) : t[j] # NUL
  <2>1. t \in Seq(Char) /\ \A j \in DOMAIN t : t[j] # NUL
    BY FramingAssumption
  <2> QED
    BY <2>1, LenProperties
<1>4. /\ r.op \in {"login", "list", "exit", "invite", "data"}
      /\ r.op \in {"login", "list", "exit"} => r.arg = <<>>
      /\ r.op = "invite" => r.arg \in Guests
      /\ r.op = "data" => r.arg \in Texts
  BY DEF Requests
<1>5. <<>> \in Seq(Char) /\ Len(<<>>) = 0
  OBVIOUS
<1>6. /\ Self \in Seq(Char) /\ \A j \in 1 .. Len(Self) : Self[j] # NUL
      /\ Port \in Seq(Char) /\ \A j \in 1 .. Len(Port) : Port[j] # NUL
  BY <1>1, <1>2
<1>7. r.arg \in Seq(Char) /\ \A j \in 1 .. Len(r.arg) : r.arg[j] # NUL
  <2>1. CASE r.op = "invite"
    BY <1>1, <1>2, <1>4, <2>1
  <2>2. CASE r.op = "data"
    BY <1>3, <1>4, <2>2
  <2>3. CASE r.arg = <<>>
    BY <1>5, <2>3
  <2> QED
    BY <1>4, <2>1, <2>2, <2>3
<1>8. Rest(r) \in Seq(Char) /\ \A j \in 1 .. Len(Rest(r)) : Rest(r)[j] # NUL
  BY <1>6, <1>7 DEF Rest
<1>9. r.op \in DOMAIN Codes
  BY <1>4 DEF Codes
<1> QED
  BY <1>4, <1>6, <1>8, <1>9

\* What follows the tag of a request, character by character.
LEMMA BodyIs ==
    ASSUME NEW r \in Requests
    PROVE  /\ Body(r) \in Seq(Char)
           /\ \A j \in 1 .. Len(Body(r)) : Body(r)[j] # NUL
           /\ r.op = "list" => Body(r) = <<"a">>
           /\ r.op = "exit" => Body(r) = Self
           /\ r.op \in {"login", "invite", "data"} =>
                /\ Body(r) = Self \o <<Colon>> \o Rest(r)
                /\ Len(Body(r)) = Len(Self) + 1 + Len(Rest(r))
                /\ \A j \in 1 .. Len(Self) : Body(r)[j] = Self[j]
                /\ Body(r)[Len(Self) + 1] = Colon
                /\ \A j \in 1 .. Len(Rest(r)) : Body(r)[Len(Self) + 1 + j] = Rest(r)[j]
<1>1. /\ Self \in Seq(Char) /\ Rest(r) \in Seq(Char)
      /\ \A j \in 1 .. Len(Self) : Self[j] # NUL
      /\ \A j \in 1 .. Len(Rest(r)) : Rest(r)[j] # NUL
      /\ r.op \in DOMAIN Codes
  BY RequestKinds
<1>2. r.op \in {"login", "list", "invite", "data", "exit"}
  BY <1>1, CodesAre
<1>3. Len(Self) \in Nat /\ Len(Rest(r)) \in Nat
  BY <1>1, LenProperties
<1>4. CASE r.op = "list"
  <2>1. Body(r) = <<"a">>
    BY <1>4 DEF Body
  <2>2. <<"a">> \in Seq(Char) /\ Len(<<"a">>) = 1 /\ <<"a">>[1] = "a"
    BY Characters
  <2>3. \A j \in 1 .. Len(<<"a">>) : <<"a">>[j] # NUL
    <3> TAKE j \in 1 .. Len(<<"a">>)
    <3>1. j = 1
      BY <2>2
    <3> QED
      BY <2>2, <3>1, Characters
  <2> QED
    BY <1>4, <2>1, <2>2, <2>3
<1>5. CASE r.op = "exit"
  <2>1. Body(r) = Self
    BY <1>5 DEF Body
  <2> QED
    BY <1>1, <1>5, <2>1
<1>6. CASE r.op \in {"login", "invite", "data"}
  <2> DEFINE h == Self \o <<Colon>>
             t == Rest(r)
             b == h \o t
  <2>1. Body(r) = b
    BY <1>6 DEF Body, Rest
  <2>2. /\ h \in Seq(Char) /\ Len(h) = Len(Self) + 1 /\ \A j \in 1 .. Len(Self) : h[j] = Self[j]
        /\ h[Len(Self) + 1] = Colon
    <3>1. Colon \in Char
      BY Characters
    <3> QED
      BY <1>1, <3>1, OneMore
  <2> HIDE DEF h
  <2>3. /\ b \in Seq(Char) /\ Len(b) = Len(h) + Len(t)
        /\ \A j \in 1 .. Len(h) + Len(t) : b[j] = IF j <= Len(h) THEN h[j] ELSE t[j - Len(h)]
    BY <1>1, <2>2, ConcatProperties
  <2> HIDE DEF b, t
  <2>4. Len(t) \in Nat /\ Len(h) \in Nat
    BY <1>3, <2>2 DEF t
  <2>5. ASSUME NEW j \in 1 .. Len(Self) PROVE b[j] = Self[j]
    <3>1. j \in 1 .. Len(h) + Len(t) /\ j <= Len(h)
      BY <1>3, <2>2, <2>4
    <3> QED
      BY <2>2, <2>3, <3>1
  <2>6. b[Len(Self) + 1] = Colon
    <3>1. Len(h) \in 1 .. Len(h) + Len(t) /\ Len(h) <= Len(h)
      BY <1>3, <2>2, <2>4
    <3>2. b[Len(h)] = h[Len(h)]
      BY <2>3, <3>1
    <3> QED
      BY <2>2, <3>2
  <2>7. ASSUME NEW j \in 1 .. Len(t) PROVE b[Len(Self) + 1 + j] = t[j]
    <3>1. PICK k \in Nat : k = Len(Self) + 1 + j
      BY <1>3, <2>4
    <3>2. k \in 1 .. Len(h) + Len(t) /\ ~ (k <= Len(h)) /\ k - Len(h) = j
      BY <1>3, <2>2, <2>4, <3>1
    <3>3. b[k] = t[j]
      BY <2>3, <3>2
    <3> QED
      BY <3>1, <3>3
  <2>8. ASSUME NEW j \in 1 .. Len(b) PROVE b[j] # NUL
    <3>1. CASE j \in 1 .. Len(Self)
      BY <1>1, <2>5, <3>1
    <3>2. CASE j = Len(Self) + 1
      BY <2>6, <3>2, Characters
    <3>3. CASE j > Len(Self) + 1
      <4>1. PICK k \in 1 .. Len(t) : j = Len(Self) + 1 + k
        <5>1. j - (Len(Self) + 1) \in 1 .. Len(t) /\ j = Len(Self) + 1 + (j - (Len(Self) + 1))
          BY <1>3, <2>2, <2>3, <2>4, <3>3
        <5> QED
          BY <5>1
      <4>2. b[j] = t[k]
        BY <2>7, <4>1
      <4> QED
        BY <1>1, <4>2 DEF t
    <3> QED
      BY <1>3, <2>2, <2>3, <2>4, <3>1, <3>2, <3>3
  <2>9. Len(b) = Len(Self) + 1 + Len(t)
    BY <1>3, <2>2, <2>3, <2>4
  <2>10. b = Self \o <<Colon>> \o t
    BY DEF b, h
  <2> QED
    BY <1>6, <2>1, <2>3, <2>5, <2>6, <2>7, <2>8, <2>9, <2>10 DEF t
<1> QED
  BY <1>2, <1>4, <1>5, <1>6

\* The characters of sequences that are joined.
LEMMA Joined ==
    ASSUME NEW P \in Seq(Char), NEW Q \in Seq(Char)
    PROVE  /\ P \o Q \in Seq(Char) /\ Len(P \o Q) = Len(P) + Len(Q)
           /\ Len(P) \in Nat /\ Len(Q) \in Nat
           /\ \A j \in 1 .. Len(P) : (P \o Q)[j] = P[j]
           /\ \A j \in 1 .. Len(Q) : (P \o Q)[Len(P) + j] = Q[j]
<1>1. /\ P \o Q \in Seq(Char) /\ Len(P \o Q) = Len(P) + Len(Q)
      /\ \A i \in 1 .. Len(P) + Len(Q) : (P \o Q)[i] = IF i <= Len(P) THEN P[i] ELSE Q[i - Len(P)]
  BY ConcatProperties
<1>2. Len(P) \in Nat /\ Len(Q) \in Nat
  BY LenProperties
<1> DEFINE c == P \o Q
<1> HIDE DEF c
<1>3. ASSUME NEW j \in 1 .. Len(Q) PROVE c[Len(P) + j] = Q[j]
  <2>1. PICK m \in Nat : m = Len(P) + j
    BY <1>2
  <2>2. m \in 1 .. Len(P) + Len(Q) /\ ~ (m <= Len(P)) /\ m - Len(P) = j
    BY <1>2, <2>1
  <2>3. c[m] = Q[j]
    BY <1>1, <2>2 DEF c
  <2> QED
    BY <2>1, <2>3
<1>4. ASSUME NEW j \in 1 .. Len(P) PROVE c[j] = P[j]
  BY <1>1, <1>2 DEF c
<1> QED
  BY <1>1, <1>2, <1>3, <1>4 DEF c

\* The bytes of a request: four digits, three bars, the body and a NUL.
LEMMA ComposeIs ==
    ASSUME NEW r \in Requests
    PROVE  /\ Compose(r) \in Seq(Char) /\ Len(Compose(r)) = Len(Body(r)) + 8
           /\ Len(Body(r)) \in Nat
           /\ Compose(r)[1] = "1" /\ Compose(r)[2] = "0" /\ Compose(r)[3] = "0"
           /\ Compose(r)[4] = CodeDigit[r.op]
           /\ Compose(r)[5] = Bar /\ Compose(r)[6] = Bar /\ Compose(r)[7] = Bar
           /\ \A j \in 1 .. Len(Body(r)) : Compose(r)[7 + j] = Body(r)[j]
           /\ Compose(r)[Len(Body(r)) + 8] = NUL
<1> DEFINE d == CodeDigit[r.op]
           g == <<"1", "0", "0", d>>
           h == g \o <<Bar, Bar, Bar>>
           B == Body(r)
           k == h \o B
           c == k \o <<NUL>>
<1>1. r.op \in DOMAIN Codes /\ B \in Seq(Char)
  BY RequestKinds, BodyIs
<1>2. d \in Digits /\ Itoa(Codes[r.op]) = g
  BY <1>1, CodesAre
<1>3. Compose(r) = c
  BY <1>2 DEF Compose
<1>4. Len(B) \in Nat
  BY <1>1, LenProperties
<1>5. /\ h \in Seq(Char) /\ Len(h) = 7
      /\ h[1] = "1" /\ h[2] = "0" /\ h[3] = "0" /\ h[4] = d
      /\ h[5] = Bar /\ h[6] = Bar /\ h[7] = Bar
  <2>1. "1" \in Digits /\ "0" \in Digits
    BY DEF Digits
  <2>2. d \in Char /\ "1" \in Char /\ "0" \in Char /\ Bar \in Char
    BY <1>2, <2>1, Characters
  <2> DEFINE t == <<Bar, Bar, Bar>>
  <2> HIDE DEF d
  <2>3. g \in Seq(Char) /\ Len(g) = 4 /\ g[1] = "1" /\ g[2] = "0" /\ g[3] = "0" /\ g[4] = d
    BY <2>2
  <2>4. t \in Seq(Char) /\ Len(t) = 3 /\ t[1] = Bar /\ t[2] = Bar /\ t[3] = Bar
    BY <2>2
  <2> HIDE DEF g, t
  <2>5. /\ g \o t \in Seq(Char) /\ Len(g \o t) = Len(g) + Len(t)
        /\ \A j \in 1 .. Len(g) : (g \o t)[j] = g[j]
        /\ \A j \in 1 .. Len(t) : (g \o t)[Len(g) + j] = t[j]
    BY <2>3, <2>4, Joined
  <2>6. /\ (g \o t)[1] = g[1] /\ (g \o t)[2] = g[2] /\ (g \o t)[3] = g[3] /\ (g \o t)[4] = g[4]
    BY <2>3, <2>5
  <2>7. (g \o t)[5] = t[1] /\ (g \o t)[6] = t[2] /\ (g \o t)[7] = t[3]
    <3>1. 1 \in 1 .. Len(t) /\ 2 \in 1 .. Len(t) /\ 3 \in 1 .. Len(t)
      BY <2>4
    <3>2. Len(g) + 1 = 5 /\ Len(g) + 2 = 6 /\ Len(g) + 3 = 7
      BY <2>3
    <3> QED
      BY <2>5, <3>1, <3>2
  <2>8. h = g \o t
    BY DEF h, t
  <2> QED
    BY <2>3, <2>4, <2>5, <2>6, <2>7, <2>8
<1> HIDE DEF h, B, d
<1>6. /\ k \in Seq(Char) /\ Len(k) = 7 + Len(B)
      /\ \A j \in 1 .. 7 : k[j] = h[j]
      /\ \A j \in 1 .. Len(B) : k[7 + j] = B[j]
  <2>1. /\ k \in Seq(Char) /\ Len(k) = Len(h) + Len(B)
        /\ \A j \in 1 .. Len(h) : k[j] = h[j]
        /\ \A j \in 1 .. Len(B) : k[Len(h) + j] = B[j]
    BY <1>1, <1>5, Joined
  <2> HIDE DEF k
  <2> QED
    BY <1>5, <2>1
<1> HIDE DEF k
<1>7. /\ c \in Seq(Char) /\ Len(c) = Len(k) + 1
      /\ \A j \in 1 .. Len(k) : c[j] = k[j]
      /\ c[Len(k) + 1] = NUL
  <2>1. NUL \in Char
    BY Characters
  <2> QED
    BY <1>6, <2>1, OneMore
<1> HIDE DEF c
<1>8. ASSUME NEW j \in 1 .. 7 PROVE c[j] = h[j]
  <2>1. j \in 1 .. Len(k)
    BY <1>4, <1>6
  <2> QED
    BY <1>6, <1>7, <2>1
<1>9. ASSUME NEW j \in 1 .. Len(B) PROVE c[7 + j] = B[j]
  <2>1. PICK m \in Nat : m = 7 + j
    OBVIOUS
  <2>2. m \in 1 .. Len(k) /\ k[m] = B[j]
    BY <1>4, <1>6, <2>1
  <2>3. c[m] = B[j]
    BY <1>6, <1>7, <2>2
  <2> QED
    BY <2>1, <2>3
<1>10. Len(c) = Len(B) + 8 /\ c[Len(B) + 8] = NUL
  <2>1. Len(k) + 1 = Len(B) + 8
    BY <1>4, <1>6
  <2> QED
    BY <1>7, <2>1
<1>11. /\ c[1] = "1" /\ c[2] = "0" /\ c[3] = "0" /\ c[4] = d
       /\ c[5] = Bar /\ c[6] = Bar /\ c[7] = Bar
  <2>1. /\ 1 \in 1 .. 7 /\ 2 \in 1 .. 7 /\ 3 \in 1 .. 7 /\ 4 \in 1 .. 7
        /\ 5 \in 1 .. 7 /\ 6 \in 1 .. 7 /\ 7 \in 1 .. 7
    OBVIOUS
  <2> QED
    BY <1>5, <1>8, <2>1
<1> QED
  BY <1>3, <1>4, <1>7, <1>9, <1>10, <1>11 DEF B, d

\* What atoi reads where recv began the message inside the tag of a request:
\* only the whole tag is a code.
LEMMA TagValue ==
    ASSUME NEW r \in Requests, NEW f \in 1 .. 5, NEW u \in Seq(Char), Len(u) = 5 - f,
           \A i \in 1 .. 5 - f : u[i] = Compose(r)[f + i - 1]
    PROVE  IF f = 1 THEN Atoi(u) = Codes[r.op] ELSE Atoi(u) \notin RequestCodes
<1> DEFINE d == CodeDigit[r.op]
           c == Compose(r)
<1>1. /\ r.op \in DOMAIN Codes /\ d \in Digits /\ Codes[r.op] = 1000 + DigitValue[d]
      /\ c[1] = "1" /\ c[2] = "0" /\ c[3] = "0" /\ c[4] = d
  BY RequestKinds, CodesAre, ComposeIs, SMTT(30)
<1>12. /\ d \in Digits /\ "0" \in Digits /\ "1" \in Digits /\ DigitValue["0"] = 0 /\ DigitValue["1"] = 1
      /\ DigitValue[d] \in Nat /\ DigitValue[d] < 10
  <2>1. r.op \in {"login", "list", "invite", "data", "exit"}
    BY <1>1, CodesAre
  <2>2. d \in {"1", "3", "4", "5", "6"}
    BY <2>1 DEF CodeDigit
  <2> HIDE DEF d
  <2>3. d \in Digits /\ "0" \in Digits /\ "1" \in Digits
    BY <2>2 DEF Digits
  <2>4. DigitValue["0"] = 0 /\ DigitValue["1"] = 1
    BY DigitValues
  <2>5. DigitValue[d] \in {1, 3, 4, 5, 6}
    BY <2>2, DigitValues
  <2> QED
    BY <2>3, <2>4, <2>5
<1>3. ASSUME NEW n \in RequestCodes PROVE n >= 1001 /\ n \in Nat
  BY DEF RequestCodes, Codes
<1>13. PICK z \in Digits, o \in Digits : z = "0" /\ o = "1"
  BY <1>12
<1>2. d \in Digits /\ DigitValue[z] = 0 /\ DigitValue[o] = 1 /\ DigitValue[d] \in Nat /\ DigitValue[d] < 10
  BY <1>12, <1>13
<1>14. c[1] = o /\ c[2] = z /\ c[3] = z /\ c[4] = d
  BY <1>1, <1>13
<1> HIDE DEF d, c
<1>4. \A i \in 1 .. 5 - f : u[i] = c[f + i - 1]
  BY DEF c
<1>5. ASSUME NEW e \in Seq(Digits), e = u PROVE Atoi(u) = Number(e)
  <2>1. Len(u) \in Nat /\ \A i \in 1 .. Len(u) : u[i] \in Digits
    BY <1>5, LenProperties
  <2> QED
    BY <1>5, <2>1, AtoiOfDigits
<1>6. CASE f = 1
  <2>1. u = <<o, z, z, d>>
    <3>1. Len(u) = 4 /\ u[1] = o /\ u[2] = z /\ u[3] = z /\ u[4] = d
      BY <1>14, <1>4, <1>6
    <3>2. o \in Char /\ z \in Char /\ d \in Char
      BY <1>2, Characters
    <3>3. /\ <<o, z, z, d>> \in Seq(Char) /\ Len(<<o, z, z, d>>) = 4
          /\ <<o, z, z, d>>[1] = o /\ <<o, z, z, d>>[2] = z
          /\ <<o, z, z, d>>[3] = z /\ <<o, z, z, d>>[4] = d
      BY <3>2
    <3>4. \A i \in 1 .. Len(u) : u[i] = <<o, z, z, d>>[i]
      BY <3>1, <3>3
    <3> QED
      BY <3>1, <3>3, <3>4, SeqEqual
  <2>2. <<o, z, z, d>> \in Seq(Digits)
    BY <1>2
  <2>3. Atoi(u) = Number(<<o, z, z, d>>)
    BY <1>5, <2>1, <2>2
  <2>4. Number(<<o, z, z, d>>) =
           1000 * DigitValue[o] + 100 * DigitValue[z] + 10 * DigitValue[z] + DigitValue[d]
    BY <1>2, NumberOfFour
  <2> QED
    BY <1>1, <1>2, <1>6, <2>3, <2>4 DEF d
<1>7. CASE f = 2
  <2>1. u = <<z, z, d>>
    <3>1. Len(u) = 3 /\ u[1] = z /\ u[2] = z /\ u[3] = d
      BY <1>14, <1>4, <1>7
    <3> QED
      BY <3>1
  <2>2. <<z, z, d>> \in Seq(Digits)
    BY <1>2
  <2>3. Atoi(u) = Number(<<z, z, d>>)
    BY <1>5, <2>1, <2>2
  <2>4. Number(<<z, z, d>>) = 100 * DigitValue[z] + 10 * DigitValue[z] + DigitValue[d]
    BY <1>2, NumberOfFour
  <2>5. Atoi(u) < 10
    BY <1>2, <2>3, <2>4
  <2> QED
    BY <1>3, <1>7, <2>5
<1>8. CASE f = 3
  <2>1. u = <<z, d>>
    <3>1. Len(u) = 2 /\ u[1] = z /\ u[2] = d
      BY <1>14, <1>4, <1>8
    <3> QED
      BY <3>1
  <2>2. <<z, d>> \in Seq(Digits)
    BY <1>2
  <2>3. Atoi(u) = Number(<<z, d>>)
    BY <1>5, <2>1, <2>2
  <2>4. Number(<<z, d>>) = 10 * DigitValue[z] + DigitValue[d]
    BY <1>2, NumberOfFour
  <2>5. Atoi(u) < 10
    BY <1>2, <2>3, <2>4
  <2> QED
    BY <1>3, <1>8, <2>5
<1>9. CASE f = 4
  <2>1. u = <<d>>
    <3>1. Len(u) = 1 /\ u[1] = d
      BY <1>14, <1>4, <1>9
    <3>2. <<d>> \in Seq(Char) /\ Len(<<d>>) = 1 /\ <<d>>[1] = d
      <4>1. d \in Char
        BY <1>2, Characters
      <4> QED
        BY <4>1
    <3>3. \A i \in 1 .. Len(u) : u[i] = <<d>>[i]
      BY <3>1, <3>2
    <3> QED
      BY <3>1, <3>2, <3>3, SeqEqual
  <2>2. <<d>> \in Seq(Digits)
    BY <1>2
  <2>3. Atoi(u) = Number(<<d>>)
    BY <1>5, <2>1, <2>2
  <2>4. Number(<<d>>) = DigitValue[d]
    BY <1>2, NumberOfFour
  <2>5. Atoi(u) < 10
    BY <1>2, <2>3, <2>4
  <2> QED
    BY <1>3, <1>9, <2>5
<1>10. CASE f = 5
  <2>1. Len(u) = 0
    BY <1>10
  <2>2. u = <<>>
    BY <2>1
  <2>3. Atoi(u) = 0
    BY <2>2, AtoiOfNone
  <2> QED
    BY <1>3, <1>10, <2>3
<1> QED
  BY <1>6, <1>7, <1>8, <1>9, <1>10

-----------------------------------------------------------------------------
(* Where the requests lie in the stream.  The operators of Framing are     *)
(* stated of any sequence of requests M, so that the lemmas hold before    *)
(* and after a step.                                                       *)

BytesOf(M, k) == FlattenSeq([n \in 1 .. k |-> Compose(M[n])])

StartOf(M, n) == 1 + Len(BytesOf(M, n - 1))

StreamOf(M) == BytesOf(M, Len(M))

\* The bytes of one more of the requests M.
LEMMA OneMoreRequest ==
    ASSUME NEW M \in Seq(Requests), NEW k \in 0 .. Len(M) - 1
    PROVE  /\ BytesOf(M, k) \in Seq(Char)
           /\ BytesOf(M, k + 1) \in Seq(Char)
           /\ BytesOf(M, k + 1) = BytesOf(M, k) \o Compose(M[k + 1])
<1> DEFINE Q == [n \in 1 .. k |-> Compose(M[n])]
           N == [n \in 1 .. k + 1 |-> Compose(M[n])]
           x == Compose(M[k + 1])
<1>1. k \in Nat /\ k + 1 \in 1 .. Len(M) /\ k + 1 \in Nat /\ Len(M) \in Nat
  BY LenProperties
<1>2. \A n \in 1 .. Len(M) : Compose(M[n]) \in Seq(Char)
  <2> TAKE n \in 1 .. Len(M)
  <2>1. M[n] \in Requests
    BY ElementOfSeq
  <2> QED
    BY <2>1, ComposeIs
<1>3. x \in Seq(Char)
  BY <1>1, <1>2
<1>4. Q \in [1 .. k -> Seq(Char)] /\ N \in [1 .. k + 1 -> Seq(Char)]
  BY <1>1, <1>2
<1>5. Q \in Seq(Seq(Char)) /\ Len(Q) = k /\ N \in Seq(Seq(Char)) /\ Len(N) = k + 1
  <2> HIDE DEF Q, N
  <2> QED
    BY <1>1, <1>4
<1>6. /\ \A n \in 1 .. k : N[n] = Q[n]
      /\ N[k + 1] = x
  BY <1>1
<1> HIDE DEF Q, N, x
<1>7. N = Append(Q, x)
  <2>1. /\ Append(Q, x) \in Seq(Seq(Char)) /\ Len(Append(Q, x)) = k + 1
        /\ \A n \in 1 .. k : Append(Q, x)[n] = Q[n]
        /\ Append(Q, x)[k + 1] = x
    BY <1>3, <1>5, AppendProperties
  <2>2. \A n \in 1 .. Len(N) : N[n] = Append(Q, x)[n]
    <3> TAKE n \in 1 .. Len(N)
    <3>1. n \in 1 .. k \/ n = k + 1
      BY <1>1, <1>5
    <3> QED
      BY <1>6, <2>1, <3>1
  <2> QED
    BY <1>5, <2>1, <2>2, SeqEqual
<1>8. FlattenSeq(Q) \in Seq(Char) /\ FlattenSeq(N) = FlattenSeq(Q) \o x
  BY <1>3, <1>5, <1>7, FlattenAppend
<1>9. FlattenSeq(N) \in Seq(Char)
  BY <1>3, <1>8, ConcatProperties
<1> QED
  BY <1>8, <1>9 DEF BytesOf, Q, N, x

\* No requests, no bytes.
LEMMA NoRequests ==
    ASSUME NEW M \in Seq(Requests)
    PROVE  BytesOf(M, 0) = <<>>
<1> DEFINE Q == [n \in 1 .. 0 |-> Compose(M[n])]
           f == [n \in 0 .. 0 |-> <<>>]
           none == <<>>
<1>1. none \in Seq(Seq(Char)) /\ Len(none) = 0
  OBVIOUS
<1>2. Q = none
  OBVIOUS
<1>3. f \in [0 .. 0 -> Seq(Char)] /\ f[0] = <<>>
  OBVIOUS
<1> HIDE DEF Q, f, none
<1>4. /\ f \in [0 .. Len(none) -> Seq(Char)]
      /\ \A k \in 0 .. Len(none) - 1 : f[k + 1] = f[k] \o none[k + 1]
  BY <1>1, <1>3
<1>5. FlattenSeq(none) = f[Len(none)]
  BY <1>1, <1>3, <1>4, FlattenIs
<1> QED
  BY <1>1, <1>2, <1>3, <1>5 DEF BytesOf, Q

-----------------------------------------------------------------------------

\* The bytes of the first requests are the first bytes of the stream.
LEMMA BytesGrow ==
    ASSUME NEW M \in Seq(Requests), NEW k \in 0 .. Len(M)
    PROVE  /\ BytesOf(M, k) \in Seq(Char)
           /\ Len(BytesOf(M, k)) \in Nat
           /\ \A j \in 0 .. k :
                 /\ Len(BytesOf(M, j)) <= Len(BytesOf(M, k))
                 /\ \A i \in 1 .. Len(BytesOf(M, j)) : BytesOf(M, k)[i] = BytesOf(M, j)[i]
<1> DEFINE Good(m) ==
              /\ BytesOf(M, m) \in Seq(Char)
              /\ Len(BytesOf(M, m)) \in Nat
              /\ \A j \in 0 .. m :
                    /\ Len(BytesOf(M, j)) <= Len(BytesOf(M, m))
                    /\ \A i \in 1 .. Len(BytesOf(M, j)) : BytesOf(M, m)[i] = BytesOf(M, j)[i]
           S == {m \in Nat : m <= Len(M) => Good(m)}
<1>1. Len(M) \in Nat
  BY LenProperties
<1>2. 0 \in S
  <2>1. BytesOf(M, 0) \in Seq(Char) /\ Len(BytesOf(M, 0)) = 0
    <3>1. BytesOf(M, 0) = <<>>
      BY NoRequests
    <3>2. <<>> \in Seq(Char) /\ Len(<<>>) = 0
      BY EmptySeq
    <3> QED
      BY <3>1, <3>2
  <2>2. \A j \in 0 .. 0 : j = 0
    OBVIOUS
  <2> QED
    BY <2>1, <2>2
<1>3. ASSUME NEW m \in S PROVE m + 1 \in S
  <2> SUFFICES ASSUME m + 1 <= Len(M) PROVE Good(m + 1)
    OBVIOUS
  <2>1. m \in 0 .. Len(M) - 1 /\ m \in Nat /\ Good(m)
    BY <1>1
  <2> DEFINE P == BytesOf(M, m)
             R == BytesOf(M, m + 1)
             x == Compose(M[m + 1])
  <2>2. P \in Seq(Char) /\ R \in Seq(Char) /\ R = P \o x
    BY <2>1, OneMoreRequest
  <2>3. x \in Seq(Char)
    <3>1. m + 1 \in 1 .. Len(M)
      BY <1>1, <2>1
    <3>2. M[m + 1] \in Requests
      BY <3>1, ElementOfSeq
    <3> QED
      BY <3>2, ComposeIs
  <2> HIDE DEF x
  <2>4. /\ Len(R) = Len(P) + Len(x) /\ Len(P) \in Nat /\ Len(x) \in Nat
        /\ \A i \in 1 .. Len(P) : R[i] = P[i]
    BY <2>2, <2>3, Joined
  <2>5. ASSUME NEW j \in 0 .. m + 1
        PROVE  /\ Len(BytesOf(M, j)) <= Len(R)
               /\ \A i \in 1 .. Len(BytesOf(M, j)) : R[i] = BytesOf(M, j)[i]
    <3>1. CASE j = m + 1
      BY <2>4, <3>1
    <3>2. CASE j \in 0 .. m
      <4>1. Len(BytesOf(M, j)) \in Nat
        <5>1. j \in 0 .. Len(M) - 1
          BY <1>1, <2>1, <3>2
        <5>2. BytesOf(M, j) \in Seq(Char)
          BY <5>1, OneMoreRequest
        <5> QED
          BY <5>2, LenProperties
      <4>2. /\ Len(BytesOf(M, j)) <= Len(P)
            /\ \A i \in 1 .. Len(BytesOf(M, j)) : P[i] = BytesOf(M, j)[i]
        BY <2>1, <3>2
      <4> HIDE DEF R, P
      <4> QED
        BY <2>4, <4>1, <4>2
    <3> QED
      BY <2>1, <3>1, <3>2
  <2> QED
    BY <2>2, <2>4, <2>5
<1> HIDE DEF S
<1>4. S \subseteq Nat
  BY DEF S
<1>5. S = Nat
  BY <1>2, <1>3, <1>4, SetInduction
<1>6. k \in Nat /\ k <= Len(M)
  BY <1>1
<1>7. Good(k)
  BY <1>5, <1>6 DEF S
<1> QED
  BY <1>7

\* The requests follow one another: each begins where the one before it ends.
LEMMA RequestsFollow ==
    ASSUME NEW M \in Seq(Requests)
    PROVE  /\ StreamOf(M) \in Seq(Char) /\ Len(StreamOf(M)) \in Nat
           /\ StartOf(M, 1) = 1
           /\ StartOf(M, Len(M) + 1) = Len(StreamOf(M)) + 1
           /\ \A n \in 1 .. Len(M) + 1 : StartOf(M, n) \in Nat \ {0}
           /\ \A n \in 1 .. Len(M) :
                 /\ StartOf(M, n + 1) = StartOf(M, n) + Len(Compose(M[n]))
                 /\ \A i \in 1 .. Len(Compose(M[n])) :
                       StreamOf(M)[StartOf(M, n) + i - 1] = Compose(M[n])[i]
<1>1. Len(M) \in Nat
  BY LenProperties
<1>2. StreamOf(M) \in Seq(Char) /\ Len(StreamOf(M)) \in Nat
  BY <1>1, BytesGrow DEF StreamOf
<1>3. StartOf(M, 1) = 1
  <2>1. BytesOf(M, 0) = <<>>
    BY NoRequests
  <2>2. Len(<<>>) = 0 /\ 1 - 1 = 0
    BY EmptySeq
  <2>3. StartOf(M, 1) = 1 + Len(BytesOf(M, 0))
    BY <2>2 DEF StartOf
  <2> QED
    BY <2>1, <2>2, <2>3
<1>4. StartOf(M, Len(M) + 1) = Len(StreamOf(M)) + 1
  <2>1. PICK m \in Nat : m = Len(M) + 1
    BY <1>1
  <2>2. m - 1 = Len(M)
    BY <1>1, <2>1
  <2>3. StartOf(M, m) = 1 + Len(StreamOf(M))
    BY <2>2 DEF StartOf, StreamOf
  <2> QED
    BY <1>2, <2>1, <2>3
<1>5. ASSUME NEW n \in 1 .. Len(M) + 1 PROVE StartOf(M, n) \in Nat \ {0}
  <2>1. PICK m \in Nat : m = n - 1
    BY <1>1
  <2>2. m \in 0 .. Len(M)
    BY <1>1, <2>1
  <2>3. Len(BytesOf(M, m)) \in Nat
    BY <2>2, BytesGrow
  <2>4. StartOf(M, n) = 1 + Len(BytesOf(M, m))
    BY <2>1 DEF StartOf
  <2> QED
    BY <2>3, <2>4
<1>6. ASSUME NEW n \in 1 .. Len(M)
      PROVE  /\ StartOf(M, n + 1) = StartOf(M, n) + Len(Compose(M[n]))
             /\ \A i \in 1 .. Len(Compose(M[n])) :
                   StreamOf(M)[StartOf(M, n) + i - 1] = Compose(M[n])[i]
  <2>1. PICK m \in Nat : m = n - 1
    BY <1>1
  <2>2. m \in 0 .. Len(M) - 1 /\ m + 1 = n /\ n \in 0 .. Len(M) /\ n + 1 - 1 = n
    BY <1>1, <2>1
  <2> DEFINE P == BytesOf(M, m)
             R == BytesOf(M, n)
             x == Compose(M[n])
             T == StreamOf(M)
  <2>3. P \in Seq(Char) /\ R \in Seq(Char) /\ R = P \o x
    BY <2>2, OneMoreRequest
  <2>4. x \in Seq(Char)
    <3>1. M[n] \in Requests
      BY ElementOfSeq
    <3> QED
      BY <3>1, ComposeIs
  <2>5. StartOf(M, n) = 1 + Len(P) /\ StartOf(M, n + 1) = 1 + Len(R)
    BY <2>1, <2>2 DEF StartOf
  <2>6. Len(R) <= Len(T) /\ \A i \in 1 .. Len(R) : T[i] = R[i]
    <3>1. Len(M) \in 0 .. Len(M)
      BY <1>1
    <3> QED
      BY <2>2, <3>1, BytesGrow DEF StreamOf
  <2> HIDE DEF x, P, R, T
  <2>7. /\ Len(R) = Len(P) + Len(x) /\ Len(P) \in Nat /\ Len(x) \in Nat
        /\ \A i \in 1 .. Len(x) : R[Len(P) + i] = x[i]
    BY <2>3, <2>4, Joined
  <2>8. ASSUME NEW i \in 1 .. Len(x) PROVE T[StartOf(M, n) + i - 1] = x[i]
    <3>1. PICK j \in Nat : j = Len(P) + i
      BY <2>7
    <3>2. j \in 1 .. Len(R) /\ R[j] = x[i]
      BY <2>7, <3>1
    <3>3. StartOf(M, n) + i - 1 = j
      BY <2>5, <2>7, <3>1
    <3> QED
      BY <2>6, <3>2, <3>3
  <2> QED
    BY <2>5, <2>7, <2>8 DEF x, T
<1> QED
  BY <1>2, <1>3, <1>4, <1>5, <1>6

\* A later request begins after all the bytes of an earlier one, and every
\* byte of the stream is of some request.
LEMMA StartsGrow ==
    ASSUME NEW M \in Seq(Requests), NEW m \in 1 .. Len(M), NEW n \in 1 .. Len(M) + 1, m < n
    PROVE  StartOf(M, m) + Len(Compose(M[m])) <= StartOf(M, n)
<1>1. Len(M) \in Nat
  BY LenProperties
<1> DEFINE Good(k) == k > m /\ k <= Len(M) + 1 =>
                         StartOf(M, m) + Len(Compose(M[m])) <= StartOf(M, k)
           S == {k \in Nat : Good(k)}
<1>2. StartOf(M, m) \in Nat /\ Len(Compose(M[m])) \in Nat
  <2>1. M[m] \in Requests /\ m \in 1 .. Len(M) + 1
    BY <1>1, ElementOfSeq
  <2>2. Compose(M[m]) \in Seq(Char)
    BY <2>1, ComposeIs
  <2> QED
    BY <2>1, <2>2, RequestsFollow, LenProperties
<1>3. 0 \in S
  BY <1>1
<1>4. ASSUME NEW k \in S PROVE k + 1 \in S
  <2> SUFFICES ASSUME k + 1 > m, k + 1 <= Len(M) + 1
               PROVE  StartOf(M, m) + Len(Compose(M[m])) <= StartOf(M, k + 1)
    OBVIOUS
  <2>1. k \in Nat /\ Good(k)
    OBVIOUS
  <2>2. CASE k = m
    <3>1. StartOf(M, m + 1) = StartOf(M, m) + Len(Compose(M[m]))
      BY RequestsFollow
    <3> QED
      BY <1>2, <2>2, <3>1
  <2>3. CASE k # m
    <3>1. k > m /\ k <= Len(M) + 1 /\ k \in 1 .. Len(M) /\ k \in 1 .. Len(M) + 1
      BY <1>1, <2>1, <2>3
    <3>2. StartOf(M, m) + Len(Compose(M[m])) <= StartOf(M, k)
      BY <2>1, <3>1
    <3>3. StartOf(M, k + 1) = StartOf(M, k) + Len(Compose(M[k])) /\ StartOf(M, k) \in Nat
      BY <3>1, RequestsFollow
    <3>4. Len(Compose(M[k])) \in Nat
      <4>1. M[k] \in Requests
        BY <3>1, ElementOfSeq
      <4>2. Compose(M[k]) \in Seq(Char)
        BY <4>1, ComposeIs
      <4> QED
        BY <4>2, LenProperties
    <3> QED
      BY <1>2, <3>2, <3>3, <3>4
  <2> QED
    BY <2>2, <2>3
<1> HIDE DEF S
<1>5. S \subseteq Nat
  BY DEF S
<1>6. S = Nat
  BY <1>3, <1>4, <1>5, SetInduction
<1>7. n \in Nat /\ n <= Len(M) + 1
  BY <1>1
<1>8. Good(n)
  BY <1>6, <1>7 DEF S
<1> QED
  BY <1>7, <1>8

LEMMA ByteOfRequest ==
    ASSUME NEW M \in Seq(Requests), NEW p \in 1 .. Len(StreamOf(M))
    PROVE  \E n \in 1 .. Len(M) : /\ StartOf(M, n) <= p
                                  /\ p < StartOf(M, n) + Len(Compose(M[n]))
<1>1. Len(M) \in Nat
  BY LenProperties
<1> DEFINE T == {n \in Nat : n \in 1 .. Len(M) + 1 /\ p < StartOf(M, n)}
<1>2. Len(M) + 1 \in T
  <2>1. StartOf(M, Len(M) + 1) = Len(StreamOf(M)) + 1 /\ Len(StreamOf(M)) \in Nat
    BY RequestsFollow
  <2>2. p < StartOf(M, Len(M) + 1)
    BY <2>1
  <2> QED
    BY <1>1, <2>2
<1>3. PICK n \in T : \A y \in T : n <= y
  <2> HIDE DEF T
  <2>1. T \subseteq Nat
    BY DEF T
  <2> QED
    BY <1>2, <2>1, Least
<1>4. n # 1
  <2>1. StartOf(M, 1) = 1
    BY RequestsFollow
  <2> QED
    BY <1>3, <2>1
<1>5. PICK m \in Nat : m = n - 1
  BY <1>3, <1>4
<1>6. m \in 1 .. Len(M) /\ m + 1 = n /\ m \in 1 .. Len(M) + 1
  BY <1>1, <1>3, <1>4, <1>5
<1>7. m \notin T
  BY <1>3, <1>6
<1>8. StartOf(M, m) \in Nat /\ StartOf(M, m + 1) = StartOf(M, m) + Len(Compose(M[m]))
  BY <1>6, RequestsFollow
<1>9. StartOf(M, m) <= p
  BY <1>6, <1>7, <1>8
<1>10. p < StartOf(M, m + 1)
  BY <1>3, <1>6
<1> QED
  BY <1>6, <1>8, <1>9, <1>10

\* A further request changes nothing before it.
LEMMA StreamGrows ==
    ASSUME NEW M \in Seq(Requests), NEW r \in Requests
    PROVE  /\ Append(M, r) \in Seq(Requests) /\ Len(Append(M, r)) = Len(M) + 1
           /\ \A n \in 1 .. Len(M) : Append(M, r)[n] = M[n]
           /\ \A n \in 1 .. Len(M) + 1 : StartOf(Append(M, r), n) = StartOf(M, n)
           /\ Len(StreamOf(M)) <= Len(StreamOf(Append(M, r)))
           /\ \A i \in 1 .. Len(StreamOf(M)) : StreamOf(Append(M, r))[i] = StreamOf(M)[i]
<1> DEFINE A == Append(M, r)
<1>1. /\ Len(M) \in Nat /\ A \in Seq(Requests) /\ Len(A) = Len(M) + 1
      /\ \A n \in 1 .. Len(M) : A[n] = M[n]
  BY LenProperties, AppendProperties
<1> HIDE DEF A
<1>2. ASSUME NEW k \in 0 .. Len(M) PROVE BytesOf(A, k) = BytesOf(M, k)
  <2>1. \A n \in 1 .. k : A[n] = M[n]
    BY <1>1
  <2>2. [n \in 1 .. k |-> Compose(A[n])] = [n \in 1 .. k |-> Compose(M[n])]
    BY <2>1
  <2> QED
    BY <2>2 DEF BytesOf
<1>3. ASSUME NEW n \in 1 .. Len(M) + 1 PROVE StartOf(A, n) = StartOf(M, n)
  <2>1. n - 1 \in 0 .. Len(M)
    BY <1>1
  <2> QED
    BY <1>2, <2>1 DEF StartOf
<1>4. /\ Len(StreamOf(M)) <= Len(StreamOf(A))
      /\ \A i \in 1 .. Len(StreamOf(M)) : StreamOf(A)[i] = StreamOf(M)[i]
  <2>1. Len(M) \in 0 .. Len(A) /\ Len(A) \in 0 .. Len(A) /\ Len(M) \in 0 .. Len(M)
    BY <1>1
  <2>2. StreamOf(M) = BytesOf(A, Len(M))
    BY <1>2, <2>1 DEF StreamOf
  <2>3. /\ Len(BytesOf(A, Len(M))) <= Len(BytesOf(A, Len(A)))
        /\ \A i \in 1 .. Len(BytesOf(A, Len(M))) :
              BytesOf(A, Len(A))[i] = BytesOf(A, Len(M))[i]
    BY <1>1, <2>1, BytesGrow
  <2> QED
    BY <2>2, <2>3 DEF StreamOf
<1> QED
  BY <1>1, <1>3, <1>4 DEF A

-----------------------------------------------------------------------------
(* Where a "|||" stands in a request, and what atoi reads in its body.     *)

\* "|||" ends the tag; another one is inside the text of a data request.
LEMMA SplitInside ==
    ASSUME NEW r \in Requests, NEW q \in 1 .. Len(Compose(r)), SplitsAt(Compose(r), q),
           q + 2 <= Len(Compose(r))
    PROVE  \/ q = 5
           \/ /\ r.op = "data" /\ r.arg \in Texts
              /\ \E i \in 1 .. Len(r.arg) - 2 : q = Len(Self) + 8 + i /\ SplitsAt(r.arg, i)
<1> DEFINE c == Compose(r)
           B == Body(r)
<1>1. /\ Len(c) = Len(B) + 8 /\ Len(B) \in Nat
      /\ c[1] = "1" /\ c[2] = "0" /\ c[3] = "0" /\ c[4] = CodeDigit[r.op]
      /\ \A j \in 1 .. Len(B) : c[7 + j] = B[j]
      /\ c[Len(B) + 8] = NUL
  BY ComposeIs
<1>2. c[q] = Bar /\ c[q + 1] = Bar /\ c[q + 2] = Bar
  <2>1. q \in q .. q + 2 /\ q + 1 \in q .. q + 2 /\ q + 2 \in q .. q + 2
    OBVIOUS
  <2> QED
    BY <2>1 DEF SplitsAt
<1> HIDE DEF c
<1>3. q \notin 1 .. 4
  <2>1. "1" \in Digits /\ "0" \in Digits /\ CodeDigit[r.op] \in Digits
    <3>1. CodeDigit[r.op] \in Digits
      BY RequestKinds, CodesAre
    <3>2. "1" \in Digits /\ "0" \in Digits
      BY DEF Digits
    <3> QED
      BY <3>1, <3>2
  <2>2. Bar \notin Digits
    BY Characters DEF Numeral
  <2>3. ASSUME q \in 1 .. 4 PROVE FALSE
    <3>1. q = 1 \/ q = 2 \/ q = 3 \/ q = 4
      BY <2>3
    <3> QED
      BY <1>1, <1>2, <2>1, <2>2, <3>1
  <2> QED
    BY <2>3
<1>4. ASSUME q # 5
      PROVE  \E j \in 1 .. Len(B) : /\ q <= 7 + j /\ 7 + j <= q + 2 /\ B[j] = Bar
                                    /\ (j = 1 \/ j = q - 7)
  <2>1. q >= 6
    BY <1>3, <1>4
  <2>2. PICK m \in Nat : m = IF q < 8 THEN 8 ELSE q
    BY <2>1
  <2>3. c[m] = Bar /\ q <= m /\ m <= q + 2
    <3>1. m = q \/ m = q + 1 \/ m = q + 2
      BY <2>1, <2>2
    <3> QED
      BY <1>2, <3>1
  <2>4. m # Len(B) + 8
    <3>1. NUL # Bar
      BY Characters
    <3> QED
      BY <1>1, <2>3, <3>1
  <2>5. PICK j \in Nat : 7 + j = m
    <3>1. m - 7 \in Nat /\ 7 + (m - 7) = m
      BY <2>1, <2>2
    <3> QED
      BY <3>1
  <2>6. j \in 1 .. Len(B)
    BY <1>1, <2>1, <2>2, <2>3, <2>4, <2>5 DEF c
  <2>7. B[j] = Bar
    BY <1>1, <2>3, <2>5, <2>6
  <2>8. j = 1 \/ j = q - 7
    BY <2>2, <2>5
  <2> QED
    BY <2>3, <2>5, <2>6, <2>7, <2>8
<1>5. /\ r.op \in {"login", "list", "invite", "data", "exit"}
      /\ \A j \in 1 .. Len(Self) : Self[j] # Bar
      /\ Len(Self) \in Nat
  <2>1. r.op \in DOMAIN Codes
    BY RequestKinds
  <2>2. Self \in Seq(Char) /\ IsPlain(Self)
    BY FramingAssumption
  <2> QED
    BY <2>1, <2>2, CodesAre, LenProperties DEF IsPlain
<1>6. CASE q = 5
  BY <1>6
<1>7. CASE q # 5
  <2>1. PICK j \in 1 .. Len(B) : /\ q <= 7 + j /\ 7 + j <= q + 2 /\ B[j] = Bar
                                 /\ (j = 1 \/ j = q - 7)
    BY <1>4, <1>7
  <2>2. CASE r.op = "list"
    <3>1. B = <<"a">>
      BY <2>2, BodyIs
    <3>2. j = 1 /\ B[1] = "a"
      BY <3>1
    <3> QED
      BY <2>1, <3>2, Characters
  <2>3. CASE r.op = "exit"
    <3>1. B = Self
      BY <2>3, BodyIs
    <3> QED
      BY <1>5, <2>1, <3>1
  <2>4. CASE r.op \in {"login", "invite", "data"}
    <3>1. /\ Len(B) = Len(Self) + 1 + Len(Rest(r))
          /\ \A i \in 1 .. Len(Self) : B[i] = Self[i]
          /\ B[Len(Self) + 1] = Colon
          /\ \A i \in 1 .. Len(Rest(r)) : B[Len(Self) + 1 + i] = Rest(r)[i]
          /\ Rest(r) \in Seq(Char) /\ Len(Rest(r)) \in Nat
      BY <2>4, BodyIs, RequestKinds, LenProperties
    <3>2. j > Len(Self) + 1
      <4>1. j \notin 1 .. Len(Self)
        BY <1>5, <2>1, <3>1
      <4>2. j # Len(Self) + 1
        BY <2>1, <3>1, Characters
      <4> QED
        BY <1>5, <4>1, <4>2
    <3>3. PICK i \in Nat : j = Len(Self) + 1 + i /\ i \in 1 .. Len(Rest(r))
      <4>1. PICK i \in Nat : i = j - (Len(Self) + 1)
        <5>1. j \in Nat
          BY <1>1
        <5>2. j - (Len(Self) + 1) \in Nat
          BY <1>5, <3>2, <5>1
        <5> QED
          BY <5>2
      <4>2. j = Len(Self) + 1 + i /\ i \in 1 .. Len(Rest(r))
        BY <1>1, <1>5, <3>1, <3>2, <4>1
      <4> QED
        BY <4>2
    <3>4. Rest(r)[i] = Bar
      BY <2>1, <3>1, <3>3
    <3>5. r.op = "data" /\ r.arg \in Texts
      <4>1. r.op # "login"
        <5>1. IsPlain(Port)
          BY FramingAssumption
        <5> QED
          BY <3>3, <3>4, <5>1, <3>1 DEF Rest, IsPlain
      <4>2. r.op # "invite"
        <5>1. ASSUME r.op = "invite" PROVE IsPlain(r.arg)
          BY <5>1, RequestKinds, FramingAssumption
        <5> QED
          BY <3>3, <3>4, <5>1, <3>1 DEF Rest, IsPlain
      <4>3. r.op = "data"
        BY <2>4, <4>1, <4>2
      <4> QED
        BY <4>3, RequestKinds
    <3>6. Rest(r) = r.arg
      BY <3>5 DEF Rest
    <3>7. j = q - 7 /\ q = 7 + j
      BY <1>5, <2>1, <3>2
    <3>8. ASSUME NEW m \in 0 .. 2 PROVE i + m \in 1 .. Len(Rest(r)) /\ Rest(r)[i + m] = Bar
      <4>1. c[q + m] = Bar
        <5>1. m = 0 \/ m = 1 \/ m = 2
          OBVIOUS
        <5> QED
          BY <1>2, <5>1
      <4>2. q + m # Len(B) + 8
        <5>1. NUL # Bar
          BY Characters
        <5> QED
          BY <1>1, <4>1, <5>1
      <4>3. PICK k \in Nat : k = j + m
        OBVIOUS
      <4>4. q + m = 7 + k
        BY <3>7, <4>3
      <4>5. k \in 1 .. Len(B)
        <5>1. q + m <= Len(B) + 8
          BY <1>1 DEF c
        <5> QED
          BY <1>1, <4>2, <4>3, <4>4, <5>1
      <4>6. B[k] = Bar
        BY <1>1, <4>1, <4>4, <4>5
      <4>7. PICK e \in Nat : e = i + m
        OBVIOUS
      <4>8. k = Len(Self) + 1 + e /\ e \in 1 .. Len(Rest(r))
        BY <1>5, <3>1, <3>3, <4>3, <4>5, <4>7
      <4>9. Rest(r)[e] = Bar
        BY <3>1, <4>6, <4>8
      <4> QED
        BY <4>7, <4>8, <4>9
    <3>9. SplitsAt(r.arg, i)
      <4> SUFFICES ASSUME NEW k \in i .. i + 2 PROVE r.arg[k] = Bar
        BY DEF SplitsAt
      <4>1. PICK m \in 0 .. 2 : k = i + m
        <5>1. k - i \in 0 .. 2 /\ k = i + (k - i)
          OBVIOUS
        <5> QED
          BY <5>1
      <4> QED
        BY <3>6, <3>8, <4>1
    <3>10. i \in 1 .. Len(r.arg) - 2
      <4>1. 2 \in 0 .. 2
        OBVIOUS
      <4>2. i + 2 \in 1 .. Len(Rest(r))
        BY <3>8, <4>1
      <4> QED
        BY <3>1, <3>3, <3>6, <4>2
    <3>11. q = Len(Self) + 8 + i
      BY <1>5, <3>3, <3>7
    <3> QED
      BY <3>5, <3>9, <3>10, <3>11
  <2> QED
    BY <1>5, <2>2, <2>3, <2>4
<1> QED
  BY <1>6, <1>7

\* The number read where recv began the message inside N, when what follows
\* N is no digit, is the one N ends in.
LEMMA PieceValue ==
    ASSUME NEW N \in Seq(Char), NEW k \in 1 .. Len(N), NEW u \in Seq(Char),
           NEW e \in k .. Len(N) + 1, e - k <= Len(u),
           \A i \in 1 .. e - k : u[i] = N[k + i - 1],
           \/ e = Len(N) + 1 /\ (Len(u) = e - k \/ u[e - k + 1] \notin Numeral)
           \/ e <= Len(N) /\ N[e] \notin Numeral /\ Len(u) = e - k
    PROVE  Atoi(u) = Atoi(SubSeq(N, k, Len(N)))
<1> DEFINE t == SubSeq(N, k, Len(N))
           j == e - k
<1>1. Len(N) \in Nat /\ Len(u) \in Nat /\ j \in Nat
  BY LenProperties
<1>2. /\ t \in Seq(Char) /\ Len(t) = Len(N) - k + 1
      /\ \A i \in 1 .. Len(N) - k + 1 : t[i] = N[k + i - 1]
  <2>1. k \in Nat \ {0} /\ k <= Len(N) + 1 /\ Len(N) <= Len(N) /\ Len(N) \in Nat
    BY <1>1
  <2> QED
    BY <2>1, PieceIs
<1> HIDE DEF t
<1>3. j <= Len(u) /\ j <= Len(t) /\ \A i \in 1 .. j : u[i] = t[i]
  BY <1>1, <1>2
<1>4. (j = Len(u) \/ u[j + 1] \notin Numeral) /\ (j = Len(t) \/ t[j + 1] \notin Numeral)
  <2>1. CASE e = Len(N) + 1 /\ (Len(u) = e - k \/ u[e - k + 1] \notin Numeral)
    BY <1>1, <1>2, <2>1
  <2>2. CASE e <= Len(N) /\ N[e] \notin Numeral /\ Len(u) = e - k
    <3>1. j + 1 \in 1 .. Len(N) - k + 1 /\ k + (j + 1) - 1 = e
      BY <1>1, <2>2
    <3>2. t[j + 1] = N[e]
      BY <1>2, <3>1
    <3> QED
      BY <2>2, <3>2
  <2> QED
    BY <2>1, <2>2
<1> HIDE DEF j
<1>5. Atoi(u) = Atoi(t)
  BY <1>1, <1>2, <1>3, <1>4, AtoiAgrees
<1> QED
  BY <1>5 DEF t

\* The first n elements of u are those of s from index f on.
Begins(u, s, f, n) == n <= Len(u) /\ \A i \in 1 .. n : u[i] = s[f + i - 1]

\* A name, the port or the text of r has v from some character on.
InWord(r, v) == \E w \in Words(r) : \E k \in 1 .. Len(w) : v = Atoi(SubSeq(w, k, Len(w)))

\* Bytes of the stream S that lie in the request c, which begins at s, are c's.
LEMMA SameBytes ==
    ASSUME NEW S, NEW c, NEW u, NEW s \in Nat, NEW a \in Nat, NEW f \in Nat,
           NEW j \in Nat, NEW k \in Nat, NEW L \in Nat,
           Begins(c, S, s, L), Begins(u, S, a, j), k <= j, Len(u) \in Nat,
           f >= 1, a = s + f - 1, f + k <= L + 1
    PROVE  Begins(u, c, f, k)
<1>1. j <= Len(u) /\ (\A i \in 1 .. j : u[i] = S[a + i - 1]) /\ \A i \in 1 .. L : c[i] = S[s + i - 1]
  BY DEF Begins
<1>2. ASSUME NEW i \in 1 .. k PROVE u[i] = c[f + i - 1]
  <2>1. PICK v \in Nat : v = f + i - 1
    <3>1. f + i - 1 \in Nat
      OBVIOUS
    <3> QED
      BY <3>1
  <2>2. v \in 1 .. L /\ s + v - 1 = a + i - 1 /\ i \in 1 .. j
    BY <2>1
  <2> QED
    BY <1>1, <2>1, <2>2
<1>3. k <= Len(u)
  BY <1>1
<1> QED
  BY <1>2, <1>3 DEF Begins

\* The text of r has a "|||" at index q of the request.
InText(r, q) ==
    /\ r.op = "data" /\ r.arg \in Texts
    /\ \E i \in 1 .. Len(r.arg) - 2 : q = Len(Self) + 8 + i /\ SplitsAt(r.arg, i)

\* u begins with the bytes of r from f up to e, which is the end of the request
\* or, if u ends there, the "|||" of its text.
Reaches(r, u, f, e) ==
    /\ e \in f .. Len(Compose(r)) + 1
    /\ Begins(u, Compose(r), f, e - f)
    /\ e = Len(Compose(r)) + 1 \/ (Len(u) = e - f /\ InText(r, e))

\* Where recv began the message behind the code of a request and before the next
\* "|||", atoi reads a code only in a name, a port or a text.
LEMMA BodyValue ==
    ASSUME NEW r \in Requests, NEW f \in 6 .. Len(Compose(r)), NEW u \in Seq(Char),
           NEW e, Reaches(r, u, f, e), Atoi(u) \in RequestCodes
    PROVE  f >= 8 /\ InWord(r, Atoi(u))
<1> DEFINE c == Compose(r)
           B == Body(r)
           n == Len(Self)
<1>1. /\ Len(c) = Len(B) + 8 /\ Len(B) \in Nat
      /\ c[5] = Bar /\ c[6] = Bar /\ c[7] = Bar
      /\ \A j \in 1 .. Len(B) : c[7 + j] = B[j]
      /\ c[Len(B) + 8] = NUL
  BY ComposeIs
<1>2. /\ r.op \in {"login", "list", "invite", "data", "exit"}
      /\ Self \in Seq(Char) /\ n \in Nat
  <2>1. r.op \in DOMAIN Codes
    BY RequestKinds
  <2>2. Self \in Seq(Char)
    BY FramingAssumption
  <2> QED
    BY <2>1, <2>2, CodesAre, LenProperties
<1>14. /\ r.op = "exit" => Words(r) = {Self}
       /\ r.op \in {"login", "invite", "data"} => Words(r) = {Self, Rest(r)}
  BY DEF Words, Rest
<1>3. /\ f \in Nat /\ e \in Nat /\ Len(u) \in Nat /\ f <= e /\ f <= Len(c) /\ f >= 6
      /\ e - f <= Len(u)
  BY <1>1, LenProperties DEF Begins, Reaches
<1> HIDE DEF c
\* No digit at f, no number.
<1>4. ASSUME e > f, c[f] \notin Numeral PROVE FALSE
  <2>1. u[1] = c[f]
    <3>1. 1 \in 1 .. e - f /\ f + 1 - 1 = f
      BY <1>3, <1>4
    <3> QED
      BY <3>1 DEF c, Begins, Reaches
  <2>2. Atoi(u) = 0
    BY <1>4, <2>1, AtoiOfNone
  <2> QED
    BY <2>2 DEF RequestCodes, Codes
<1>5. ASSUME e = f PROVE FALSE
  <2>1. e # Len(c) + 1
    BY <1>3, <1>5
  <2>2. Len(u) = 0
    BY <1>3, <1>5, <2>1 DEF c, Reaches
  <2>3. u = <<>>
    BY <2>2, EmptySeq
  <2>4. Atoi(u) = 0
    BY <2>3, AtoiOfNone
  <2> QED
    BY <2>4 DEF RequestCodes, Codes
<1>6. f >= 8 /\ f # Len(B) + 8 /\ e > f
  <2>1. e > f
    BY <1>3, <1>5
  <2>2. c[f] \in Numeral
    BY <1>4, <2>1
  <2>3. f # 6 /\ f # 7 /\ f # Len(B) + 8
    BY <1>1, <2>2, Characters
  <2> QED
    BY <1>3, <2>1, <2>3
<1>7. PICK j \in Nat : f = 7 + j
  <2>1. f - 7 \in Nat /\ f = 7 + (f - 7)
    BY <1>3, <1>6
  <2> QED
    BY <2>1
<1>8. j \in 1 .. Len(B) /\ c[f] = B[j]
  <2>1. j \in 1 .. Len(B)
    BY <1>1, <1>3, <1>6, <1>7
  <2> QED
    BY <1>1, <1>7, <2>1
<1>9. CASE r.op = "list"
  <2>1. B = <<"a">>
    BY <1>9, BodyIs
  <2>2. j = 1 /\ B[1] = "a"
    BY <1>8, <2>1
  <2> QED
    BY <1>4, <1>6, <1>8, <2>2, Characters
<1>10. ASSUME NEW i \in 1 .. e - f PROVE u[i] = c[f + i - 1]
  BY DEF c, Begins, Reaches
<1>11. e = Len(c) + 1 => e - f = Len(B) - j + 2
  BY <1>1, <1>3, <1>7
<1>12. CASE r.op = "exit"
  <2>1. B = Self /\ e = Len(c) + 1
    BY <1>12, BodyIs DEF c, InText, Reaches
  <2>2. ASSUME NEW i \in 1 .. n + 1 - j PROVE u[i] = Self[j + i - 1]
    <3>1. i \in 1 .. e - f
      BY <1>2, <1>8, <1>11, <2>1
    <3>2. PICK k \in Nat : k = j + i - 1
      <4>1. j + i - 1 \in Nat
        BY <1>8
      <4> QED
        BY <4>1
    <3>3. k \in 1 .. Len(B) /\ f + i - 1 = 7 + k
      <4>1. n \in Nat /\ j \in Nat /\ j >= 1
        BY <1>2, <1>8
      <4>2. k \in 1 .. n
        BY <3>2, <4>1
      <4>3. f + i - 1 = 7 + k
        BY <1>7, <3>2, <4>1
      <4> QED
        BY <2>1, <4>2, <4>3
    <3>4. c[7 + k] = B[k]
      BY <1>1, <3>3
    <3> QED
      BY <1>10, <2>1, <3>1, <3>2, <3>3, <3>4
  <2>3. u[n + 1 - j + 1] \notin Numeral
    <3>1. PICK i \in Nat : i = n + 1 - j + 1
      <4>1. n + 1 - j + 1 \in Nat
        BY <1>2, <1>8, <2>1
      <4> QED
        BY <4>1
    <3>2. i \in 1 .. e - f /\ f + i - 1 = Len(B) + 8
      BY <1>1, <1>2, <1>7, <1>8, <1>11, <2>1, <3>1
    <3>3. u[i] = NUL
      BY <1>1, <1>10, <3>2
    <3> QED
      BY <3>1, <3>3, Characters
  <2>4. j \in 1 .. n /\ n + 1 \in j .. n + 1 /\ n + 1 - j <= Len(u)
    BY <1>2, <1>3, <1>8, <1>11, <2>1
  <2>5. Atoi(u) = Atoi(SubSeq(Self, j, n))
    <3>1. PICK g \in Nat : g = n + 1
      BY <1>2
    <3>2. /\ \A i \in 1 .. g - j : u[i] = Self[j + i - 1]
          /\ u[g - j + 1] \notin Numeral
          /\ g \in j .. n + 1 /\ g - j <= Len(u)
      BY <2>2, <2>3, <2>4, <3>1
    <3> QED
      BY <1>2, <2>4, <3>1, <3>2, PieceValue
  <2>6. n = Len(Self)
    OBVIOUS
  <2> HIDE DEF n
  <2> QED
    BY <1>6, <1>12, <1>14, <2>4, <2>5, <2>6 DEF InWord
<1>13. CASE r.op \in {"login", "invite", "data"}
  <2> DEFINE t == Rest(r)
  <2>1. /\ Len(B) = n + 1 + Len(t) /\ t \in Seq(Char) /\ Len(t) \in Nat
        /\ \A i \in 1 .. n : B[i] = Self[i]
        /\ B[n + 1] = Colon
        /\ \A i \in 1 .. Len(t) : B[n + 1 + i] = t[i]
    BY <1>13, BodyIs, RequestKinds, LenProperties
  <2>6. t \in Words(r)
    BY <1>13, <1>14
  <2> HIDE DEF t
  \* The text's "|||" is behind the name.
  <2>2. e >= n + 9
    <3>1. CASE e = Len(c) + 1
      BY <1>1, <1>2, <2>1, <3>1
    <3>2. CASE e # Len(c) + 1
      <4>1. PICK i \in 1 .. Len(r.arg) - 2 : e = n + 8 + i
        BY <3>2 DEF c, InText, Reaches
      <4> QED
        BY <1>2, <4>1
    <3> QED
      BY <3>1, <3>2
  <2>3. CASE j <= n
    <3>1. ASSUME NEW i \in 1 .. n + 1 - j PROVE u[i] = Self[j + i - 1]
      <4>1. i \in 1 .. e - f
        BY <1>2, <1>3, <1>7, <1>8, <2>2, <2>3
      <4>2. PICK k \in Nat : k = j + i - 1
        <5>1. j + i - 1 \in Nat
          BY <1>8
        <5> QED
          BY <5>1
      <4>3. k \in 1 .. n /\ k \in 1 .. Len(B) /\ f + i - 1 = 7 + k
        BY <1>1, <1>2, <1>3, <1>7, <1>8, <2>1, <2>3, <4>2
      <4>4. c[7 + k] = B[k] /\ B[k] = Self[k]
        BY <1>1, <2>1, <4>3
      <4> QED
        BY <1>10, <4>1, <4>2, <4>3, <4>4
    <3>2. u[n + 1 - j + 1] \notin Numeral
      <4>1. PICK i \in Nat : i = n + 1 - j + 1
        <5>1. n + 1 - j + 1 \in Nat
          BY <1>2, <1>8, <2>3
        <5> QED
          BY <5>1
      <4>2. i \in 1 .. e - f /\ f + i - 1 = 7 + (n + 1) /\ n + 1 \in 1 .. Len(B)
        <5>1. n + 1 \in 1 .. Len(B)
          BY <1>2, <2>1
        <5>2. f + i - 1 = 7 + (n + 1)
          BY <1>2, <1>7, <4>1
        <5>3. i >= 1 /\ i <= e - f
          BY <1>2, <1>3, <1>7, <2>2, <2>3, <4>1
        <5> QED
          BY <1>3, <5>1, <5>2, <5>3
      <4>3. u[i] = Colon
        <5>1. u[i] = c[f + i - 1]
          BY <1>10, <4>2
        <5>2. PICK v \in Nat : v = n + 1
          BY <1>2
        <5>3. c[7 + v] = B[v]
          BY <1>1, <4>2, <5>2
        <5> QED
          BY <2>1, <4>2, <5>1, <5>2, <5>3
      <4> QED
        BY <4>1, <4>3, Characters
    <3>3. j \in 1 .. n /\ n + 1 \in j .. n + 1 /\ n + 1 - j <= Len(u)
      <4>1. n \in Nat /\ j \in Nat /\ j >= 1
        BY <1>2, <1>8
      <4>2. j \in 1 .. n /\ n + 1 \in j .. n + 1
        BY <2>3, <4>1
      <4>3. n + 1 - j <= Len(u)
        BY <1>3, <1>7, <2>2, <4>1
      <4> QED
        BY <4>2, <4>3
    <3>4. Atoi(u) = Atoi(SubSeq(Self, j, n))
      <4>1. PICK g \in Nat : g = n + 1
        BY <1>2
      <4>2. /\ \A i \in 1 .. g - j : u[i] = Self[j + i - 1]
            /\ u[g - j + 1] \notin Numeral
            /\ g \in j .. n + 1 /\ g - j <= Len(u)
        BY <3>1, <3>2, <3>3, <4>1
      <4> QED
        BY <1>2, <3>3, <4>1, <4>2, PieceValue
    <3>5. n = Len(Self) /\ Self \in Words(r)
      BY <1>13, <1>14
    <3> HIDE DEF n
    <3> QED
      BY <1>6, <3>3, <3>4, <3>5 DEF InWord
  <2>4. CASE j = n + 1
    BY <1>4, <1>6, <1>8, <2>1, <2>4, Characters
  <2>5. CASE j > n + 1
    <3>1. PICK k \in Nat : j = n + 1 + k
      <4>1. j - (n + 1) \in Nat /\ j = n + 1 + (j - (n + 1))
        BY <1>2, <1>8, <2>5
      <4> QED
        BY <4>1
    <3>2. k \in 1 .. Len(t) /\ f = n + 8 + k
      BY <1>2, <1>7, <1>8, <2>1, <2>5, <3>1
    \* What the text has from k to g.
    <3> DEFINE SameUpTo(g) == \A i \in 1 .. g - k : u[i] = t[k + i - 1]
    <3>3. ASSUME NEW g \in k .. Len(t) + 1, g - k <= e - f
          PROVE  SameUpTo(g)
      <4> SUFFICES ASSUME NEW i \in 1 .. g - k PROVE u[i] = t[k + i - 1]
        OBVIOUS
      <4>1. PICK m \in Nat : m = k + i - 1
        <5>1. k + i - 1 \in Nat
          BY <3>2
        <5> QED
          BY <5>1
      <4>0. k \in Nat /\ g \in Nat /\ k >= 1 /\ g <= Len(t) + 1 /\ i \in Nat /\ i >= 1 /\ i <= g - k
        BY <2>1, <3>2
      <4>2. m \in 1 .. Len(t) /\ i \in 1 .. e - f
        <5>1. m >= 1 /\ m <= Len(t)
          BY <2>1, <4>0, <4>1
        <5>2. i <= e - f
          BY <1>3, <3>3, <4>0
        <5> QED
          BY <1>3, <2>1, <4>0, <5>1, <5>2
      <4>3. PICK v \in Nat : v = n + 1 + m
        BY <1>2
      <4>4. v \in 1 .. Len(B) /\ f + i - 1 = 7 + v
        <5>1. v \in 1 .. Len(B)
          BY <1>2, <2>1, <4>2, <4>3
        <5>2. f + i - 1 = 7 + v
          BY <1>2, <3>2, <4>0, <4>1, <4>3
        <5> QED
          BY <5>1, <5>2
      <4>5. c[7 + v] = B[v] /\ B[v] = t[m]
        BY <1>1, <2>1, <4>2, <4>3, <4>4
      <4> QED
        BY <1>10, <4>1, <4>2, <4>4, <4>5
    <3> HIDE DEF SameUpTo
    <3>4. CASE e = Len(c) + 1
      <4>1. PICK g \in Nat : g = Len(t) + 1
        BY <2>1
      <4>2. g \in k .. Len(t) + 1 /\ g - k + 1 = e - f /\ g - k <= e - f /\ g - k <= Len(u)
        <5>1. k \in Nat /\ k <= Len(t) /\ k >= 1
          BY <2>1, <3>2
        <5>4. e = n + Len(t) + 10
          <6>1. Len(c) = n + Len(t) + 9
            BY <1>1, <1>2, <2>1
          <6> QED
            BY <1>2, <2>1, <3>4, <6>1
        <5>5. f = n + 8 + k
          BY <3>2
        <5>2. g - k + 1 = e - f
          BY <1>2, <2>1, <4>1, <5>1, <5>4, <5>5
        <5>3. e - f <= Len(u) /\ e - f \in Nat
          BY <1>3 DEF c
        <5> QED
          BY <1>3, <2>1, <4>1, <5>1, <5>2, <5>3, SMTT(30)
      <4>3. \A i \in 1 .. g - k : u[i] = t[k + i - 1]
        <5>1. SameUpTo(g)
          BY <3>3, <4>2
        <5> QED
          BY <5>1 DEF SameUpTo
      <4>4. u[g - k + 1] \notin Numeral
        <5>1. PICK i \in Nat : i = g - k + 1
          <6>1. g - k + 1 \in Nat
            BY <2>1, <3>2, <4>1
          <6> QED
            BY <6>1
        <5>4. k \in Nat /\ f = n + 8 + k
          BY <3>2
        <5>5. i = e - f /\ i >= 1
          BY <1>3, <2>1, <3>2, <4>1, <4>2, <5>1
        <5>7. n \in Nat /\ Len(t) \in Nat
          BY <1>2, <2>1
        <5>6. f + i - 1 = n + Len(t) + 9
          BY <4>1, <5>1, <5>4, <5>7
        <5>2. i \in 1 .. e - f /\ f + i - 1 = Len(B) + 8
          BY <1>2, <2>1, <5>5, <5>6
        <5>3. u[i] = NUL
          BY <1>1, <1>10, <5>2
        <5> QED
          BY <5>1, <5>3, Characters
      <4>5. Atoi(u) = Atoi(SubSeq(t, k, Len(t)))
        BY <2>1, <3>2, <4>1, <4>2, <4>3, <4>4, PieceValue
      <4> QED
        BY <1>6, <2>6, <3>2, <4>5 DEF InWord
    <3>5. CASE e # Len(c) + 1
      <4>1. /\ r.op = "data" /\ Len(u) = e - f
            /\ \E i \in 1 .. Len(r.arg) - 2 : e = n + 8 + i /\ SplitsAt(r.arg, i)
        BY <3>5 DEF c, InText, Reaches
      <4>2. PICK i \in 1 .. Len(r.arg) - 2 : e = n + 8 + i /\ SplitsAt(r.arg, i)
        BY <4>1
      <4>3. t = r.arg /\ t \in Texts
        BY <4>1, RequestKinds DEF t, Rest
      <4>4. i \in Nat /\ i \in k .. Len(t) + 1 /\ i <= Len(t) /\ i - k = e - f /\ i - k <= Len(u)
        <5>1. k \in Nat /\ k >= 1 /\ i \in Nat /\ i <= Len(t)
          BY <2>1, <3>2, <4>2, <4>3
        <5>2. i - k = e - f
          BY <1>2, <3>2, <4>2, <5>1
        <5>3. k <= i
          BY <1>3, <5>1, <5>2
        <5>4. i - k <= Len(u)
          BY <1>3, <5>2
        <5>5. i \in k .. Len(t) + 1
          BY <2>1, <5>1, <5>3
        <5> QED
          BY <5>1, <5>2, <5>4, <5>5
      <4>5. \A m \in 1 .. i - k : u[m] = t[k + m - 1]
        <5>1. i \in k .. Len(t) + 1 /\ i - k <= e - f
          <6>1. i - k \in Int
            BY <2>1, <3>2, <4>4
          <6> QED
            BY <4>4, <6>1
        <5>2. SameUpTo(i)
          BY <3>3, <5>1
        <5> QED
          BY <5>2 DEF SameUpTo
      <4>6. t[i] \notin Numeral
        <5>1. i \in i .. i + 2
          BY <4>4
        <5>2. t[i] = Bar
          BY <4>2, <4>3, <5>1 DEF SplitsAt
        <5> QED
          BY <5>2, Characters
      <4>7. Atoi(u) = Atoi(SubSeq(t, k, Len(t)))
        BY <2>1, <3>2, <4>1, <4>4, <4>5, <4>6, PieceValue
      <4> QED
        BY <1>6, <2>6, <3>2, <4>7 DEF InWord
    <3> QED
      BY <3>4, <3>5
  <2> QED
    BY <1>2, <1>8, <2>3, <2>4, <2>5
<1> QED
  BY <1>2, <1>9, <1>12, <1>13

-----------------------------------------------------------------------------
(* What the handler of a chunk reads.                                      *)

\* The text T, cut after k bytes.
Part(T, k) == SubSeq(T, 1, IF k <= Len(T) THEN k ELSE Len(T))

\* T is the string that stands in S at v.
Stands(S, v, T) ==
    /\ v \in Nat \ {0} /\ T \in Seq(Char)
    /\ \A j \in 1 .. Len(T) : S[v + j - 1] = T[j] /\ T[j] # NUL
    /\ S[v + Len(T)] = NUL

\* A buffer into which the bytes behind a "|||" were copied holds the string
\* that stands there, cut where the message ended if it ended inside.
LEMMA ContentHolds ==
    ASSUME NEW S, NEW v, NEW B, Stands(S, v, B),
           NEW R \in Seq(Char), NEW buffer \in Seq(Char),
           Len(R) + 1 <= Len(buffer), Begins(R, S, v, Len(R))
    PROVE  /\ HoldsString(Overwrite(buffer, R \o <<NUL>>), Part(B, Len(R)))
           /\ Len(Part(B, Len(R))) + 1 <= Len(buffer)
<1> DEFINE s == R \o <<NUL>>
           C == Overwrite(buffer, s)
           k == IF Len(R) <= Len(B) THEN Len(R) ELSE Len(B)
           P == SubSeq(B, 1, k)
<1>1. /\ Len(B) \in Nat /\ B \in Seq(Char) /\ v \in Nat
      /\ \A j \in 1 .. Len(B) : S[v + j - 1] = B[j] /\ B[j] # NUL
      /\ S[v + Len(B)] = NUL
  BY LenProperties DEF Stands
<1>2. Len(R) \in Nat /\ Len(buffer) \in Nat
  BY LenProperties
<1>3. \A j \in 1 .. Len(R) : R[j] = S[v + j - 1]
  BY DEF Begins
<1>4. /\ s \in Seq(Char) /\ Len(s) = Len(R) + 1
      /\ \A j \in 1 .. Len(R) : s[j] = R[j]
      /\ s[Len(R) + 1] = NUL
  BY OneMore, Characters
<1> HIDE DEF s
<1>5. /\ C \in Seq(Char) /\ Len(C) = Len(buffer)
      /\ \A j \in 1 .. Len(buffer) : C[j] = IF j <= Len(s) THEN s[j] ELSE buffer[j]
  BY <1>4, OverwriteIs
<1> HIDE DEF C
<1>6. k \in Nat /\ k <= Len(B) /\ k <= Len(R)
  BY <1>1, <1>2
<1>7. P \in Seq(Char) /\ Len(P) = k /\ \A j \in 1 .. k : P[j] = B[j]
  <2> HIDE DEF k
  <2>1. 1 \in Nat \ {0} /\ 1 <= k + 1
    BY <1>6
  <2>2. /\ SubSeq(B, 1, k) \in Seq(Char) /\ Len(SubSeq(B, 1, k)) = k - 1 + 1
        /\ \A j \in 1 .. k - 1 + 1 : SubSeq(B, 1, k)[j] = B[1 + j - 1]
    BY <1>1, <1>6, <2>1, PieceIs
  <2> QED
    BY <1>6, <2>2
<1> HIDE DEF P
<1>8. ASSUME NEW j \in 1 .. k PROVE C[j] = P[j] /\ P[j] # NUL
  <2>1. j \in Nat /\ j \in 1 .. Len(B) /\ j \in 1 .. Len(R) /\ j >= 1 /\ j <= k
    BY <1>1, <1>2, <1>6
  <2>3. R[j] = B[j] /\ B[j] # NUL
    BY <1>1, <1>3, <2>1
  <2>4. j \in 1 .. Len(buffer) /\ j <= Len(s)
    BY <1>2, <1>4, <2>1
  <2> QED
    BY <1>4, <1>5, <1>7, <2>1, <2>3, <2>4
<1>9. C[k + 1] = NUL /\ k + 1 <= Len(buffer)
  <2>1. CASE Len(R) <= Len(B)
    <3>1. PICK j \in Nat : j = Len(R) + 1
      BY <1>2
    <3>2. j \in 1 .. Len(buffer) /\ j <= Len(s) /\ k + 1 = j
      BY <1>2, <1>4, <2>1, <3>1
    <3> QED
      BY <1>4, <1>5, <3>1, <3>2
  <2>2. CASE ~ (Len(R) <= Len(B))
    <3>1. PICK j \in Nat : j = Len(B) + 1
      BY <1>1
    <3>2. /\ j \in 1 .. Len(buffer) /\ j <= Len(s) /\ k + 1 = j
          /\ j \in 1 .. Len(R) /\ v + j - 1 = v + Len(B)
      BY <1>1, <1>2, <1>4, <2>2, <3>1
    <3>3. R[j] = NUL
      BY <1>1, <1>3, <3>2
    <3> QED
      BY <1>4, <1>5, <3>2, <3>3
  <2> QED
    BY <2>1, <2>2
<1> HIDE DEF k
<1>10. HoldsString(C, P)
  BY <1>2, <1>5, <1>6, <1>7, <1>8, <1>9 DEF HoldsString
<1> QED
  BY <1>7, <1>9, <1>10 DEF Part, C, s, P, k

\* What the handler of r's operation reads in the whole of its body.
LEMMA ReadBack ==
    ASSUME NEW r \in Requests
    PROVE  Fields(r.op, Body(r) \o <<NUL>>) =
              CASE r.op = "login"  -> <<Self, Port>>
                [] r.op = "list"   -> <<Missing, Missing>>
                [] r.op = "exit"   -> <<Self, <<>>>>
                [] OTHER           -> <<Self, r.arg>>
<1> DEFINE P == Body(r)
           b == P \o <<NUL>>
           n == Len(Self)
<1>1. P \in Seq(Char) /\ Len(P) \in Nat /\ \A j \in 1 .. Len(P) : P[j] # NUL
  BY BodyIs, LenProperties
<1>2. /\ r.op \in {"login", "list", "invite", "data", "exit"}
      /\ Self \in Seq(Char) /\ n \in Nat
      /\ \A j \in 1 .. n : Self[j] # Colon /\ Self[j] # NUL
  <2>1. r.op \in DOMAIN Codes
    BY RequestKinds
  <2>2. Self \in Seq(Char) /\ IsPlain(Self)
    BY FramingAssumption
  <2> QED
    BY <2>1, <2>2, CodesAre, LenProperties DEF IsPlain
<1> HIDE DEF P
<1>3. HoldsString(b, P) /\ Len(b) >= Len(P) + 1
  <2>1. /\ b \in Seq(Char) /\ Len(b) = Len(P) + 1
        /\ \A j \in 1 .. Len(P) : b[j] = P[j]
        /\ b[Len(P) + 1] = NUL
    BY <1>1, OneMore, Characters
  <2> HIDE DEF b
  <2> QED
    BY <1>1, <2>1 DEF HoldsString
<1>4. CASE r.op = "list"
  BY <1>4 DEF Fields
\* The first ':' is the one behind the name.
<1>5. ASSUME NEW Q \in Seq(Char), Len(Q) \in Nat, n + 1 <= Len(Q), Q[n + 1] = Colon,
             \A j \in 1 .. n : Q[j] = Self[j]
      PROVE  FirstColon(Q) = n + 1 /\ SubSeq(Q, 1, n) = Self
  <2>1. PICK m \in Nat : m = n + 1
    BY <1>2
  <2>2. FirstAt(Q, Colon, 1, m)
    BY <1>2, <1>5, <2>1 DEF FirstAt
  <2>3. 1 \in 1 .. Len(Q) + 1
    BY <1>2, <1>5
  <2>4. FirstColon(Q) = m
    BY <2>2, <2>3, IndexIs DEF FirstColon
  <2>5. SubSeq(Q, 1, n) = Self
    <3>1. /\ SubSeq(Q, 1, n) \in Seq(Char) /\ Len(SubSeq(Q, 1, n)) = n - 1 + 1
          /\ \A j \in 1 .. n - 1 + 1 : SubSeq(Q, 1, n)[j] = Q[1 + j - 1]
      <4>1. 1 \in Nat \ {0} /\ 1 <= n + 1 /\ n <= Len(Q)
        BY <1>2, <1>5
      <4> QED
        BY <1>2, <4>1, PieceIs
    <3>2. Len(SubSeq(Q, 1, n)) = n /\ \A j \in 1 .. n : SubSeq(Q, 1, n)[j] = Self[j]
      BY <1>2, <1>5, <3>1
    <3> QED
      BY <1>2, <3>1, <3>2, SeqEqual
  <2> QED
    BY <2>1, <2>4, <2>5
<1>6. CASE r.op = "exit"
  <2> DEFINE Q == P \o <<Colon>>
  <2>1. P = Self
    BY <1>6, BodyIs DEF P
  <2>2. /\ Q \in Seq(Char) /\ Len(Q) = n + 1
        /\ \A j \in 1 .. n : Q[j] = Self[j]
        /\ Q[n + 1] = Colon
    BY <1>1, <2>1, OneMore, Characters
  <2> HIDE DEF Q
  <2>3. HoldsString(Q, Q)
    <3>1. ASSUME NEW j \in 1 .. Len(Q) PROVE Q[j] # NUL
      <4>1. j \in 1 .. n \/ j = n + 1
        BY <1>2, <2>2
      <4> QED
        BY <1>2, <2>2, <4>1, Characters
    <3> QED
      BY <1>2, <2>2, <3>1 DEF HoldsString
  <2>4. ReadPair(Q) = <<SubSeq(Q, 1, FirstColon(Q) - 1), SubSeq(Q, FirstColon(Q) + 1, Len(Q))>>
    BY <2>3, PairIs
  <2>5. FirstColon(Q) = n + 1 /\ SubSeq(Q, 1, n) = Self
    BY <1>2, <1>5, <2>2
  <2>6. FirstColon(Q) - 1 = n /\ FirstColon(Q) + 1 = n + 2
    BY <1>2, <2>5
  <2>7. SubSeq(Q, n + 2, n + 1) = <<>>
    <3>1. PICK v \in Nat, w \in Nat : v = n + 2 /\ w = n + 1
      BY <1>2
    <3>2. w < v
      BY <1>2, <3>1
    <3>3. SubSeq(Q, v, w) = <<>>
      BY <2>2, <3>2, SubSeqEmpty
    <3> QED
      BY <3>1, <3>3
  <2>8. ReadLeaver(b, <<>>) = ReadPair(Q)
    BY <1>3, LeaverIs DEF Q
  <2>9. Fields(r.op, b) = ReadLeaver(b, <<>>)
    BY <1>6 DEF Fields
  <2> QED
    BY <1>6, <2>2, <2>4, <2>5, <2>6, <2>7, <2>8, <2>9 DEF P
<1>7. CASE r.op \in {"login", "invite", "data"}
  <2> DEFINE t == Rest(r)
  <2>1. /\ Len(P) = n + 1 + Len(t) /\ t \in Seq(Char) /\ Len(t) \in Nat
        /\ \A i \in 1 .. n : P[i] = Self[i]
        /\ P[n + 1] = Colon
        /\ \A i \in 1 .. Len(t) : P[n + 1 + i] = t[i]
    BY <1>7, BodyIs, RequestKinds, LenProperties DEF P
  <2> HIDE DEF t
  <2>2. n + 1 <= Len(P)
    BY <1>2, <2>1
  <2>3. FirstColon(P) = n + 1 /\ SubSeq(P, 1, n) = Self
    BY <1>1, <1>5, <2>1, <2>2
  <2>4. FirstColon(P) - 1 = n /\ FirstColon(P) + 1 = n + 2
    BY <1>2, <2>3
  <2>5. SubSeq(P, n + 2, Len(P)) = t
    <3>1. PICK v \in Nat : v = n + 2
      BY <1>2
    <3>2. /\ SubSeq(P, v, Len(P)) \in Seq(Char) /\ Len(SubSeq(P, v, Len(P))) = Len(P) - v + 1
          /\ \A j \in 1 .. Len(P) - v + 1 : SubSeq(P, v, Len(P))[j] = P[v + j - 1]
      <4>1. v \in Nat \ {0} /\ v <= Len(P) + 1 /\ Len(P) <= Len(P)
        BY <1>1, <1>2, <2>1, <3>1
      <4> QED
        BY <1>1, <4>1, PieceIs
    <3>3. Len(P) - v + 1 = Len(t)
      BY <1>2, <2>1, <3>1
    <3>4. ASSUME NEW j \in 1 .. Len(t) PROVE SubSeq(P, v, Len(P))[j] = t[j]
      <4>1. v + j - 1 = n + 1 + j
        BY <1>2, <2>1, <3>1
      <4> QED
        BY <2>1, <3>2, <3>3, <4>1
    <3>5. SubSeq(P, v, Len(P)) = t
      BY <2>1, <3>2, <3>3, <3>4, SeqEqual
    <3> QED
      BY <3>1, <3>5
  <2>6. CASE r.op = "login"
    <3>1. t = Port /\ \A j \in 1 .. Len(t) : t[j] # Colon
      <4>1. t = Port
        BY <2>6 DEF t, Rest
      <4>2. IsPlain(Port)
        BY FramingAssumption
      <4> QED
        BY <2>1, <4>1, <4>2 DEF IsPlain
    <3>2. PortEnd(P) = Len(P) + 1
      <4>1. CASE n + 2 > Len(P)
        BY <1>2, <2>1, <2>3, <2>4, <4>1 DEF PortEnd
      <4>2. CASE ~ (n + 2 > Len(P))
        <5>1. PICK v \in Nat, w \in Nat : v = n + 2 /\ w = Len(P) + 1
          BY <1>1, <1>2
        <5>2. v \in 1 .. Len(P) + 1
          BY <1>1, <1>2, <4>2, <5>1
        <5>3. FirstAt(P, Colon, v, w)
          <6>1. w \in v .. Len(P) + 1
            BY <1>1, <1>2, <4>2, <5>1
          <6>2. ASSUME NEW j \in v .. w - 1 PROVE P[j] # Colon
            <7>1. PICK i \in Nat : j = n + 1 + i
              <8>1. j - (n + 1) \in Nat /\ j = n + 1 + (j - (n + 1))
                BY <1>2, <5>1
              <8> QED
                BY <8>1
            <7>2. i \in 1 .. Len(t)
              BY <1>2, <2>1, <5>1, <7>1
            <7> QED
              BY <2>1, <3>1, <7>1, <7>2
          <6> QED
            BY <5>1, <6>1, <6>2 DEF FirstAt
        <5>4. IndexFrom(P, Colon, v) = w
          BY <1>1, <5>2, <5>3, IndexIs
        <5> QED
          BY <2>4, <4>2, <5>1, <5>4 DEF PortEnd
      <4> QED
        BY <4>1, <4>2
    <3>3. ReadUser(b) = <<SubSeq(P, 1, FirstColon(P) - 1), SubSeq(P, FirstColon(P) + 1, PortEnd(P) - 1)>>
      BY <1>3, UserIs
    <3>4. PortEnd(P) - 1 = Len(P)
      BY <1>1, <3>2
    <3>5. Fields(r.op, b) = ReadUser(b)
      BY <2>6 DEF Fields
    <3> QED
      BY <2>3, <2>4, <2>5, <2>6, <3>1, <3>3, <3>4, <3>5 DEF P
  <2>7. CASE r.op = "invite"
    <3>1. ReadPair(b) = <<SubSeq(P, 1, FirstColon(P) - 1), SubSeq(P, FirstColon(P) + 1, Len(P))>>
      BY <1>3, PairIs
    <3>2. Fields(r.op, b) = ReadPair(b) /\ t = r.arg
      BY <2>7 DEF Fields, t, Rest
    <3> QED
      BY <2>3, <2>4, <2>5, <2>7, <3>1, <3>2 DEF P
  <2>8. CASE r.op = "data"
    <3>1. FirstColon(P) <= Len(P)
      BY <2>2, <2>3
    <3>2. ReadData(b) = <<SubSeq(P, 1, FirstColon(P) - 1), SubSeq(P, FirstColon(P) + 1, Len(P))>>
      BY <1>3, <3>1, DataIs
    <3>3. Fields(r.op, b) = ReadData(b) /\ t = r.arg
      BY <2>8 DEF Fields, t, Rest
    <3> QED
      BY <2>3, <2>4, <2>5, <2>8, <3>2, <3>3 DEF P
  <2> QED
    BY <1>7, <2>6, <2>7, <2>8
<1> QED
  BY <1>2, <1>4, <1>6, <1>7

-----------------------------------------------------------------------------
(* What ProcessMsg makes of a chunk of the stream.                         *)

\* Places of a message are numbers.
LEMMA SplitsAreNumbers ==
    ASSUME NEW msg \in Seq(Char)
    PROVE  Splits(msg) \subseteq Nat
BY LenProperties DEF Splits

\* ProcessMsg splits a message at the first "|||", if it has one.
LEMMA ParsedFirst ==
    ASSUME NEW msg \in Seq(Char), NEW buffer, Splits(msg) # {}
    PROVE  \E i \in Splits(msg) :
              /\ \A k \in Splits(msg) : i <= k
              /\ ProcessMsg(msg, buffer).id = Atoi(SubSeq(msg, 1, i - 1))
              /\ ProcessMsg(msg, buffer).content =
                    Overwrite(buffer, SubSeq(msg, i + 3, Len(msg)) \o <<NUL>>)
<1> DEFINE i == CHOOSE j \in Splits(msg) : \A k \in Splits(msg) : j <= k
<1>1. \E j \in Splits(msg) : \A k \in Splits(msg) : j <= k
  BY SplitsAreNumbers, Least
<1>2. i \in Splits(msg) /\ \A k \in Splits(msg) : i <= k
  BY <1>1
<1>3. ProcessMsg(msg, buffer) =
         [id      |-> Atoi(SubSeq(msg, 1, i - 1)),
          content |-> Overwrite(buffer, SubSeq(msg, i + 3, Len(msg)) \o <<NUL>>)]
  BY DEF ProcessMsg
<1> HIDE DEF i
<1> QED
  BY <1>2, <1>3

\* Without one it only marks the end of the content.
LEMMA ParsedNone ==
    ASSUME NEW msg, NEW buffer, Splits(msg) = {}
    PROVE  /\ ProcessMsg(msg, buffer).id = 0
           /\ ProcessMsg(msg, buffer).content = Overwrite(buffer, <<NUL>>)
BY DEF ProcessMsg

\* Whatever the message, the buffer stays a buffer.
LEMMA ParsedContent ==
    ASSUME NEW msg \in Seq(Char), NEW buffer \in Seq(Char)
    PROVE  /\ ProcessMsg(msg, buffer).content \in Seq(Char)
           /\ Len(ProcessMsg(msg, buffer).content) = Len(buffer)
<1>1. CASE Splits(msg) = {}
  <2>1. <<NUL>> \in Seq(Char)
    BY Characters
  <2>2. Overwrite(buffer, <<NUL>>) \in Seq(Char) /\ Len(Overwrite(buffer, <<NUL>>)) = Len(buffer)
    BY <2>1, OverwriteIs
  <2>3. ProcessMsg(msg, buffer).content = Overwrite(buffer, <<NUL>>)
    BY <1>1, ParsedNone
  <2> QED
    BY <2>2, <2>3
<1>2. CASE Splits(msg) # {}
  <2>1. PICK i \in Splits(msg) :
           ProcessMsg(msg, buffer).content =
              Overwrite(buffer, SubSeq(msg, i + 3, Len(msg)) \o <<NUL>>)
    BY <1>2, ParsedFirst
  <2>2. i + 3 \in Nat \ {0} /\ i + 3 <= Len(msg) + 1 /\ Len(msg) \in Nat
    BY LenProperties DEF Splits
  <2>3. SubSeq(msg, i + 3, Len(msg)) \in Seq(Char)
    BY <2>2, PieceIs
  <2>4. PICK s \in Seq(Char) : s = SubSeq(msg, i + 3, Len(msg)) \o <<NUL>>
    BY <2>3, OneMore, Characters
  <2>5. Overwrite(buffer, s) \in Seq(Char) /\ Len(Overwrite(buffer, s)) = Len(buffer)
    BY OverwriteIs
  <2> QED
    BY <2>1, <2>4, <2>5
<1> QED
  BY <1>1, <1>2

\* The first "|||" of S from index a on is at p, and u are the bytes before it.
Found(S, a, p, u) ==
    /\ SplitsAt(S, p) /\ \A k \in a .. p - 1 : ~ SplitsAt(S, k)
    /\ Len(u) = p - a /\ Begins(u, S, a, p - a)

\* ProcessMsg splits the bytes a to b of S at p: it reads the number in u and
\* copies the bytes R.
SplitInto(S, a, b, buffer, p, u, R) ==
    /\ Found(S, a, p, u)
    /\ Len(R) = b - p - 2 /\ Begins(R, S, p + 3, b - p - 2)
    /\ ProcessMsg(SubSeq(S, a, b), buffer).id = Atoi(u)
    /\ ProcessMsg(SubSeq(S, a, b), buffer).content = Overwrite(buffer, R \o <<NUL>>)

\* A message of the stream that has a code is split somewhere in it.
LEMMA ChunkSplit ==
    ASSUME NEW S \in Seq(Char), NEW a \in Nat \ {0}, NEW b \in Nat, a <= b + 1, b <= Len(S),
           NEW buffer, ProcessMsg(SubSeq(S, a, b), buffer).id \in RequestCodes
    PROVE  \E p \in a .. b - 3, u \in Seq(Char), R \in Seq(Char) :
              SplitInto(S, a, b, buffer, p, u, R)
<1> DEFINE msg == SubSeq(S, a, b)
           n == b - a + 1
<1>1. /\ msg \in Seq(Char) /\ Len(msg) = n /\ n \in Nat
      /\ \A i \in 1 .. n : msg[i] = S[a + i - 1]
  BY PieceIs
<1> HIDE DEF msg
<1>2. Splits(msg) # {}
  <2>1. 0 \notin RequestCodes
    BY DEF RequestCodes, Codes
  <2> QED
    BY <2>1, ParsedNone DEF msg
<1>3. PICK i \in Splits(msg) :
         /\ \A k \in Splits(msg) : i <= k
         /\ ProcessMsg(msg, buffer).id = Atoi(SubSeq(msg, 1, i - 1))
         /\ ProcessMsg(msg, buffer).content =
               Overwrite(buffer, SubSeq(msg, i + 3, Len(msg)) \o <<NUL>>)
  BY <1>1, <1>2, ParsedFirst
<1>4. PICK p \in Nat : p = a + i - 1
  <2>1. a + i - 1 \in Nat
    BY <1>1 DEF Splits
  <2> QED
    BY <2>1
<1>5. /\ i \in Nat /\ i >= 1 /\ i <= n - 3 /\ SplitsAt(msg, i)
      /\ p >= a /\ p <= b - 3 /\ p \in a .. b - 3
  <2>1. i \in 1 .. n - 3 /\ SplitsAt(msg, i)
    BY <1>1 DEF Splits
  <2> QED
    BY <1>1, <1>4, <2>1
\* The splits of the message are those of the stream.
<1>6. ASSUME NEW k \in a .. b - 3, NEW j \in Nat, k = a + j - 1
      PROVE  j \in Splits(msg) <=> SplitsAt(S, k)
  <2>1. j >= 1 /\ j <= n - 3
    BY <1>1, <1>6
  <2>2. ASSUME NEW m \in 0 .. 2 PROVE msg[j + m] = S[k + m]
    <3>1. j + m \in 1 .. n /\ a + (j + m) - 1 = k + m
      BY <1>1, <1>6, <2>1
    <3> QED
      BY <1>1, <3>1
  <2>3. SplitsAt(msg, j) <=> \A m \in 0 .. 2 : msg[j + m] = Bar
    <3>1. ASSUME SplitsAt(msg, j), NEW m \in 0 .. 2 PROVE msg[j + m] = Bar
      <4>1. j + m \in j .. j + 2
        OBVIOUS
      <4> QED
        BY <3>1, <4>1 DEF SplitsAt
    <3>2. ASSUME \A m \in 0 .. 2 : msg[j + m] = Bar, NEW v \in j .. j + 2 PROVE msg[v] = Bar
      <4>1. v - j \in 0 .. 2 /\ j + (v - j) = v
        OBVIOUS
      <4> QED
        BY <3>2, <4>1
    <3> QED
      BY <3>1, <3>2 DEF SplitsAt
  <2>4. SplitsAt(S, k) <=> \A m \in 0 .. 2 : S[k + m] = Bar
    <3>1. ASSUME SplitsAt(S, k), NEW m \in 0 .. 2 PROVE S[k + m] = Bar
      <4>1. k + m \in k .. k + 2
        OBVIOUS
      <4> QED
        BY <3>1, <4>1 DEF SplitsAt
    <3>2. ASSUME \A m \in 0 .. 2 : S[k + m] = Bar, NEW v \in k .. k + 2 PROVE S[v] = Bar
      <4>1. v - k \in 0 .. 2 /\ k + (v - k) = v
        OBVIOUS
      <4> QED
        BY <3>2, <4>1
    <3> QED
      BY <3>1, <3>2 DEF SplitsAt
  <2>5. j \in Splits(msg) <=> SplitsAt(msg, j)
    BY <1>1, <2>1 DEF Splits
  <2> QED
    BY <2>2, <2>3, <2>4, <2>5
<1>7. SplitsAt(S, p)
  BY <1>4, <1>5, <1>6
<1>8. ASSUME NEW k \in a .. p - 1 PROVE ~ SplitsAt(S, k)
  <2>1. PICK j \in Nat : k = a + j - 1
    <3>1. k - a + 1 \in Nat /\ k = a + (k - a + 1) - 1
      BY <1>5
    <3> QED
      BY <3>1
  <2>2. k \in a .. b - 3 /\ j < i
    BY <1>4, <1>5, <2>1
  <2>3. j \notin Splits(msg)
    BY <1>3, <1>5, <2>2
  <2> QED
    BY <1>6, <2>1, <2>2, <2>3
<1> DEFINE u == SubSeq(msg, 1, i - 1)
           R == SubSeq(msg, i + 3, Len(msg))
<1>9. u \in Seq(Char) /\ Len(u) = p - a /\ Begins(u, S, a, p - a)
  <2>1. PICK v \in Nat : v = i - 1
    <3>1. i - 1 \in Nat
      BY <1>5
    <3> QED
      BY <3>1
  <2>2. 1 \in Nat \ {0} /\ 1 <= v + 1 /\ v <= Len(msg)
    BY <1>1, <1>5, <2>1
  <2>3. /\ SubSeq(msg, 1, v) \in Seq(Char) /\ Len(SubSeq(msg, 1, v)) = v - 1 + 1
        /\ \A j \in 1 .. v - 1 + 1 : SubSeq(msg, 1, v)[j] = msg[1 + j - 1]
    BY <1>1, <2>2, PieceIs, SMTT(30)
  <2>4. v = p - a /\ v - 1 + 1 = p - a
    BY <1>4, <1>5, <2>1
  <2>5. ASSUME NEW j \in 1 .. p - a PROVE SubSeq(msg, 1, v)[j] = S[a + j - 1]
    <3>1. j \in 1 .. v - 1 + 1 /\ 1 + j - 1 = j /\ j \in 1 .. n
      BY <1>1, <1>5, <2>1, <2>4
    <3> QED
      BY <1>1, <2>3, <3>1
  <2>6. p - a <= p - a
    BY <1>5
  <2> QED
    BY <2>1, <2>3, <2>4, <2>5, <2>6 DEF Begins
<1>10. R \in Seq(Char) /\ Len(R) = b - p - 2 /\ Begins(R, S, p + 3, b - p - 2)
  <2>1. PICK v \in Nat : v = i + 3
    BY <1>5
  <2>2. v \in Nat \ {0} /\ v <= Len(msg) + 1 /\ Len(msg) \in Nat /\ Len(msg) <= Len(msg)
    <3>1. Len(msg) = n /\ n \in Nat
      BY <1>1
    <3>2. v >= 1 /\ v <= n
      BY <1>5, <2>1, <3>1
    <3> QED
      BY <3>1, <3>2
  <2>3. /\ SubSeq(msg, v, Len(msg)) \in Seq(Char)
        /\ Len(SubSeq(msg, v, Len(msg))) = Len(msg) - v + 1
        /\ \A j \in 1 .. Len(msg) - v + 1 : SubSeq(msg, v, Len(msg))[j] = msg[v + j - 1]
    BY <1>1, <2>2, PieceIs
  <2>4. Len(msg) - v + 1 = b - p - 2
    BY <1>1, <1>4, <1>5, <2>1
  <2>5. ASSUME NEW j \in 1 .. b - p - 2 PROVE SubSeq(msg, v, Len(msg))[j] = S[p + 3 + j - 1]
    <3>1. PICK m \in Nat : m = v + j - 1
      <4>1. v + j - 1 \in Nat
        BY <1>5, <2>1
      <4> QED
        BY <4>1
    <3>2. j \in 1 .. Len(msg) - v + 1 /\ m \in 1 .. n /\ a + m - 1 = p + 3 + j - 1
      BY <1>1, <1>4, <1>5, <2>1, <2>4, <3>1
    <3> QED
      BY <1>1, <2>3, <3>1, <3>2
  <2>6. b - p - 2 <= b - p - 2
    BY <1>5
  <2> QED
    BY <2>1, <2>3, <2>4, <2>5, <2>6 DEF Begins
<1> HIDE DEF u, R
<1>11. /\ ProcessMsg(msg, buffer).id = Atoi(u)
       /\ ProcessMsg(msg, buffer).content = Overwrite(buffer, R \o <<NUL>>)
  BY <1>3 DEF u, R
<1> QED
  BY <1>5, <1>7, <1>8, <1>9, <1>10, <1>11 DEF msg, SplitInto, Found

-----------------------------------------------------------------------------
(* Where a message begins, when it makes a handler run.                    *)

\* The bytes of the stream in request n.
LEMMA BytesOfRequest ==
    ASSUME NEW M \in Seq(Requests), NEW n \in 1 .. Len(M)
    PROVE  /\ M[n] \in Requests
           /\ StartOf(M, n) \in Nat /\ StartOf(M, n) >= 1
           /\ Len(Compose(M[n])) = Len(Body(M[n])) + 8 /\ Len(Body(M[n])) \in Nat
           /\ StartOf(M, n) + Len(Compose(M[n])) <= Len(StreamOf(M)) + 1
           /\ Len(StreamOf(M)) \in Nat
           /\ Begins(Compose(M[n]), StreamOf(M), StartOf(M, n), Len(Compose(M[n])))
<1>1. Len(M) \in Nat /\ M[n] \in Requests
  BY LenProperties, ElementOfSeq
<1>2. n \in 1 .. Len(M) + 1 /\ Len(M) + 1 \in 1 .. Len(M) + 1 /\ n < Len(M) + 1
  BY <1>1
<1>3. StartOf(M, n) \in Nat \ {0}
  BY <1>2, RequestsFollow
<1>4. Len(Compose(M[n])) = Len(Body(M[n])) + 8 /\ Len(Body(M[n])) \in Nat
  BY <1>1, ComposeIs
<1>5. StartOf(M, n) + Len(Compose(M[n])) <= StartOf(M, Len(M) + 1)
  BY <1>2, StartsGrow
<1>6. StartOf(M, Len(M) + 1) = Len(StreamOf(M)) + 1 /\ Len(StreamOf(M)) \in Nat
  BY RequestsFollow
<1>7. Begins(Compose(M[n]), StreamOf(M), StartOf(M, n), Len(Compose(M[n])))
  <2>1. \A i \in 1 .. Len(Compose(M[n])) : StreamOf(M)[StartOf(M, n) + i - 1] = Compose(M[n])[i]
    BY RequestsFollow
  <2> QED
    BY <1>4, <2>1 DEF Begins
<1> QED
  BY <1>1, <1>3, <1>4, <1>5, <1>6, <1>7

\* A "|||" of the stream is one of a single request.
LEMMA SplitOfRequest ==
    ASSUME NEW M \in Seq(Requests), NEW n \in 1 .. Len(M), NEW p \in Nat,
           StartOf(M, n) <= p, p < StartOf(M, n) + Len(Compose(M[n])),
           SplitsAt(StreamOf(M), p)
    PROVE  p = StartOf(M, n) + 4 \/ InText(M[n], p - StartOf(M, n) + 1)
<1> DEFINE S == StreamOf(M)
           c == Compose(M[n])
           L == Len(c)
           s == StartOf(M, n)
<1>1. /\ M[n] \in Requests /\ s \in Nat /\ s >= 1 /\ L \in Nat /\ L >= 8
      /\ \A i \in 1 .. L : S[s + i - 1] = c[i]
  BY BytesOfRequest DEF Begins
<1>2. c[L] = NUL
  <2>1. c[Len(Body(M[n])) + 8] = NUL /\ L = Len(Body(M[n])) + 8
    BY <1>1, ComposeIs
  <2> QED
    BY <2>1
<1> HIDE DEF S, c, L, s
<1>3. PICK q \in Nat : q = p - s + 1
  <2>1. p - s + 1 \in Nat
    BY <1>1 DEF s
  <2> QED
    BY <2>1
<1>4. q \in 1 .. L /\ p = s + q - 1
  BY <1>1, <1>3 DEF s, L, c
<1>5. \A m \in 0 .. 2 : S[p + m] = Bar
  <2> TAKE m \in 0 .. 2
  <2>1. p + m \in p .. p + 2
    OBVIOUS
  <2> QED
    BY <2>1 DEF SplitsAt, S
<1>6. ASSUME NEW m \in 0 .. 2, q + m <= L PROVE c[q + m] = Bar
  <2>1. PICK v \in Nat : v = q + m
    OBVIOUS
  <2>2. v \in 1 .. L /\ s + v - 1 = p + m
    BY <1>1, <1>4, <1>6, <2>1
  <2>3. c[v] = S[p + m]
    BY <1>1, <2>2
  <2> QED
    BY <1>5, <2>1, <2>3
<1>7. q + 2 <= L
  <2>1. ASSUME NEW m \in 0 .. 2 PROVE q + m # L
    <3>1. ASSUME q + m = L PROVE FALSE
      <4>1. c[q + m] = Bar
        BY <1>1, <1>6, <3>1
      <4> QED
        BY <1>2, <3>1, <4>1, Characters
    <3> QED
      BY <3>1
  <2>2. q + 0 # L /\ q + 1 # L
    <3>1. 0 \in 0 .. 2 /\ 1 \in 0 .. 2
      OBVIOUS
    <3> QED
      BY <2>1, <3>1
  <2> QED
    BY <1>1, <1>4, <2>2
<1>8. SplitsAt(c, q)
  <2> SUFFICES ASSUME NEW k \in q .. q + 2 PROVE c[k] = Bar
    BY DEF SplitsAt
  <2>1. k - q \in 0 .. 2 /\ q + (k - q) = k /\ k <= L
    BY <1>1, <1>7
  <2> QED
    BY <1>6, <2>1
<1>9. q = 5 \/ InText(M[n], q)
  BY <1>1, <1>4, <1>7, <1>8, SplitInside DEF InText, c, L
<1> QED
  BY <1>1, <1>3, <1>4, <1>9 DEF s

\* Each request has the "|||" of its tag in the stream.
LEMMA TagOfStream ==
    ASSUME NEW M \in Seq(Requests), NEW n \in 1 .. Len(M)
    PROVE  SplitsAt(StreamOf(M), StartOf(M, n) + 4)
<1> DEFINE S == StreamOf(M)
           c == Compose(M[n])
           s == StartOf(M, n)
<1>1. /\ M[n] \in Requests /\ s \in Nat /\ s >= 1 /\ Len(c) \in Nat /\ Len(c) >= 8
      /\ \A i \in 1 .. Len(c) : S[s + i - 1] = c[i]
  BY BytesOfRequest DEF Begins
<1>2. c[5] = Bar /\ c[6] = Bar /\ c[7] = Bar
  BY <1>1, ComposeIs
<1> HIDE DEF S, c, s
<1>3. SUFFICES ASSUME NEW k \in s + 4 .. s + 4 + 2 PROVE S[k] = Bar
  BY DEF SplitsAt, S, s
<1>4. PICK i \in Nat : k = s + i - 1 /\ (i = 5 \/ i = 6 \/ i = 7)
  <2>1. k - s + 1 \in Nat /\ k = s + (k - s + 1) - 1
    BY <1>1, <1>3
  <2>2. k - s + 1 = 5 \/ k - s + 1 = 6 \/ k - s + 1 = 7
    BY <1>1, <1>3
  <2> QED
    BY <2>1, <2>2
<1>5. i \in 1 .. Len(c) /\ c[i] = Bar
  BY <1>1, <1>2, <1>4
<1> QED
  BY <1>1, <1>4, <1>5

\* The operations have different codes.
LEMMA CodesDiffer ==
    ASSUME NEW o \in DOMAIN Codes, NEW p \in DOMAIN Codes, Codes[o] = Codes[p]
    PROVE  o = p
BY DEF Codes

\* Where the n-th request begins, and how long it is.
Lies(M, n, s, L) ==
    /\ M[n] \in Requests
    /\ s = StartOf(M, n) /\ s >= 1
    /\ L = Len(Compose(M[n])) /\ L = Len(Body(M[n])) + 8 /\ Len(Body(M[n])) \in Nat
    /\ s + L <= Len(StreamOf(M)) + 1 /\ Len(StreamOf(M)) \in Nat
    /\ Begins(Compose(M[n]), StreamOf(M), s, L)

\* Each request lies somewhere in the stream.
LEMMA LiesSomewhere ==
    ASSUME NEW M \in Seq(Requests), NEW n \in 1 .. Len(M)
    PROVE  \E s \in Nat, L \in Nat : Lies(M, n, s, L)
<1>1. PICK s \in Nat, L \in Nat : s = StartOf(M, n) /\ L = Len(Compose(M[n]))
  <2>1. StartOf(M, n) \in Nat /\ Len(Compose(M[n])) \in Nat
    BY BytesOfRequest
  <2> QED
    BY <2>1
<1>2. Lies(M, n, s, L)
  BY <1>1, BytesOfRequest DEF Lies
<1> QED
  BY <1>2

\* The first "|||" of a message is not behind the tag of a request that the
\* message has.
LEMMA NotBehindTag ==
    ASSUME NEW M \in Seq(Requests), NEW n \in 1 .. Len(M), NEW s \in Nat, NEW L \in Nat,
           Lies(M, n, s, L), NEW a \in Nat, NEW p \in Nat, NEW u,
           Found(StreamOf(M), a, p, u), a <= s + 4
    PROVE  p <= s + 4
<1>1. SplitsAt(StreamOf(M), s + 4)
  BY TagOfStream DEF Lies
<1>2. ASSUME s + 4 < p PROVE FALSE
  <2>1. s + 4 \in a .. p - 1
    BY <1>2
  <2> QED
    BY <1>1, <2>1 DEF Found
<1> QED
  BY <1>2

\* The bytes before the first "|||", from those of a request.
LEMMA BytesBefore ==
    ASSUME NEW M, NEW n, NEW s \in Nat, NEW L \in Nat, Lies(M, n, s, L),
           NEW a \in Nat, NEW p \in Nat, NEW u, Found(StreamOf(M), a, p, u), a <= p,
           NEW f \in Nat, f >= 1, a = s + f - 1,
           NEW k \in Nat, k <= p - a, f + k <= L + 1
    PROVE  Begins(u, Compose(M[n]), f, k)
<1>1. PICK j \in Nat : j = p - a
  <2>1. p - a \in Nat
    OBVIOUS
  <2> QED
    BY <2>1
<1>2. Begins(u, StreamOf(M), a, j) /\ Len(u) = j
  BY <1>1 DEF Found
<1>3. Begins(Compose(M[n]), StreamOf(M), s, L)
  BY DEF Lies
<1>4. k <= j
  BY <1>1
<1>5. Begins(u, Compose(M[n]), f, k)
  BY <1>2, <1>3, <1>4, SameBytes
<1> QED
  BY <1>5

\* The "|||" at which a message is split ends a tag, or the message begins in the
\* text it is of, behind the tag.
LEMMA SplitIs ==
    ASSUME NEW M \in Seq(Requests), NEW n \in 1 .. Len(M), NEW s \in Nat, NEW L \in Nat,
           Lies(M, n, s, L), NEW a \in Nat, NEW p \in Nat, NEW u,
           Found(StreamOf(M), a, p, u), s <= p, p < s + L
    PROVE  p = s + 4 \/ (a > s + 4 /\ InText(M[n], p - s + 1))
<1> SUFFICES ASSUME p # s + 4 PROVE a > s + 4 /\ InText(M[n], p - s + 1)
  OBVIOUS
<1>1. PICK q \in Nat : q = p - s + 1
  <2>1. p - s + 1 \in Nat
    OBVIOUS
  <2> QED
    BY <2>1
<1>2. InText(M[n], q)
  <2>1. StartOf(M, n) = s /\ Len(Compose(M[n])) = L
    BY DEF Lies
  <2>2. SplitsAt(StreamOf(M), p)
    BY DEF Found
  <2> QED
    BY <1>1, <2>1, <2>2, SplitOfRequest
<1>3. q >= 9
  <2>1. PICK i \in 1 .. Len(M[n].arg) - 2 : q = Len(Self) + 8 + i
    BY <1>2 DEF InText
  <2>2. Len(Self) \in Nat
    BY FramingAssumption, LenProperties
  <2> QED
    BY <2>1, <2>2
<1>4. a > s + 4
  <2>1. ~ (p <= s + 4)
    BY <1>1, <1>3
  <2>2. ~ (a <= s + 4)
    BY <2>1, NotBehindTag
  <2> QED
    BY <2>2
<1> QED
  BY <1>1, <1>2, <1>4

\* When the number before it is a code, the message begins in a name or the text
\* of the same request.
LEMMA TextIsSplit ==
    ASSUME NEW M \in Seq(Requests), NEW n \in 1 .. Len(M), NEW s \in Nat, NEW L \in Nat,
           Lies(M, n, s, L), NEW a \in Nat, NEW p \in Nat, NEW u \in Seq(Char),
           Found(StreamOf(M), a, p, u), a <= p, s <= p, p < s + L,
           Atoi(u) \in RequestCodes, a > s + 4, InText(M[n], p - s + 1)
    PROVE  s + 7 <= a /\ InWord(M[n], Atoi(u))
<1>1. PICK q \in Nat : q = p - s + 1
  <2>1. p - s + 1 \in Nat
    OBVIOUS
  <2> QED
    BY <2>1
<1>2. InText(M[n], q)
  BY <1>1
<1>5. PICK f \in Nat : f = a - s + 1
  <2>1. a - s + 1 \in Nat
    OBVIOUS
  <2> QED
    BY <2>1
<1>6. PICK k \in Nat : k = q - f
  <2>1. q - f \in Nat
    BY <1>1, <1>5
  <2> QED
    BY <2>1
<1>7. f \in 6 .. L /\ q \in f .. L + 1 /\ q # L + 1 /\ a = s + f - 1 /\ k = p - a /\ f + k <= L + 1 /\ f >= 1
  BY <1>1, <1>5, <1>6
<1>8. Begins(u, Compose(M[n]), f, k) /\ Len(u) = k
  <2>1. k <= p - a
    BY <1>7
  <2>2. Begins(u, Compose(M[n]), f, k)
    BY <1>7, <2>1, BytesBefore
  <2>3. Len(u) = p - a
    BY DEF Found
  <2> QED
    BY <1>7, <2>2, <2>3
<1>9. M[n] \in Requests /\ Len(Compose(M[n])) = L
  BY DEF Lies
<1>10. Begins(u, Compose(M[n]), f, k) /\ k = q - f /\ Len(u) = q - f
  BY <1>6, <1>8
<1>11. f >= 8 /\ InWord(M[n], Atoi(u))
  <2>1. f \in 6 .. Len(Compose(M[n])) /\ q \in f .. Len(Compose(M[n])) + 1
    BY <1>7, <1>9
  <2>2. Reaches(M[n], u, f, q)
    BY <1>2, <1>10, <2>1 DEF Reaches
  <2> QED
    BY <1>9, <2>1, <2>2, BodyValue
<1> QED
  BY <1>7, <1>11

\* A message that begins in the tag it ends, begins with it.
LEMMA TagBegins ==
    ASSUME NEW M \in Seq(Requests), NEW n \in 1 .. Len(M), NEW s \in Nat, NEW L \in Nat,
           Lies(M, n, s, L), NEW a \in Nat, NEW u \in Seq(Char),
           Found(StreamOf(M), a, s + 4, u), s <= a, a <= s + 4,
           Atoi(u) \in RequestCodes
    PROVE  a = s /\ Atoi(u) = Codes[M[n].op]
<1>1. PICK f \in Nat, k \in Nat, p \in Nat : f = a - s + 1 /\ k = 5 - f /\ p = s + 4
  <2>1. a - s + 1 \in Nat /\ 5 - (a - s + 1) \in Nat
    OBVIOUS
  <2> QED
    BY <2>1
<1>2. M[n] \in Requests /\ L >= 8
  BY DEF Lies
<1>3. /\ f \in 1 .. 5 /\ f >= 1 /\ a = s + f - 1 /\ a <= p
      /\ k = p - a /\ k <= p - a /\ f + k <= L + 1
  BY <1>1, <1>2
<1>4. Found(StreamOf(M), a, p, u)
  BY <1>1
<1>5. Begins(u, Compose(M[n]), f, k) /\ Len(u) = p - a
  <2>1. Begins(u, Compose(M[n]), f, k)
    BY <1>3, <1>4, BytesBefore
  <2>2. Len(u) = p - a
    BY <1>4 DEF Found
  <2> QED
    BY <2>1, <2>2
<1>6. Len(u) = 5 - f /\ \A i \in 1 .. 5 - f : u[i] = Compose(M[n])[f + i - 1]
  BY <1>1, <1>3, <1>5 DEF Begins
<1>7. IF f = 1 THEN Atoi(u) = Codes[M[n].op] ELSE Atoi(u) \notin RequestCodes
  BY <1>2, <1>3, <1>6, TagValue
<1>8. f = 1 /\ Atoi(u) = Codes[M[n].op]
  BY <1>7
<1> QED
  BY <1>3, <1>8

\* The m-th request has the code in a name, the port or the text, and the bytes
\* from a on may begin there.
WordFrom(M, m, a, code) == StartOf(M, m) + 7 <= a /\ InWord(M[m], code)

\* A message that begins in an earlier request, begins in a word of it that has
\* the code that is read.
LEMMA WordBegins ==
    ASSUME NEW M \in Seq(Requests), NEW n \in 1 .. Len(M), NEW s \in Nat, NEW L \in Nat,
           Lies(M, n, s, L), NEW a \in Nat \ {0}, NEW u \in Seq(Char),
           Found(StreamOf(M), a, s + 4, u), a < s,
           Atoi(u) \in RequestCodes
    PROVE  \E m \in 1 .. n : WordFrom(M, m, a, Atoi(u))
<1>1. Len(M) \in Nat
  BY LenProperties
<1>2. PICK p \in Nat : p = s + 4
  OBVIOUS
<1>3. Found(StreamOf(M), a, p, u)
  BY <1>2
<1>4. a \in 1 .. Len(StreamOf(M))
  BY DEF Lies
<1>5. PICK m \in 1 .. Len(M) : StartOf(M, m) <= a /\ a < StartOf(M, m) + Len(Compose(M[m]))
  BY <1>4, ByteOfRequest
<1>6. PICK w \in Nat, K \in Nat : Lies(M, m, w, K)
  BY LiesSomewhere
<1>7. w <= a /\ a < w + K
  BY <1>5, <1>6 DEF Lies
<1>8. m < n
  <2>1. ASSUME n < m PROVE FALSE
    <3>1. m \in 1 .. Len(M) + 1
      BY <1>1
    <3>2. StartOf(M, n) + Len(Compose(M[n])) <= StartOf(M, m)
      BY <2>1, <3>1, StartsGrow
    <3>3. s + L <= w
      BY <1>6, <3>2 DEF Lies
    <3> QED
      BY <1>7, <3>3
  <2>2. ASSUME m = n PROVE FALSE
    <3>1. w = s
      BY <1>6, <2>2 DEF Lies
    <3> QED
      BY <1>7, <3>1
  <2> QED
    BY <1>1, <2>1, <2>2
<1>9. w + K <= s
  <2>1. n \in 1 .. Len(M) + 1
    BY <1>1
  <2>2. StartOf(M, m) + Len(Compose(M[m])) <= StartOf(M, n)
    BY <1>8, <2>1, StartsGrow
  <2> QED
    BY <1>6, <2>2 DEF Lies
<1>10. a > w + 4
  <2>1. K >= 8
    BY <1>6 DEF Lies
  <2>2. ~ (p <= w + 4)
    BY <1>2, <1>9, <2>1
  <2>3. ~ (a <= w + 4)
    BY <1>3, <1>6, <2>2, NotBehindTag
  <2> QED
    BY <2>3
<1>11. PICK f \in Nat, g \in Nat, k \in Nat : f = a - w + 1 /\ g = K + 1 /\ k = g - f
  <2>1. a - w + 1 \in Nat /\ K + 1 \in Nat /\ (K + 1) - (a - w + 1) \in Nat
    BY <1>7
  <2> QED
    BY <2>1
<1>12. /\ f \in 6 .. K /\ g \in f .. K + 1 /\ a = w + f - 1 /\ a <= p /\ f >= 1
       /\ k <= p - a /\ f + k <= K + 1
  BY <1>2, <1>7, <1>9, <1>10, <1>11
<1>13. Begins(u, Compose(M[m]), f, k)
  BY <1>3, <1>6, <1>12, BytesBefore
<1>14. M[m] \in Requests /\ Len(Compose(M[m])) = K
  BY <1>6 DEF Lies
<1>15. f >= 8 /\ InWord(M[m], Atoi(u))
  <2>1. f \in 6 .. Len(Compose(M[m])) /\ f + k = Len(Compose(M[m])) + 1
    BY <1>11, <1>12, <1>14
  <2>2. g \in f .. Len(Compose(M[m])) + 1 /\ k = g - f /\ g = Len(Compose(M[m])) + 1
    BY <1>11, <1>12, <1>14
  <2>4. Begins(u, Compose(M[m]), f, g - f)
    <3>1. k = g - f
      BY <1>11
    <3> QED
      BY <1>13, <3>1
  <2>3. Reaches(M[m], u, f, g)
    BY <2>2, <2>4 DEF Reaches
  <2> QED
    BY <1>14, <2>1, <2>3, BodyValue
<1>18. StartOf(M, m) + 7 <= a
  <2>1. w + 7 <= a
    BY <1>12, <1>15
  <2> QED
    BY <1>6, <2>1 DEF Lies
<1>19. m \in 1 .. n
  BY <1>8
<1> QED
  BY <1>15, <1>18, <1>19 DEF WordFrom

-----------------------------------------------------------------------------
(* What is known of each handler that ran.                                 *)

\* The message of e has the end of the n-th request's tag: the fields are read in
\* that request's body, and the message begins with the tag, or in a word of an
\* earlier request that has the code.
AtTag(M, e, n) ==
    /\ StartOf(M, n) + 7 <= e.to
    /\ e.fields = Fields(e.op, Part(Body(M[n]), e.to - StartOf(M, n) - 6) \o <<NUL>>)
    /\ \/ e.from = StartOf(M, n) /\ e.op = M[n].op
       \/ e.from < StartOf(M, n) /\ \E m \in 1 .. n : WordFrom(M, m, e.from, Codes[e.op])

\* The message of e begins in a name or the text of the n-th request that has the
\* code, and the fields are read in the end of the text.
InsideText(M, e, n) ==
    /\ StartOf(M, n) + 7 <= e.from /\ WordFrom(M, n, e.from, Codes[e.op])
    /\ M[n].arg \in Texts
    /\ \E t \in Suffixes(M[n].arg) : e.fields \in Cuts(e.op, t)

\* The entry e of did is for the n-th of the requests M: the first "|||" of its
\* message is of that request.
Handled(M, e, n) ==
    /\ n \in 1 .. Len(M) /\ e.op \in DOMAIN Codes
    /\ e.from \in Nat \ {0} /\ e.to \in Nat /\ e.to <= Len(StreamOf(M)) /\ e.from <= e.to
    /\ \E p \in Nat : /\ e.from <= p /\ p + 3 <= e.to
                      /\ StartOf(M, n) <= p /\ p < StartOf(M, n) + Len(Compose(M[n]))
                      /\ SplitsAt(StreamOf(M), p)
                      /\ \A k \in e.from .. p - 1 : ~ SplitsAt(StreamOf(M), k)
    /\ AtTag(M, e, n) \/ InsideText(M, e, n)

\* The body of a request stands behind its tag.
LEMMA BodyStands ==
    ASSUME NEW M, NEW n, NEW s \in Nat, NEW L \in Nat, Lies(M, n, s, L)
    PROVE  Stands(StreamOf(M), s + 7, Body(M[n]))
<1> DEFINE r == M[n]
           S == StreamOf(M)
           B == Body(r)
           c == Compose(r)
<1>1. /\ r \in Requests /\ Len(B) \in Nat /\ L = Len(B) + 8
      /\ \A i \in 1 .. L : c[i] = S[s + i - 1]
  BY DEF Lies, Begins
<1>2. /\ B \in Seq(Char)
      /\ \A j \in 1 .. Len(B) : c[7 + j] = B[j] /\ B[j] # NUL
      /\ c[Len(B) + 8] = NUL
  BY <1>1, ComposeIs, BodyIs
<1> HIDE DEF r, S, B, c
<1>3. ASSUME NEW j \in 1 .. Len(B) PROVE S[(s + 7) + j - 1] = B[j] /\ B[j] # NUL
  <2>1. PICK i \in Nat : i = 7 + j
    <3>1. 7 + j \in Nat
      BY <1>1
    <3> QED
      BY <3>1
  <2>2. i \in 1 .. L /\ s + i - 1 = (s + 7) + j - 1
    BY <1>1, <2>1
  <2> QED
    BY <1>1, <1>2, <2>1, <2>2
<1>4. S[(s + 7) + Len(B)] = NUL
  <2>1. L \in 1 .. L /\ L = Len(B) + 8 /\ s + L - 1 = (s + 7) + Len(B)
    BY <1>1
  <2>2. c[L] = S[s + L - 1]
    BY <1>1, <2>1
  <2> QED
    BY <1>2, <2>1, <2>2
<1> QED
  BY <1>2, <1>3, <1>4 DEF Stands, S, B, r

\* The end of a text stands behind a "|||" in it.
LEMMA TextStands ==
    ASSUME NEW M, NEW n, NEW s \in Nat, NEW L \in Nat, Lies(M, n, s, L),
           NEW p \in Nat, s <= p, InText(M[n], p - s + 1)
    PROVE  M[n].arg \in Texts /\ \E t \in Suffixes(M[n].arg) : Stands(StreamOf(M), p + 3, t)
<1> DEFINE r == M[n]
           S == StreamOf(M)
           B == Body(r)
           T == r.arg
           m == Len(Self)
<1>1. PICK i \in 1 .. Len(T) - 2 : p - s + 1 = m + 8 + i
  BY DEF InText
<1>2. r.op = "data" /\ T \in Texts /\ r \in Requests
  BY DEF InText, Lies
<1>3. Stands(S, s + 7, B)
  BY BodyStands
<1>4. T \in Seq(Char) /\ Len(T) \in Nat /\ m \in Nat
  BY <1>2, FramingAssumption, LenProperties
<1>5. Len(B) = m + 1 + Len(T) /\ \A j \in 1 .. Len(T) : B[m + 1 + j] = T[j]
  <2>1. Rest(r) = T
    BY <1>2 DEF Rest
  <2> QED
    BY <1>2, <2>1, BodyIs
<1>6. /\ \A j \in 1 .. Len(B) : S[(s + 7) + j - 1] = B[j] /\ B[j] # NUL
      /\ S[(s + 7) + Len(B)] = NUL
  BY <1>3 DEF Stands
<1> DEFINE t == SubSeq(T, i + 3, Len(T))
<1>7. t \in Suffixes(T)
  <2>1. CASE i + 3 <= Len(T)
    <3>1. i + 3 \in 1 .. Len(T)
      BY <1>4, <2>1
    <3> QED
      BY <3>1 DEF Suffixes
  <2>2. CASE ~ (i + 3 <= Len(T))
    <3>1. i + 3 > Len(T) /\ i + 3 \in Nat
      BY <1>4, <2>2
    <3>2. t = <<>>
      BY <1>4, <3>1, SubSeqEmpty
    <3> QED
      BY <3>2 DEF Suffixes
  <2> QED
    BY <2>1, <2>2
<1> HIDE DEF r, S, B, m
<1>8. /\ t \in Seq(Char) /\ Len(t) = Len(T) - i - 2
      /\ \A j \in 1 .. Len(T) - i - 2 : t[j] = T[i + j + 2]
  <2>1. PICK a \in Nat \ {0} : a = i + 3
    <3>1. i + 3 \in Nat \ {0}
      BY <1>4
    <3> QED
      BY <3>1
  <2>2. a <= Len(T) + 1 /\ Len(T) <= Len(T)
    BY <1>4, <2>1
  <2>3. /\ SubSeq(T, a, Len(T)) \in Seq(Char) /\ Len(SubSeq(T, a, Len(T))) = Len(T) - a + 1
        /\ \A j \in 1 .. Len(T) - a + 1 : SubSeq(T, a, Len(T))[j] = T[a + j - 1]
    BY <1>4, <2>2, PieceIs
  <2>4. Len(T) - a + 1 = Len(T) - i - 2 /\ \A j \in Nat : a + j - 1 = i + j + 2
    BY <1>4, <2>1
  <2>5. 1 .. Len(T) - i - 2 \subseteq Nat
    OBVIOUS
  <2>6. t = SubSeq(T, a, Len(T))
    BY <2>1
  <2> HIDE DEF t
  <2> QED
    BY <2>3, <2>4, <2>5, <2>6
<1> HIDE DEF t, T
<1>9. ASSUME NEW j \in 1 .. Len(t) PROVE S[(p + 3) + j - 1] = t[j] /\ t[j] # NUL
  <2>1. PICK h \in Nat, k \in Nat : h = i + j + 2 /\ k = m + 1 + h
    <3>1. i + j + 2 \in Nat /\ m + 1 + (i + j + 2) \in Nat
      BY <1>4, <1>8
    <3> QED
      BY <3>1
  <2>2. h \in 1 .. Len(T) /\ k \in 1 .. Len(B) /\ (s + 7) + k - 1 = (p + 3) + j - 1
    <3>1. h \in 1 .. Len(T)
      BY <1>4, <1>8, <2>1
    <3>2. k \in 1 .. Len(B)
      BY <1>4, <1>5, <2>1, <3>1
    <3>3. (s + 7) + k - 1 = (p + 3) + j - 1
      BY <1>1, <1>4, <1>8, <2>1
    <3> QED
      BY <3>1, <3>2, <3>3
  <2>3. S[(s + 7) + k - 1] = B[k] /\ B[k] # NUL /\ B[k] = T[h]
    BY <1>5, <1>6, <2>1, <2>2
  <2>4. t[j] = T[h]
    BY <1>8, <2>1
  <2> QED
    BY <2>2, <2>3, <2>4
<1>10. S[(p + 3) + Len(t)] = NUL
  <2>2. PICK x \in Nat, y \in Nat : x = Len(T) /\ y = Len(t) /\ y = x - i - 2
    <3>1. Len(T) - i - 2 \in Nat
      BY <1>4
    <3> QED
      BY <1>4, <1>8, <3>1
  <2>3. Len(B) = m + 1 + x /\ m \in Nat
    BY <1>4, <1>5, <2>2
  <2>4. i \in Nat /\ p - s + 1 = m + 8 + i
    BY <1>1, <1>4
  <2>1. (s + 7) + Len(B) = (p + 3) + Len(t)
    BY <2>2, <2>3, <2>4
  <2> QED
    BY <1>6, <2>1
<1>11. p + 3 \in Nat \ {0}
  OBVIOUS
<1>12. Stands(S, p + 3, t)
  BY <1>8, <1>9, <1>10, <1>11 DEF Stands
<1> QED
  BY <1>2, <1>7, <1>12 DEF T, S, r

\* What is copied into the buffer from where a string stands, is read as that
\* string, cut if the message ended inside.
LEMMA FieldsRead ==
    ASSUME NEW S, NEW v, NEW T, Stands(S, v, T),
           NEW R \in Seq(Char), NEW buffer \in Seq(Char),
           Len(R) + 1 <= Len(buffer), Begins(R, S, v, Len(R)), NEW op \in DOMAIN Codes
    PROVE  Fields(op, Overwrite(buffer, R \o <<NUL>>)) = Fields(op, Part(T, Len(R)) \o <<NUL>>)
<1> DEFINE C == Overwrite(buffer, R \o <<NUL>>)
           P == Part(T, Len(R))
<1>1. HoldsString(C, P) /\ Len(P) + 1 <= Len(buffer)
  BY ContentHolds
<1>2. Len(C) = Len(buffer) /\ Len(P) \in Nat /\ Len(buffer) \in Nat
  <2>1. R \o <<NUL>> \in Seq(Char)
    BY OneMore, Characters
  <2>2. P \in Seq(Char)
    BY <1>1 DEF HoldsString
  <2>3. Len(C) = Len(buffer)
    BY <2>1, OverwriteIs
  <2> QED
    BY <2>2, <2>3, LenProperties
<1> HIDE DEF C, P
<1>3. Len(C) >= Len(P) + 1
  BY <1>1, <1>2
<1>4. Fields(op, C) = Fields(op, P \o <<NUL>>)
  BY <1>1, <1>3, FieldsOfString
<1> QED
  BY <1>4 DEF C, P

\* Which is a cut of it.
LEMMA PartIsCut ==
    ASSUME NEW op, NEW T \in Seq(Char), NEW k \in Nat
    PROVE  Fields(op, Part(T, k) \o <<NUL>>) \in Cuts(op, T)
<1>1. PICK g \in 0 .. Len(T) : g = IF k <= Len(T) THEN k ELSE Len(T)
  BY LenProperties
<1>2. Part(T, k) = SubSeq(T, 1, g)
  BY <1>1 DEF Part
<1> QED
  BY <1>2 DEF Cuts

\* The end of a text is a text.
LEMMA SuffixIs ==
    ASSUME NEW T \in Seq(Char), NEW t \in Suffixes(T)
    PROVE  t \in Seq(Char)
<1>1. Len(T) \in Nat
  BY LenProperties
<1>2. t = <<>> \/ \E l \in 1 .. Len(T) : t = SubSeq(T, l, Len(T))
  BY DEF Suffixes
<1>3. ASSUME NEW l \in 1 .. Len(T) PROVE SubSeq(T, l, Len(T)) \in Seq(Char)
  <2>1. l \in Nat \ {0} /\ l <= Len(T) + 1 /\ Len(T) <= Len(T)
    BY <1>1
  <2> QED
    BY <1>1, <2>1, PieceIs
<1>4. <<>> \in Seq(Char)
  OBVIOUS
<1>5. CASE t = <<>>
  BY <1>4, <1>5
<1>6. ASSUME NEW l \in 1 .. Len(T), t = SubSeq(T, l, Len(T)) PROVE t \in Seq(Char)
  BY <1>3, <1>6
<1> QED
  BY <1>2, <1>5, <1>6

\* What a handler reads, are fields of a string.
LEMMA HandledReads ==
    ASSUME NEW M \in Seq(Requests), NEW e, NEW n \in 1 .. Len(M), Handled(M, e, n)
    PROVE  e.fields \in UNION {Cuts(op, t) : op \in DOMAIN Codes, t \in Seq(Char)}
<1>1. e.op \in DOMAIN Codes
  BY DEF Handled
<1>2. PICK s \in Nat, L \in Nat : Lies(M, n, s, L)
  BY LiesSomewhere
<1>3. CASE AtTag(M, e, n)
  <2>1. Body(M[n]) \in Seq(Char) /\ s = StartOf(M, n)
    BY <1>2, BodyIs DEF Lies
  <2>2. PICK k \in Nat : k = e.to - s - 6
    <3>1. e.to \in Nat /\ s + 7 <= e.to
      BY <1>3, <2>1 DEF Handled, AtTag
    <3>2. e.to - s - 6 \in Nat
      BY <3>1
    <3> QED
      BY <3>2
  <2>3. e.fields = Fields(e.op, Part(Body(M[n]), k) \o <<NUL>>)
    BY <1>3, <2>1, <2>2 DEF AtTag
  <2>4. e.fields \in Cuts(e.op, Body(M[n]))
    BY <2>1, <2>3, PartIsCut
  <2> QED
    BY <1>1, <2>1, <2>4
<1>4. CASE InsideText(M, e, n)
  <2>1. PICK t \in Suffixes(M[n].arg) : e.fields \in Cuts(e.op, t)
    BY <1>4 DEF InsideText
  <2>2. M[n].arg \in Seq(Char)
    BY <1>4, FramingAssumption DEF InsideText
  <2>3. t \in Seq(Char)
    BY <2>2, SuffixIs
  <2> QED
    BY <1>1, <2>1, <2>3
<1> QED
  BY <1>3, <1>4 DEF Handled

\* What is found before the "|||" at which a message is split.
LEMMA TagFound ==
    ASSUME NEW M \in Seq(Requests), NEW n \in 1 .. Len(M), NEW s \in Nat, NEW L \in Nat,
           Lies(M, n, s, L), NEW a \in Nat \ {0}, NEW u \in Seq(Char),
           Found(StreamOf(M), a, s + 4, u), a <= s + 4,
           NEW op \in DOMAIN Codes, Atoi(u) = Codes[op]
    PROVE  \/ a = s /\ op = M[n].op
           \/ a < s /\ \E m \in 1 .. n : WordFrom(M, m, a, Codes[op])
<1>1. Atoi(u) \in RequestCodes
  BY CodesAre
<1>2. a \in Nat
  OBVIOUS
<1>5. CASE a >= s
  <2>1. s <= a
    BY <1>5
  <2>2. a = s /\ Atoi(u) = Codes[M[n].op]
    BY <1>1, <1>2, <2>1, TagBegins
  <2>3. M[n].op \in DOMAIN Codes
    BY RequestKinds DEF Lies
  <2> QED
    BY <2>2, <2>3, CodesDiffer
<1>6. CASE a < s
  <2>1. \E m \in 1 .. n : WordFrom(M, m, a, Atoi(u))
    BY <1>1, <1>6, WordBegins
  <2> QED
    BY <1>6, <2>1
<1> QED
  BY <1>5, <1>6

\* A handler that runs for a message of the stream, runs for some request.
LEMMA ChunkHandled ==
    ASSUME NEW M \in Seq(Requests), NEW a \in Nat \ {0}, NEW b \in Nat, a <= b + 1,
           b <= Len(StreamOf(M)), NEW buffer \in Seq(Char), b - a + 1 <= Len(buffer),
           NEW op \in DOMAIN Codes, NEW e,
           Codes[op] = ProcessMsg(SubSeq(StreamOf(M), a, b), buffer).id,
           e.op = op, e.from = a, e.to = b,
           e.fields = Fields(op, ProcessMsg(SubSeq(StreamOf(M), a, b), buffer).content)
    PROVE  \E n \in 1 .. Len(M) : Handled(M, e, n)
<1> DEFINE S == StreamOf(M)
<1>1. S \in Seq(Char) /\ Len(S) \in Nat /\ Len(buffer) \in Nat /\ Len(M) \in Nat /\ b <= Len(S)
  BY RequestsFollow, LenProperties
<1>2. Codes[op] \in RequestCodes /\ ProcessMsg(SubSeq(S, a, b), buffer).id \in RequestCodes
  BY CodesAre
<1> HIDE DEF S
<1>3. PICK p \in a .. b - 3, u \in Seq(Char), R \in Seq(Char) : SplitInto(S, a, b, buffer, p, u, R)
  BY <1>1, <1>2, ChunkSplit
<1>4. /\ Found(S, a, p, u) /\ Atoi(u) = Codes[op]
      /\ Len(R) = b - p - 2 /\ Begins(R, S, p + 3, b - p - 2)
      /\ e.fields = Fields(op, Overwrite(buffer, R \o <<NUL>>))
  BY <1>3 DEF SplitInto, S
<1>5. p \in Nat /\ a <= p /\ p <= b - 3 /\ p \in 1 .. Len(S) /\ p + 3 <= b /\ a <= b /\ a \in Nat
  BY <1>1
<1>6. PICK n \in 1 .. Len(M) : StartOf(M, n) <= p /\ p < StartOf(M, n) + Len(Compose(M[n]))
  BY <1>5, ByteOfRequest DEF S
<1>7. PICK s \in Nat, L \in Nat : Lies(M, n, s, L)
  BY LiesSomewhere
<1>8. s <= p /\ p < s + L /\ s = StartOf(M, n) /\ L = Len(Compose(M[n]))
  BY <1>6, <1>7 DEF Lies
<1>9. Len(R) + 1 <= Len(buffer) /\ Begins(R, S, p + 3, Len(R)) /\ Len(R) \in Nat
  <2>1. PICK g \in Nat, h \in Nat : g = Len(buffer) /\ h = b - p - 2
    <3>1. b - p - 2 \in Nat
      BY <1>5
    <3> QED
      BY <1>1, <3>1
  <2>2. h + 1 <= g
    BY <1>5, <2>1
  <2> QED
    BY <1>4, <2>1, <2>2
<1>10. ASSUME NEW T, Stands(S, p + 3, T)
       PROVE  /\ e.fields = Fields(e.op, Part(T, Len(R)) \o <<NUL>>)
              /\ T \in Seq(Char)
  <2>1. Fields(op, Overwrite(buffer, R \o <<NUL>>)) = Fields(op, Part(T, Len(R)) \o <<NUL>>)
    BY <1>9, <1>10, FieldsRead
  <2> QED
    BY <1>4, <1>10, <2>1 DEF Stands
<1>11. SplitsAt(S, p) /\ \A k \in a .. p - 1 : ~ SplitsAt(S, k)
  BY <1>4 DEF Found
<1>12. CASE p = s + 4
  <2>1. Stands(S, p + 3, Body(M[n]))
    <3>1. p + 3 = s + 7
      BY <1>12
    <3> QED
      BY <1>7, <3>1, BodyStands DEF S
  <2>2. e.fields = Fields(e.op, Part(Body(M[n]), e.to - StartOf(M, n) - 6) \o <<NUL>>)
    <3>2. b - p - 2 = b - s - 6
      BY <1>12
    <3>1. Len(R) = e.to - StartOf(M, n) - 6
      BY <1>4, <1>8, <3>2
    <3> QED
      BY <1>10, <2>1, <3>1
  <2>3. \/ a = s /\ op = M[n].op
        \/ a < s /\ \E m \in 1 .. n : WordFrom(M, m, a, Codes[op])
    <3>1. Found(StreamOf(M), a, s + 4, u) /\ a <= s + 4
      BY <1>4, <1>5, <1>12 DEF S
    <3> QED
      BY <1>4, <1>7, <3>1, TagFound
  <2>4. StartOf(M, n) + 7 <= e.to
    BY <1>5, <1>8, <1>12
  <2>5. AtTag(M, e, n)
    BY <1>8, <2>2, <2>3, <2>4 DEF AtTag
  <2> QED
    BY <1>1, <1>5, <1>6, <1>11, <2>5 DEF Handled, S
<1>13. CASE a > s + 4 /\ InText(M[n], p - s + 1)
  <2>1. M[n].arg \in Texts /\ \E t \in Suffixes(M[n].arg) : Stands(S, p + 3, t)
    BY <1>5, <1>7, <1>8, <1>13, TextStands DEF S
  <2>2. PICK t \in Suffixes(M[n].arg) : Stands(S, p + 3, t)
    BY <2>1
  <2>3. e.fields \in Cuts(e.op, t)
    BY <1>9, <1>10, <2>2, PartIsCut
  <2>4. StartOf(M, n) + 7 <= e.from /\ InWord(M[n], Codes[e.op])
    <3>1. Found(StreamOf(M), a, p, u) /\ Atoi(u) \in RequestCodes
      BY <1>2, <1>4 DEF S
    <3>2. s + 7 <= a /\ InWord(M[n], Atoi(u))
      BY <1>5, <1>7, <1>8, <1>13, <3>1, TextIsSplit
    <3> QED
      BY <1>4, <1>8, <3>2
  <2>5. InsideText(M, e, n)
    BY <2>1, <2>2, <2>3, <2>4 DEF InsideText, WordFrom
  <2> QED
    BY <1>1, <1>5, <1>6, <1>11, <2>5 DEF Handled, S
<1>14. p = s + 4 \/ (a > s + 4 /\ InText(M[n], p - s + 1))
  <2>1. Found(StreamOf(M), a, p, u)
    BY <1>4 DEF S
  <2> QED
    BY <1>5, <1>7, <1>8, <2>1, SplitIs
<1> QED
  BY <1>12, <1>13, <1>14

-----------------------------------------------------------------------------
(* The invariant of the steps.                                             *)

\* Another request changes nothing about those before it.
LEMMA HandledGrows ==
    ASSUME NEW M \in Seq(Requests), NEW r \in Requests, NEW e, NEW n, Handled(M, e, n)
    PROVE  Handled(Append(M, r), e, n)
<1> DEFINE A == Append(M, r)
           S == StreamOf(M)
           T == StreamOf(A)
<1>1. /\ A \in Seq(Requests) /\ Len(A) = Len(M) + 1
      /\ \A m \in 1 .. Len(M) : A[m] = M[m]
      /\ \A m \in 1 .. Len(M) + 1 : StartOf(A, m) = StartOf(M, m)
      /\ Len(S) <= Len(T)
      /\ \A i \in 1 .. Len(S) : T[i] = S[i]
  BY StreamGrows
<1>2. Len(M) \in Nat /\ n \in 1 .. Len(M) /\ n \in Nat
  BY LenProperties DEF Handled
<1>3. Len(S) \in Nat /\ Len(T) \in Nat
  BY <1>1, RequestsFollow
<1>4. ASSUME NEW m \in 1 .. n PROVE StartOf(A, m) = StartOf(M, m) /\ A[m] = M[m]
  <2>1. m \in 1 .. Len(M) /\ m \in 1 .. Len(M) + 1
    BY <1>2
  <2> QED
    BY <1>1, <2>1
<1>5. StartOf(A, n) = StartOf(M, n) /\ A[n] = M[n]
  <2>1. n \in 1 .. n
    BY <1>2
  <2> QED
    BY <1>4, <2>1
<1>6. /\ e.op \in DOMAIN Codes
      /\ e.from \in Nat \ {0} /\ e.to \in Nat /\ e.to <= Len(S) /\ e.from <= e.to
  BY DEF Handled
<1>7. PICK p \in Nat : /\ e.from <= p /\ p + 3 <= e.to
                       /\ StartOf(M, n) <= p /\ p < StartOf(M, n) + Len(Compose(M[n]))
                       /\ SplitsAt(S, p)
                       /\ \A k \in e.from .. p - 1 : ~ SplitsAt(S, k)
  BY DEF Handled
<1> HIDE DEF A, S, T
<1>8. ASSUME NEW i \in Nat, i <= p, i >= 1 PROVE SplitsAt(T, i) <=> SplitsAt(S, i)
  <2>1. ASSUME NEW k \in i .. i + 2 PROVE T[k] = S[k]
    <3>1. k \in 1 .. Len(S)
      BY <1>3, <1>6, <1>7, <1>8
    <3> QED
      BY <1>1, <3>1
  <2> QED
    BY <2>1 DEF SplitsAt
<1>9. SplitsAt(T, p)
  <2>1. p <= p /\ p >= 1
    BY <1>6, <1>7
  <2> QED
    BY <1>7, <1>8, <2>1
<1>10. ASSUME NEW k \in e.from .. p - 1 PROVE ~ SplitsAt(T, k)
  <2>1. k \in Nat /\ k <= p /\ k >= 1
    BY <1>6, <1>7
  <2> QED
    BY <1>7, <1>8, <1>10, <2>1
<1>11. n \in 1 .. Len(A) /\ e.to <= Len(T)
  BY <1>1, <1>2, <1>3, <1>6
<1>12. ASSUME NEW m \in 1 .. n, WordFrom(M, m, e.from, Codes[e.op])
       PROVE  WordFrom(A, m, e.from, Codes[e.op])
  BY <1>4, <1>12 DEF WordFrom
<1>13. ASSUME AtTag(M, e, n) PROVE AtTag(A, e, n)
  BY <1>5, <1>12, <1>13 DEF AtTag
<1>14. ASSUME InsideText(M, e, n) PROVE InsideText(A, e, n)
  BY <1>5, <1>14 DEF InsideText, WordFrom
<1>15. AtTag(A, e, n) \/ InsideText(A, e, n)
  BY <1>13, <1>14 DEF Handled
<1> QED
  BY <1>5, <1>6, <1>7, <1>9, <1>10, <1>11, <1>15 DEF Handled, A, T

\* An enumeration of no element, or of one.
LEMMA NoneOrOne ==
    /\ SetToSeq({}) = <<>>
    /\ \A x : SetToSeq({x}) = <<x>>
<1>1. SetToSeq({}) = <<>>
  <2>1. Cardinality({}) = 0
    BY FS_EmptySet
  <2>2. SetToSeq({}) = CHOOSE f \in [1 .. 0 -> {}] : IsInjective(f)
    BY <2>1 DEF SetToSeq
  <2>3. \A f \in [1 .. 0 -> {}] : f = <<>>
    BY SMT
  <2>4. <<>> \in [1 .. 0 -> {}] /\ IsInjective(<<>>)
    BY DEF IsInjective
  <2> QED
    BY <2>2, <2>3, <2>4
<1>2. ASSUME NEW x PROVE SetToSeq({x}) = <<x>>
  <2>1. Cardinality({x}) = 1
    BY FS_Singleton
  <2>2. SetToSeq({x}) = CHOOSE f \in [1 .. 1 -> {x}] : IsInjective(f)
    BY <2>1 DEF SetToSeq
  <2>3. \A f \in [1 .. 1 -> {x}] : f = <<x>>
    BY SMT
  <2>4. <<x>> \in [1 .. 1 -> {x}] /\ IsInjective(<<x>>)
    BY DEF IsInjective
  <2> QED
    BY <2>2, <2>3, <2>4
<1> QED
  BY <1>1, <1>2

\* What handlers read, and what is noted of them.
Readings == UNION {Cuts(op, t) : op \in DOMAIN Codes, t \in Seq(Char)}

Entries == [op : DOMAIN Codes, from : Nat, to : Nat, fields : Readings]

\* What is noted when bytes a to b of S are received.
Ran(S, a, b, buffer) ==
    SetToSeq({[op |-> op, from |-> a, to |-> b,
               fields |-> Fields(op, ProcessMsg(SubSeq(S, a, b), buffer).content)] :
                  op \in {o \in DOMAIN Codes : Codes[o] = ProcessMsg(SubSeq(S, a, b), buffer).id}})

\* At most one handler runs for the bytes received, and it runs for a request.
LEMMA RanIs ==
    ASSUME NEW M \in Seq(Requests), NEW a \in Nat \ {0}, NEW b \in Nat, a <= b + 1,
           b <= Len(StreamOf(M)), NEW buffer \in Seq(Char), b - a + 1 <= Len(buffer)
    PROVE  \/ Ran(StreamOf(M), a, b, buffer) = <<>>
           \/ \E e \in Entries, n \in 1 .. Len(M) :
                 /\ Ran(StreamOf(M), a, b, buffer) = <<e>>
                 /\ Handled(M, e, n) /\ e.from = a /\ e.to = b
<1> DEFINE P == ProcessMsg(SubSeq(StreamOf(M), a, b), buffer)
           ops == {o \in DOMAIN Codes : Codes[o] = P.id}
           x(o) == [op |-> o, from |-> a, to |-> b, fields |-> Fields(o, P.content)]
<1>1. Ran(StreamOf(M), a, b, buffer) = SetToSeq({x(o) : o \in ops})
  BY DEF Ran
<1>2. CASE ops = {}
  <2>1. {x(o) : o \in ops} = {}
    BY <1>2
  <2> QED
    BY <1>1, <2>1, NoneOrOne
<1>3. ASSUME NEW o \in ops
      PROVE  \E e \in Entries, n \in 1 .. Len(M) :
                 /\ Ran(StreamOf(M), a, b, buffer) = <<e>>
                 /\ Handled(M, e, n) /\ e.from = a /\ e.to = b
  <2>1. o \in DOMAIN Codes /\ Codes[o] = P.id
    OBVIOUS
  <2>2. ops = {o}
    BY <2>1, CodesDiffer
  <2>3. {x(y) : y \in ops} = {x(o)}
    BY <2>2
  <2>4. Ran(StreamOf(M), a, b, buffer) = <<x(o)>>
    BY <1>1, <2>3, NoneOrOne
  <2>5. x(o).op = o /\ x(o).from = a /\ x(o).to = b /\ x(o).fields = Fields(o, P.content)
    OBVIOUS
  <2>6. PICK n \in 1 .. Len(M) : Handled(M, x(o), n)
    BY <2>1, <2>5, ChunkHandled
  <2>7. x(o) \in Entries
    <3>1. x(o).fields \in Readings
      BY <2>6, HandledReads DEF Readings
    <3>2. Fields(o, P.content) \in Readings
      BY <2>5, <3>1
    <3> QED
      BY <2>1, <3>2 DEF Entries
  <2> QED
    BY <2>4, <2>5, <2>6, <2>7
<1> QED
  BY <1>2, <1>3

\* The stream of the requests made.
LEMMA StreamIs ==
    ASSUME made \in Seq(Requests)
    PROVE  /\ Stream = StreamOf(made) /\ DOMAIN made = 1 .. Len(made) /\ Len(made) \in Nat
           /\ \A n : Start(n) = StartOf(made, n)
<1>1. DOMAIN made = 1 .. Len(made) /\ Len(made) \in Nat
  BY LenProperties
<1>2. Stream = StreamOf(made)
  BY <1>1 DEF Stream, StreamOf, BytesOf
<1>3. \A n : Start(n) = StartOf(made, n)
  BY DEF Start, StartOf, BytesOf
<1> QED
  BY <1>1, <1>2, <1>3

\* What holds in every state: each handler that ran, ran for a request, and
\* the messages they ran for follow one another in what was received.
Kept ==
    /\ made \in Seq(Requests)
    /\ received \in Nat /\ received <= Len(StreamOf(made))
    /\ content \in Seq(Char) /\ Len(content) = BufferLen

Ordered(D) == \A j, k \in 1 .. Len(D) : j < k => D[j].to < D[k].from

Before(D, c) == \A k \in 1 .. Len(D) : D[k].to <= c

AllHandled(M, D) == \A k \in 1 .. Len(D) : \E n \in 1 .. Len(M) : Handled(M, D[k], n)

Handlings ==
    /\ Kept
    /\ did \in Seq(Entries)
    /\ AllHandled(made, did)
    /\ Before(did, received)
    /\ Ordered(did)

\* A buffer before anything is copied into it.
LEMMA FilledIs ==
    ASSUME NEW b, b = [i \in 1 .. BufferLen |-> "x"]
    PROVE  b \in Seq(Char) /\ Len(b) = BufferLen
<1>1. BufferLen \in Nat \ {0} /\ "x" \in Char
  BY FramingAssumption
<1>2. [i \in 1 .. BufferLen |-> "x"] \in [1 .. BufferLen -> Char]
  BY <1>1
<1>3. b \in Seq(Char)
  BY <1>1, <1>2, SeqDef
<1>4. DOMAIN b = 1 .. Len(b) /\ Len(b) \in Nat /\ DOMAIN b = 1 .. BufferLen
  BY <1>3, LenProperties
<1>5. PICK g \in Nat, h \in Nat : g = Len(b) /\ h = BufferLen
  BY <1>1, <1>4
<1>6. 1 .. g = 1 .. h
  BY <1>4, <1>5
<1>7. g = h
  BY <1>6
<1> QED
  BY <1>3, <1>5, <1>7

\* At the beginning nothing has run.
LEMMA HandlingsInit == FramingInit => Handlings
<1> SUFFICES ASSUME FramingInit PROVE Handlings
  OBVIOUS
<1>1. made = <<>> /\ received = 0 /\ did = <<>> /\ content = [i \in 1 .. BufferLen |-> "x"]
  BY DEF FramingInit
<1>3. content \in Seq(Char) /\ Len(content) = BufferLen
  BY <1>1, FilledIs
<1>4. made \in Seq(Requests) /\ did \in Seq(Entries) /\ Len(did) = 0
  BY <1>1
<1>5. received \in Nat /\ received <= Len(StreamOf(made))
  <2>1. Len(StreamOf(made)) \in Nat
    BY <1>4, RequestsFollow
  <2> QED
    BY <1>1, <2>1
<1>6. AllHandled(made, did) /\ Before(did, received) /\ Ordered(did)
  BY <1>4 DEF AllHandled, Before, Ordered
<1> QED
  BY <1>3, <1>4, <1>5, <1>6 DEF Handlings, Kept

\* A request more changes no handler's.
LEMMA HandlingsMake ==
    ASSUME Handlings, NEW r \in Requests, Make(r)
    PROVE  Handlings'
<1>1. made' = Append(made, r) /\ received' = received /\ content' = content /\ did' = did
  BY DEF Make
<1>2. Kept /\ did \in Seq(Entries) /\ AllHandled(made, did) /\ Before(did, received) /\ Ordered(did)
  BY DEF Handlings
<1>3. /\ made \in Seq(Requests) /\ made' \in Seq(Requests) /\ Len(made') = Len(made) + 1
      /\ Len(StreamOf(made)) <= Len(StreamOf(made'))
  BY <1>1, <1>2, StreamGrows DEF Kept
<1>4. Len(StreamOf(made)) \in Nat /\ Len(StreamOf(made')) \in Nat /\ Len(made) \in Nat
  BY <1>3, RequestsFollow, LenProperties
<1>5. received' \in Nat /\ received' <= Len(StreamOf(made'))
  BY <1>1, <1>2, <1>3, <1>4 DEF Kept
<1>6. AllHandled(made', did')
  <2>1. ASSUME NEW k \in 1 .. Len(did) PROVE \E n \in 1 .. Len(made') : Handled(made', did[k], n)
    <3>1. PICK n \in 1 .. Len(made) : Handled(made, did[k], n)
      BY <1>2 DEF AllHandled
    <3>2. Handled(made', did[k], n)
      BY <1>1, <1>3, <3>1, HandledGrows
    <3>3. n \in 1 .. Len(made')
      BY <1>3, <1>4
    <3> QED
      BY <3>2, <3>3
  <2> QED
    BY <1>1, <2>1 DEF AllHandled
<1>7. Kept'
  BY <1>1, <1>2, <1>3, <1>5 DEF Kept
<1> QED
  BY <1>1, <1>2, <1>6, <1>7 DEF Handlings

\* One more handler, for a message behind the others.
LEMMA OneMoreEntry ==
    ASSUME NEW M \in Seq(Requests), NEW D \in Seq(Entries), NEW c \in Nat, NEW e \in Entries,
           NEW n \in 1 .. Len(M), Handled(M, e, n), e.from > c,
           AllHandled(M, D), Before(D, c), Ordered(D)
    PROVE  /\ Append(D, e) \in Seq(Entries) /\ AllHandled(M, Append(D, e))
           /\ Before(Append(D, e), e.to) /\ Ordered(Append(D, e))
<1> DEFINE A == Append(D, e)
<1>1. /\ A \in Seq(Entries) /\ Len(A) = Len(D) + 1 /\ Len(D) \in Nat
      /\ \A k \in 1 .. Len(D) : A[k] = D[k]
      /\ A[Len(D) + 1] = e
  BY LenProperties, AppendProperties
<1>2. ASSUME NEW k \in 1 .. Len(D)
      PROVE  D[k].to \in Nat /\ D[k].to <= c
  <2>1. D[k] \in Entries
    BY ElementOfSeq
  <2> QED
    BY <2>1 DEF Before, Entries
<1>3. e.from \in Nat /\ e.to \in Nat /\ e.from <= e.to
  BY DEF Handled
<1> HIDE DEF A
<1>4. ASSUME NEW k \in 1 .. Len(A) PROVE k \in 1 .. Len(D) \/ k = Len(D) + 1
  BY <1>1
<1>5. AllHandled(M, A)
  <2>1. ASSUME NEW k \in 1 .. Len(A) PROVE \E m \in 1 .. Len(M) : Handled(M, A[k], m)
    <3>1. CASE k \in 1 .. Len(D)
      BY <1>1, <3>1 DEF AllHandled
    <3>2. CASE k = Len(D) + 1
      BY <1>1, <3>2
    <3> QED
      BY <1>4, <3>1, <3>2
  <2> QED
    BY <2>1 DEF AllHandled
<1>6. Before(A, e.to)
  <2>1. ASSUME NEW k \in 1 .. Len(A) PROVE A[k].to <= e.to
    <3>1. CASE k \in 1 .. Len(D)
      <4>1. A[k].to \in Nat /\ A[k].to <= c
        BY <1>1, <1>2, <3>1
      <4> QED
        BY <1>3, <4>1
    <3>2. CASE k = Len(D) + 1
      BY <1>1, <1>3, <3>2
    <3> QED
      BY <1>4, <3>1, <3>2
  <2> QED
    BY <2>1 DEF Before
<1>7. Ordered(A)
  <2>1. ASSUME NEW j \in 1 .. Len(A), NEW k \in 1 .. Len(A), j < k PROVE A[j].to < A[k].from
    <3>1. j \in 1 .. Len(D)
      BY <1>1, <2>1
    <3>2. CASE k \in 1 .. Len(D)
      BY <1>1, <2>1, <3>1, <3>2 DEF Ordered
    <3>3. CASE k = Len(D) + 1
      <4>1. A[j].to \in Nat /\ A[j].to <= c /\ A[k] = e
        BY <1>1, <1>2, <3>1, <3>3
      <4> QED
        BY <1>3, <4>1
    <3> QED
      BY <1>4, <3>2, <3>3
  <2> QED
    BY <2>1 DEF Ordered
<1> QED
  BY <1>1, <1>5, <1>6, <1>7 DEF A

\* Received bytes are behind those received before, and so is their handler.
LEMMA HandlingsRecv ==
    ASSUME Handlings, NEW size \in 1 .. BufferLen, Recv(size)
    PROVE  Handlings'
<1>1. Kept /\ did \in Seq(Entries) /\ AllHandled(made, did) /\ Before(did, received) /\ Ordered(did)
  BY DEF Handlings
<1>2. PICK a \in Nat \ {0}, b \in Nat : a = received + 1 /\ b = received + size
  <2>1. BufferLen \in Nat
    BY FramingAssumption
  <2>2. received + 1 \in Nat \ {0} /\ received + size \in Nat
    BY <1>1, <2>1 DEF Kept
  <2> QED
    BY <2>2
<1>3. /\ made \in Seq(Requests) /\ Stream = StreamOf(made)
      /\ content \in Seq(Char) /\ Len(content) = BufferLen
      /\ StreamOf(made) \in Seq(Char) /\ Len(StreamOf(made)) \in Nat
  BY <1>1, StreamIs, RequestsFollow DEF Kept
<1>4. /\ b <= Len(StreamOf(made)) /\ made' = made /\ received' = b
      /\ content' = ProcessMsg(SubSeq(StreamOf(made), a, b), content).content
      /\ did' = did \o Ran(StreamOf(made), a, b, content)
  BY <1>2, <1>3 DEF Recv, Ran
<1>5. a <= b + 1 /\ b - a + 1 <= Len(content) /\ a > received /\ received <= b /\ received \in Nat
  <2>1. BufferLen \in Nat /\ received \in Nat
    BY <1>1, FramingAssumption DEF Kept
  <2> QED
    BY <1>2, <1>3, <2>1
<1>6. content' \in Seq(Char) /\ Len(content') = BufferLen
  <2>1. SubSeq(StreamOf(made), a, b) \in Seq(Char)
    BY <1>3, <1>4, <1>5, PieceIs
  <2> QED
    BY <1>3, <1>4, <2>1, ParsedContent
<1>7. Kept'
  BY <1>3, <1>4, <1>6 DEF Kept
<1>8. CASE Ran(StreamOf(made), a, b, content) = <<>>
  <2>1. did' = did
    BY <1>1, <1>4, <1>8
  <2>2. Before(did, b)
    <3>1. ASSUME NEW k \in 1 .. Len(did) PROVE did[k].to <= b
      <4>1. did[k] \in Entries
        BY <1>1, ElementOfSeq
      <4>2. did[k].to \in Nat /\ did[k].to <= received
        BY <1>1, <4>1 DEF Entries, Before
      <4> QED
        BY <1>5, <4>2
    <3> QED
      BY <3>1 DEF Before
  <2> QED
    BY <1>1, <1>4, <1>7, <2>1, <2>2 DEF Handlings
<1>9. ASSUME NEW e \in Entries, NEW n \in 1 .. Len(made),
             Ran(StreamOf(made), a, b, content) = <<e>>,
             Handled(made, e, n), e.from = a, e.to = b
      PROVE  Handlings'
  <2>1. did' = Append(did, e)
    BY <1>1, <1>4, <1>9
  <2>2. /\ Append(did, e) \in Seq(Entries) /\ AllHandled(made, Append(did, e))
        /\ Before(Append(did, e), b) /\ Ordered(Append(did, e))
    BY <1>1, <1>3, <1>5, <1>9, OneMoreEntry
  <2> QED
    BY <1>4, <1>7, <2>1, <2>2 DEF Handlings
<1>10. \/ Ran(StreamOf(made), a, b, content) = <<>>
       \/ \E e \in Entries, n \in 1 .. Len(made) :
             /\ Ran(StreamOf(made), a, b, content) = <<e>>
             /\ Handled(made, e, n) /\ e.from = a /\ e.to = b
  <2>1. b <= Len(StreamOf(made)) /\ a <= b + 1 /\ b - a + 1 <= Len(content)
    BY <1>4, <1>5
  <2> QED
    BY <1>3, <2>1, RanIs
<1> QED
  BY <1>8, <1>9, <1>10

-----------------------------------------------------------------------------
(* What the invariant says of the handlers.                                *)

\* Of two requests, the one whose bytes hold the byte p.
LEMMA OneRequest ==
    ASSUME NEW M \in Seq(Requests), NEW m \in 1 .. Len(M), NEW n \in 1 .. Len(M), NEW p \in Nat,
           StartOf(M, m) <= p, p < StartOf(M, m) + Len(Compose(M[m])),
           StartOf(M, n) <= p, p < StartOf(M, n) + Len(Compose(M[n]))
    PROVE  m = n
<1>1. PICK s \in Nat, K \in Nat : s = StartOf(M, m) /\ K = Len(Compose(M[m])) /\ Lies(M, m, s, K)
  BY LiesSomewhere DEF Lies
<1>2. PICK t \in Nat, L \in Nat : t = StartOf(M, n) /\ L = Len(Compose(M[n])) /\ Lies(M, n, t, L)
  BY LiesSomewhere DEF Lies
<1>3. Len(M) \in Nat /\ m \in Nat /\ n \in Nat
  BY LenProperties
<1>4. s <= p /\ p < s + K /\ t <= p /\ p < t + L
  BY <1>1, <1>2
<1>5. m < n => s + K <= t
  <2> SUFFICES ASSUME m < n PROVE s + K <= t
    OBVIOUS
  <2>1. n \in 1 .. Len(M) + 1
    BY <1>3
  <2> QED
    BY <1>1, <1>2, <2>1, StartsGrow
<1>6. n < m => t + L <= s
  <2> SUFFICES ASSUME n < m PROVE t + L <= s
    OBVIOUS
  <2>1. m \in 1 .. Len(M) + 1
    BY <1>3
  <2> QED
    BY <1>1, <1>2, <2>1, StartsGrow
<1> QED
  BY <1>3, <1>4, <1>5, <1>6

\* The place of the first "|||" of a message that was handled.
LEMMA FirstSplitIs ==
    ASSUME NEW S, NEW a \in Nat, NEW b \in Nat, NEW p \in Nat, a <= p, p <= b, SplitsAt(S, p),
           \A k \in a .. p - 1 : ~ SplitsAt(S, k)
    PROVE  (CHOOSE i \in a .. b : /\ SplitsAt(S, i)
                                  /\ \A k \in a .. i - 1 : ~ SplitsAt(S, k)) = p
<1> DEFINE First(i) == SplitsAt(S, i) /\ \A k \in a .. i - 1 : ~ SplitsAt(S, k)
<1>1. p \in a .. b /\ First(p)
  OBVIOUS
<1>2. ASSUME NEW i \in a .. b, First(i) PROVE i = p
  <2>1. i < p => i \in a .. p - 1
    OBVIOUS
  <2>2. p < i => p \in a .. i - 1
    OBVIOUS
  <2>3. ~ (i < p) /\ ~ (p < i)
    BY <1>1, <1>2, <2>1, <2>2
  <2> QED
    BY <2>3
<1> HIDE DEF First
<1>3. (CHOOSE i \in a .. b : First(i)) = p
  BY <1>1, <1>2
<1> QED
  BY <1>3 DEF First

\* The request a handler ran for, is the one the properties take for it.
LEMMA SourceIs ==
    ASSUME made \in Seq(Requests), NEW e, NEW n \in 1 .. Len(made), Handled(made, e, n)
    PROVE  Source(e) = n
<1>1. /\ Stream = StreamOf(made) /\ DOMAIN made = 1 .. Len(made)
      /\ \A m : Start(m) = StartOf(made, m)
  BY StreamIs
<1>2. PICK s \in Nat, L \in Nat : Lies(made, n, s, L)
  BY LiesSomewhere
<1>4. s = StartOf(made, n) /\ L = Len(Compose(made[n]))
  BY <1>2 DEF Lies
<1>3. PICK p \in Nat : /\ e.from \in Nat /\ e.to \in Nat /\ e.from <= p /\ p <= e.to
                       /\ s <= p /\ p < s + L
                       /\ SplitsAt(Stream, p) /\ \A k \in e.from .. p - 1 : ~ SplitsAt(Stream, k)
  <2>1. PICK p \in Nat : /\ e.from \in Nat /\ e.to \in Nat /\ e.from <= p /\ p + 3 <= e.to
                         /\ s <= p /\ p < s + L
                         /\ SplitsAt(Stream, p) /\ \A k \in e.from .. p - 1 : ~ SplitsAt(Stream, k)
    BY <1>1, <1>4 DEF Handled
  <2>2. p <= e.to
    BY <2>1
  <2> QED
    BY <2>1, <2>2
<1> DEFINE i == CHOOSE x \in e.from .. e.to :
                    /\ SplitsAt(Stream, x)
                    /\ \A k \in e.from .. x - 1 : ~ SplitsAt(Stream, k)
           Holds(m) == Start(m) <= i /\ i < Start(m) + Len(Compose(made[m]))
<1>6. i = p
  BY <1>3, FirstSplitIs
<1> HIDE DEF i
<1>7. Holds(n)
  BY <1>1, <1>3, <1>4, <1>6
<1>8. ASSUME NEW m \in DOMAIN made, Holds(m) PROVE m = n
  <2>1. /\ StartOf(made, m) <= p /\ p < StartOf(made, m) + Len(Compose(made[m]))
        /\ StartOf(made, n) <= p /\ p < StartOf(made, n) + Len(Compose(made[n]))
    BY <1>1, <1>6, <1>7, <1>8
  <2> QED
    BY <1>1, <2>1, OneRequest
<1> HIDE DEF Holds
<1>9. (CHOOSE m \in DOMAIN made : Holds(m)) = n
  BY <1>1, <1>7, <1>8
<1>10. Source(e) = CHOOSE m \in DOMAIN made : Holds(m)
  BY DEF Source, Holds, i
<1> QED
  BY <1>9, <1>10

\* What is known of each entry of did.
LEMMA EntryIs ==
    ASSUME Handlings, NEW k \in DOMAIN did
    PROVE  /\ did[k] \in Entries
           /\ Source(did[k]) \in 1 .. Len(made)
           /\ Handled(made, did[k], Source(did[k]))
<1>1. /\ made \in Seq(Requests) /\ did \in Seq(Entries) /\ AllHandled(made, did)
  BY DEF Handlings, Kept
<1>2. k \in 1 .. Len(did)
  BY <1>1, LenProperties
<1>3. did[k] \in Entries
  BY <1>1, <1>2, ElementOfSeq
<1>4. PICK n \in 1 .. Len(made) : Handled(made, did[k], n)
  BY <1>1, <1>2 DEF AllHandled
<1>5. Source(did[k]) = n
  BY <1>1, <1>4, SourceIs
<1> QED
  BY <1>3, <1>4, <1>5

\* The types.
LEMMA HandlingsType == Handlings => FramingTypeOK
<1> SUFFICES ASSUME Handlings PROVE FramingTypeOK
  OBVIOUS
<1>1. Kept
  BY DEF Handlings
<1>2. Stream = StreamOf(made) /\ Len(StreamOf(made)) \in Nat
  BY <1>1, StreamIs, RequestsFollow DEF Kept
<1>3. received \in 0 .. Len(Stream)
  BY <1>1, <1>2 DEF Kept
<1>4. \A k \in DOMAIN did : did[k].op \in DOMAIN Codes
  BY EntryIs DEF Entries
<1> QED
  BY <1>1, <1>3, <1>4 DEF FramingTypeOK, Kept

\* What a handler reads is in a cut of the body of its request, or of the end of
\* its text.
LEMMA HandlingsFields == Handlings => FieldsOfOneRequest
<1> SUFFICES ASSUME Handlings, NEW k \in DOMAIN did
             PROVE  IF BegunInside(did[k])
                      THEN \E text \in Suffixes(made[Source(did[k])].arg) :
                              did[k].fields \in Cuts(did[k].op, text)
                      ELSE did[k].fields \in Cuts(did[k].op, Body(made[Source(did[k])]))
  BY DEF FieldsOfOneRequest
<1> DEFINE e == did[k]
           n == Source(did[k])
<1>1. made \in Seq(Requests) /\ n \in 1 .. Len(made) /\ Handled(made, e, n)
  BY EntryIs DEF Handlings, Kept
<1>2. PICK s \in Nat, L \in Nat : Lies(made, n, s, L)
  BY <1>1, LiesSomewhere
<1>3. s = StartOf(made, n) /\ Body(made[n]) \in Seq(Char) /\ e.from \in Nat /\ e.to \in Nat
  BY <1>1, <1>2, BodyIs DEF Lies, Handled
<1>4. BegunInside(e) <=> s < e.from
  BY <1>1, <1>3, StreamIs DEF BegunInside
<1> HIDE DEF e, n
<1>5. CASE AtTag(made, e, n)
  <2>1. e.from <= s
    BY <1>3, <1>5 DEF AtTag
  <2>2. PICK h \in Nat : h = e.to - s - 6
    <3>1. s + 7 <= e.to
      BY <1>3, <1>5 DEF AtTag
    <3>2. e.to - s - 6 \in Nat
      BY <1>3, <3>1
    <3> QED
      BY <3>2
  <2>3. e.fields = Fields(e.op, Part(Body(made[n]), h) \o <<NUL>>)
    BY <1>3, <1>5, <2>2 DEF AtTag
  <2>4. e.fields \in Cuts(e.op, Body(made[n]))
    BY <1>3, <2>3, PartIsCut
  <2>5. ~ BegunInside(e)
    BY <1>3, <1>4, <2>1
  <2> QED
    BY <2>4, <2>5 DEF e, n
<1>6. CASE InsideText(made, e, n)
  <2>1. s + 7 <= e.from /\ \E t \in Suffixes(made[n].arg) : e.fields \in Cuts(e.op, t)
    BY <1>3, <1>6 DEF InsideText
  <2>2. BegunInside(e)
    BY <1>3, <1>4, <2>1
  <2> QED
    BY <2>1, <2>2 DEF e, n
<1> QED
  BY <1>1, <1>5, <1>6 DEF Handled

\* Messages that follow one another are split at different places.
LEMMA HandlingsOnce == Handlings => EachRequestOnce
<1> SUFFICES ASSUME Handlings, NEW j \in DOMAIN did, NEW k \in DOMAIN did, j < k
             PROVE  \/ Source(did[j]) < Source(did[k])
                    \/ Source(did[j]) = Source(did[k]) /\ BegunInside(did[k])
  BY DEF EachRequestOnce
<1>1. /\ made \in Seq(Requests) /\ did[j] \in Entries /\ did[k] \in Entries
      /\ Source(did[j]) \in 1 .. Len(made) /\ Handled(made, did[j], Source(did[j]))
      /\ Source(did[k]) \in 1 .. Len(made) /\ Handled(made, did[k], Source(did[k]))
  BY EntryIs DEF Handlings, Kept
<1>2. did[j].to < did[k].from
  <2>1. j \in 1 .. Len(did) /\ k \in 1 .. Len(did)
    BY LenProperties DEF Handlings
  <2> QED
    BY <2>1 DEF Handlings, Ordered
<1> DEFINE m == Source(did[j])
           n == Source(did[k])
<1>3. PICK s \in Nat, K \in Nat : Lies(made, m, s, K)
  BY <1>1, LiesSomewhere
<1>4. PICK t \in Nat, L \in Nat : Lies(made, n, t, L)
  BY <1>1, LiesSomewhere
<1>5. PICK p \in Nat : p + 3 <= did[j].to /\ did[j].to \in Nat /\ s <= p /\ p < s + K
  BY <1>1, <1>3 DEF Lies, Handled
<1>6. PICK q \in Nat : did[k].from <= q /\ did[k].from \in Nat /\ t <= q /\ q < t + L
  BY <1>1, <1>4 DEF Lies, Handled
<1>7. p < q /\ p < did[k].from
  BY <1>2, <1>5, <1>6
<1>8. m \in 1 .. Len(made) /\ n \in 1 .. Len(made) /\ Len(made) \in Nat /\ made \in Seq(Requests)
  BY <1>1, LenProperties
<1>12. BegunInside(did[k]) <=> t < did[k].from
  BY <1>1, <1>4, StreamIs DEF BegunInside, Lies
<1> HIDE DEF m, n
<1>9. ASSUME n < m PROVE FALSE
  <2>1. m \in 1 .. Len(made) + 1
    BY <1>8
  <2>2. StartOf(made, n) + Len(Compose(made[n])) <= StartOf(made, m)
    BY <1>8, <1>9, <2>1, StartsGrow
  <2>3. t + L <= s
    BY <1>3, <1>4, <2>2 DEF Lies
  <2> QED
    BY <1>5, <1>6, <1>7, <2>3
<1>10. ASSUME n = m PROVE BegunInside(did[k])
  <2>1. s = t
    BY <1>3, <1>4, <1>10 DEF Lies
  <2> QED
    BY <1>5, <1>6, <1>7, <1>12, <2>1
<1>11. m < n \/ (m = n /\ BegunInside(did[k]))
  BY <1>8, <1>9, <1>10
<1> QED
  BY <1>11 DEF m, n

\* Where the message of a handler began.
LEMMA HandlingsTag == Handlings => TagIsOfRequest
<1> SUFFICES ASSUME Handlings, NEW k \in DOMAIN did
             PROVE  \/ /\ did[k].from = Start(Source(did[k]))
                       /\ did[k].op = made[Source(did[k])].op
                    \/ \E n \in 1 .. Source(did[k]) :
                         /\ Start(n) + 7 <= did[k].from
                         /\ \E word \in Words(made[n]) :
                              \E t \in Suffixes(word) : Atoi(t) = Codes[did[k].op]
  BY DEF TagIsOfRequest
<1>1. \A n : Start(n) = StartOf(made, n)
  BY StreamIs DEF Handlings, Kept
<1>2. Handled(made, did[k], Source(did[k])) /\ Source(did[k]) \in 1 .. Source(did[k])
  BY EntryIs
<1>3. ASSUME NEW r, NEW v, InWord(r, v)
      PROVE  \E word \in Words(r) : \E t \in Suffixes(word) : Atoi(t) = v
  <2>1. PICK w \in Words(r) : \E g \in 1 .. Len(w) : v = Atoi(SubSeq(w, g, Len(w)))
    BY <1>3 DEF InWord
  <2>2. PICK g \in 1 .. Len(w) : v = Atoi(SubSeq(w, g, Len(w)))
    BY <2>1
  <2>3. SubSeq(w, g, Len(w)) \in Suffixes(w)
    BY DEF Suffixes
  <2> QED
    BY <2>2, <2>3
<1>4. \/ /\ did[k].from = Start(Source(did[k]))
         /\ did[k].op = made[Source(did[k])].op
      \/ \E n \in 1 .. Source(did[k]) : WordFrom(made, n, did[k].from, Codes[did[k].op])
  BY <1>1, <1>2 DEF Handled, AtTag, InsideText
<1> QED
  BY <1>1, <1>3, <1>4 DEF WordFrom

\* A message that begins and ends with its request holds its whole body.
LEMMA HandlingsWhole == Handlings => WholeIsReadBack
<1> SUFFICES ASSUME Handlings, NEW k \in DOMAIN did,
                    did[k].from = Start(Source(did[k])),
                    did[k].to = did[k].from + Len(Compose(made[Source(did[k])])) - 1
             PROVE  did[k].fields =
                      CASE made[Source(did[k])].op = "login"  -> <<Self, Port>>
                        [] made[Source(did[k])].op = "list"   -> <<Missing, Missing>>
                        [] made[Source(did[k])].op = "exit"   -> <<Self, <<>>>>
                        [] OTHER -> <<Self, made[Source(did[k])].arg>>
  BY DEF WholeIsReadBack
<1> DEFINE e == did[k]
           n == Source(did[k])
           r == made[n]
<1>1. /\ made \in Seq(Requests) /\ n \in 1 .. Len(made) /\ Handled(made, e, n)
      /\ e.from = StartOf(made, n) /\ e.to = e.from + Len(Compose(r)) - 1
  BY EntryIs, StreamIs DEF Handlings, Kept
<1>2. PICK s \in Nat, L \in Nat : Lies(made, n, s, L)
  BY <1>1, LiesSomewhere
<1>3. /\ r \in Requests /\ s = StartOf(made, n) /\ Len(Body(r)) \in Nat
      /\ Len(Compose(r)) = Len(Body(r)) + 8
  BY <1>2 DEF Lies
<1>4. AtTag(made, e, n)
  <2>1. ~ (StartOf(made, n) + 7 <= e.from)
    BY <1>1, <1>3
  <2> QED
    BY <1>1, <2>1 DEF Handled, InsideText
<1>5. e.op = r.op /\ e.fields = Fields(e.op, Part(Body(r), e.to - s - 6) \o <<NUL>>)
  <2>1. ~ (e.from < StartOf(made, n))
    BY <1>1, <1>3
  <2> QED
    BY <1>3, <1>4, <2>1 DEF AtTag
<1> HIDE DEF e, n, r
<1>6. PICK h \in Nat : h = e.to - s - 6 /\ h = Len(Body(r)) + 1
  <2>1. e.to - s - 6 = Len(Body(r)) + 1
    BY <1>1, <1>3
  <2> QED
    BY <1>3, <2>1
<1>7. Part(Body(r), h) = Body(r)
  <2>1. Part(Body(r), h) = SubSeq(Body(r), 1, Len(Body(r)))
    BY <1>3, <1>6 DEF Part
  <2>2. Body(r) \in Seq(Char)
    BY <1>3, BodyIs
  <2> QED
    BY <2>1, <2>2, SubSeqFull
<1>8. e.fields = Fields(r.op, Body(r) \o <<NUL>>)
  BY <1>5, <1>6, <1>7
<1>9. e.fields = CASE r.op = "login"  -> <<Self, Port>>
                   [] r.op = "list"   -> <<Missing, Missing>>
                   [] r.op = "exit"   -> <<Self, <<>>>>
                   [] OTHER           -> <<Self, r.arg>>
  BY <1>3, <1>8, ReadBack
<1> QED
  BY <1>9 DEF e, n, r

-----------------------------------------------------------------------------
(* The answers.                                                            *)

\* What is found of the answers: the text that SockProc looks at after an
\* answer without "|||" begins with the end of a string, which is no number.
Answered ==
    /\ answers \in Seq(AnswerKinds)
    /\ kept \in Seq(Char) /\ Len(kept) = BufferLen
    /\ cases \in Seq(SUBSET DOMAIN Results) /\ Len(cases) = Len(answers)
    /\ \A k \in 1 .. Len(answers) : Splits(AnswerBytes(answers[k])) = {} => cases[k] = {}

\* Characters make sequences.
LEMMA Spelled ==
    ASSUME NEW u \in Char, NEW v \in Char, NEW w \in Char,
           NEW x \in Char, NEW y \in Char, NEW z \in Char
    PROVE  <<u, v>> \in Seq(Char) /\ <<u, v, w>> \in Seq(Char) /\ <<u, v, w, x, y, z>> \in Seq(Char)
OBVIOUS

\* An answer is a sequence of characters that fits the buffers.
LEMMA AnswerIs ==
    ASSUME NEW a \in AnswerKinds
    PROVE  /\ AnswerBytes(a) \in Seq(Char) /\ Len(AnswerBytes(a)) \in Nat
           /\ 1 <= Len(AnswerBytes(a)) /\ Len(AnswerBytes(a)) <= BufferLen
<1> DEFINE text == CASE a.op = "ok"    -> <<"O", "K">>
                     [] a.op = "users" -> UserList
                     [] a.op = "data"  -> a.arg
<1>1. NUL \in Char /\ Colon \in Char /\ Digits \subseteq Char /\ {"O", "K", ","} \subseteq Char
  BY Characters, AnswersAssumption
<1>2. <<"O", "K">> \in Seq(Char)
  <2>1. "O" \in Char /\ "K" \in Char
    BY <1>1
  <2> QED
    BY <2>1, Spelled
<1>3. UserList \in Seq(Char)
  <2>1. "0" \in Char /\ "1" \in Char /\ "3" \in Char
    BY <1>1 DEF Digits
  <2>2. <<"1", "0", "0", "1", "3", Colon>> \in Seq(Char) /\ <<Colon, "0", ",">> \in Seq(Char)
    <3>1. "," \in Char
      BY <1>1
    <3> QED
      BY <1>1, <2>1, <3>1, Spelled
  <2>3. Self \in Seq(Char)
    BY FramingAssumption
  <2> QED
    BY <2>2, <2>3, ConcatProperties DEF UserList
<1>4. \/ a.op = "ok"
      \/ a.op = "users"
      \/ a.op = "data" /\ a.arg \in Relayed
  BY DEF AnswerKinds
<1>5. text \in Seq(Char)
  <2>1. CASE a.op = "ok"
    BY <1>2, <2>1
  <2>2. CASE a.op = "users"
    BY <1>3, <2>2
  <2>3. CASE a.op = "data" /\ a.arg \in Relayed
    BY <2>3, AnswersAssumption
  <2> QED
    BY <1>4, <2>1, <2>2, <2>3
<1>6. AnswerBytes(a) = text \o <<NUL>>
  BY DEF AnswerBytes
<1> HIDE DEF text
<1>7. AnswerBytes(a) \in Seq(Char) /\ Len(AnswerBytes(a)) = Len(text) + 1 /\ Len(text) \in Nat
  BY <1>1, <1>5, <1>6, OneMore, LenProperties
<1>8. Len(AnswerBytes(a)) <= BufferLen
  BY AnswersAssumption
<1> QED
  BY <1>7, <1>8

\* A text that begins with the end of a string has no number to be read.
LEMMA NoNumber ==
    ASSUME NEW text \in Seq(Char), Len(text) >= 1, text[1] = NUL, NEW buffer
    PROVE  ProcessMsg(text, buffer).id = 0
<1>1. CASE Splits(text) = {}
  BY <1>1, ParsedNone
<1>2. CASE Splits(text) # {}
  <2>1. PICK i \in Splits(text) : ProcessMsg(text, buffer).id = Atoi(SubSeq(text, 1, i - 1))
    BY <1>2, ParsedFirst
  <2>2. Len(text) \in Nat /\ i \in 1 .. Len(text) - 3
    BY LenProperties DEF Splits
  <2>3. PICK j \in Nat : j = i - 1
    <3>1. i - 1 \in Nat
      BY <2>2
    <3> QED
      BY <3>1
  <2>4. 1 <= j + 1 /\ j <= Len(text) /\ j - 1 + 1 = j
    BY <2>2, <2>3
  <2>5. /\ SubSeq(text, 1, j) \in Seq(Char) /\ Len(SubSeq(text, 1, j)) = j - 1 + 1
        /\ \A m \in 1 .. j - 1 + 1 : SubSeq(text, 1, j)[m] = text[1 + m - 1]
    BY <2>4, PieceIs
  <2>6. SubSeq(text, 1, j) = <<>> \/ SubSeq(text, 1, j)[1] \notin Numeral
    <3>1. CASE j = 0
      BY <3>1, SubSeqEmpty
    <3>2. CASE j >= 1
      <4>1. SubSeq(text, 1, j)[1] = text[1]
        BY <2>4, <2>5, <3>2
      <4> QED
        BY <4>1, Characters
    <3> QED
      BY <3>1, <3>2
  <2>7. Atoi(SubSeq(text, 1, j)) = 0
    BY <2>5, <2>6, AtoiOfNone
  <2> QED
    BY <2>1, <2>3, <2>7
<1> QED
  BY <1>1, <1>2

\* An answer without "|||" reaches no case, whatever the buffer held.
LEMMA NoCase ==
    ASSUME NEW a \in AnswerKinds, NEW buffer \in Seq(Char), Len(buffer) = BufferLen,
           Splits(AnswerBytes(a)) = {}
    PROVE  {r \in DOMAIN Results :
               Results[r] = SockProc(ProcessMsg(AnswerBytes(a), buffer).content,
                                     Len(AnswerBytes(a))).id} = {}
<1> DEFINE msg == AnswerBytes(a)
           C == ProcessMsg(msg, buffer).content
           T == SubSeq(C, 1, Len(msg))
<1>1. msg \in Seq(Char) /\ Len(msg) \in Nat /\ 1 <= Len(msg) /\ Len(msg) <= BufferLen
  BY AnswerIs
<1>2. C = Overwrite(buffer, <<NUL>>)
  BY ParsedNone
<1>3. <<NUL>> \in Seq(Char) /\ Len(<<NUL>>) = 1 /\ <<NUL>>[1] = NUL
  BY Characters
<1>4. C \in Seq(Char) /\ Len(C) = BufferLen /\ C[1] = NUL
  <2>1. BufferLen \in Nat \ {0}
    BY FramingAssumption
  <2>2. 1 \in 1 .. Len(buffer) /\ 1 <= Len(<<NUL>>)
    BY <1>3, <2>1
  <2>3. /\ Overwrite(buffer, <<NUL>>) \in Seq(Char)
        /\ Len(Overwrite(buffer, <<NUL>>)) = Len(buffer)
        /\ Overwrite(buffer, <<NUL>>)[1] = <<NUL>>[1]
    BY <1>3, <2>2, OverwriteIs
  <2> QED
    BY <1>2, <1>3, <2>3
<1> HIDE DEF C, msg
<1>5. PICK g \in Nat : g = Len(msg) /\ 1 <= g /\ g <= Len(C)
  BY <1>1, <1>4
<1>6. /\ SubSeq(C, 1, g) \in Seq(Char) /\ Len(SubSeq(C, 1, g)) = g - 1 + 1
      /\ \A m \in 1 .. g - 1 + 1 : SubSeq(C, 1, g)[m] = C[1 + m - 1]
  BY <1>4, <1>5, PieceIs
<1>7. T \in Seq(Char) /\ Len(T) >= 1 /\ T[1] = NUL
  BY <1>4, <1>5, <1>6
<1> HIDE DEF T
<1>8. ProcessMsg(T, [i \in 1 .. BufferLen |-> "x"]).id = 0
  BY <1>7, NoNumber
<1>9. SockProc(C, Len(msg)).id = 0
  BY <1>8 DEF SockProc, T
<1>10. \A r \in DOMAIN Results : Results[r] # 0
  BY DEF Results
<1> QED
  BY <1>9, <1>10 DEF msg, C

\* At the beginning no answer was received.
LEMMA AnsweredInit == BytesInit => Answered
<1> SUFFICES ASSUME BytesInit PROVE Answered
  OBVIOUS
<1>1. answers = <<>> /\ cases = <<>> /\ kept = [i \in 1 .. BufferLen |-> "x"]
  BY DEF BytesInit
<1>3. kept \in Seq(Char) /\ Len(kept) = BufferLen
  BY <1>1, FilledIs
<1>4. Len(answers) = 0 /\ Len(cases) = 0
  BY <1>1
<1>5. answers \in Seq(AnswerKinds) /\ cases \in Seq(SUBSET DOMAIN Results)
  BY <1>1
<1>6. 1 .. Len(answers) = {}
  BY <1>4
<1> QED
  BY <1>3, <1>4, <1>5, <1>6 DEF Answered

\* An answer more, whose cases are those of its own text.
LEMMA AnsweredReceive ==
    ASSUME Answered, NEW a \in AnswerKinds, Receive(a)
    PROVE  Answered'
<1> DEFINE msg == AnswerBytes(a)
           C == ProcessMsg(msg, kept).content
           K == {r \in DOMAIN Results : Results[r] = SockProc(C, Len(msg)).id}
<1>1. kept' = C /\ cases' = Append(cases, K) /\ answers' = Append(answers, a)
  BY DEF Receive
<1>2. /\ answers \in Seq(AnswerKinds) /\ kept \in Seq(Char) /\ Len(kept) = BufferLen
      /\ cases \in Seq(SUBSET DOMAIN Results) /\ Len(cases) = Len(answers)
      /\ \A k \in 1 .. Len(answers) : Splits(AnswerBytes(answers[k])) = {} => cases[k] = {}
  BY DEF Answered
<1>3. C \in Seq(Char) /\ Len(C) = BufferLen
  BY <1>2, AnswerIs, ParsedContent
<1>4. Splits(msg) = {} => K = {}
  BY <1>2, NoCase
<1>5. K \in SUBSET DOMAIN Results
  OBVIOUS
<1> HIDE DEF msg, C, K
<1>6. /\ answers' \in Seq(AnswerKinds) /\ Len(answers') = Len(answers) + 1
      /\ \A k \in 1 .. Len(answers) : answers'[k] = answers[k]
      /\ answers'[Len(answers) + 1] = a
  BY <1>1, <1>2, AppendProperties
<1>7. /\ cases' \in Seq(SUBSET DOMAIN Results) /\ Len(cases') = Len(cases) + 1
      /\ \A k \in 1 .. Len(cases) : cases'[k] = cases[k]
      /\ cases'[Len(cases) + 1] = K
  BY <1>1, <1>2, <1>5, AppendProperties
<1>8. Len(answers) \in Nat
  BY <1>2, LenProperties
<1>9. ASSUME NEW k \in 1 .. Len(answers'), Splits(AnswerBytes(answers'[k])) = {}
      PROVE  cases'[k] = {}
  <2>1. k \in 1 .. Len(answers) \/ k = Len(answers) + 1
    BY <1>6, <1>8
  <2>2. CASE k \in 1 .. Len(answers)
    <3>1. answers'[k] = answers[k] /\ cases'[k] = cases[k]
      BY <1>2, <1>6, <1>7, <2>2
    <3> QED
      BY <1>2, <1>9, <2>2, <3>1
  <2>3. CASE k = Len(answers) + 1
    <3>1. answers'[k] = a /\ cases'[k] = K
      BY <1>2, <1>6, <1>7, <2>3
    <3> QED
      BY <1>4, <1>9, <3>1 DEF msg
  <2> QED
    BY <2>1, <2>2, <2>3
<1>10. kept' \in Seq(Char) /\ Len(kept') = BufferLen
  BY <1>1, <1>3
<1>11. Len(cases') = Len(answers')
  BY <1>2, <1>6, <1>7
<1> QED
  BY <1>6, <1>7, <1>9, <1>10, <1>11 DEF Answered

-----------------------------------------------------------------------------
(* The theorems.                                                           *)

\* Whatever the client asks for and however recv cuts it, each handler that
\* ran, ran for a request, and for messages that follow one another.
THEOREM HandlersFollowRequests == FramingSpec => []Handlings
<1>1. FramingInit => Handlings
  BY HandlingsInit
<1>2. Handlings /\ [FramingNext]_framingVars => Handlings'
  <2> SUFFICES ASSUME Handlings, [FramingNext]_framingVars PROVE Handlings'
    OBVIOUS
  <2>1. ASSUME NEW r \in Requests, Make(r) PROVE Handlings'
    BY <2>1, HandlingsMake
  <2>2. ASSUME NEW size \in 1 .. BufferLen, Recv(size) PROVE Handlings'
    BY <2>2, HandlingsRecv
  <2>3. CASE UNCHANGED framingVars
    <3>1. made' = made /\ received' = received /\ content' = content /\ did' = did
      BY <2>3 DEF framingVars
    <3> QED
      BY <3>1 DEF Handlings, Kept
  <2> QED
    BY <2>1, <2>2, <2>3 DEF FramingNext
<1> QED
  BY <1>1, <1>2, PTL DEF FramingSpec

\* What the listener of a client does leaves the hub alone.
LEMMA HubSide == BytesSpec => FramingSpec
<1>1. BytesInit => FramingInit
  BY DEF BytesInit
<1>2. [BytesNext]_bytesVars => [FramingNext]_framingVars
  <2> SUFFICES ASSUME [BytesNext]_bytesVars PROVE [FramingNext]_framingVars
    OBVIOUS
  <2>1. ASSUME NEW a \in AnswerKinds, Receive(a) PROVE UNCHANGED framingVars
    BY <2>1 DEF Receive
  <2>2. UNCHANGED bytesVars => UNCHANGED framingVars
    BY DEF bytesVars
  <2> QED
    BY <2>1, <2>2 DEF BytesNext
<1> QED
  BY <1>1, <1>2, PTL DEF BytesSpec, FramingSpec

\* The types of the hub's buffers and of what its handlers did.
THEOREM FramingTypes == BytesSpec => []FramingTypeOK
BY HubSide, HandlersFollowRequests, HandlingsType, PTL

\* The fields a handler reads are of one request, or of the end of one text, of
\* any client and any number of requests, however the stream of its bytes is cut
\* and whatever digits and bars its names and texts have in them.
THEOREM FieldsAreOfOneRequest == BytesSpec => []FieldsOfOneRequest
BY HubSide, HandlersFollowRequests, HandlingsFields, PTL

\* No request is handled after a later one, nor twice, unless the later message
\* begins inside its text.
THEOREM RequestsAreHandledOnce == BytesSpec => []EachRequestOnce
BY HubSide, HandlersFollowRequests, HandlingsOnce, PTL

\* What the hub takes for a tag is the tag of a request, or begins inside a
\* name, a port or a text at digits that are a code.
THEOREM TagsAreOfRequests == BytesSpec => []TagIsOfRequest
BY HubSide, HandlersFollowRequests, HandlingsTag, PTL

\* A request that recv returns by itself is read as it was made.
THEOREM WholeRequestsAreReadBack == BytesSpec => []WholeIsReadBack
BY HubSide, HandlersFollowRequests, HandlingsWhole, PTL

\* The answers without a tag reach no case of SockProc, whatever was received
\* before them.
THEOREM UntaggedAnswersReachNoCase == BytesSpec => []UntaggedReachesNoCase
<1>1. BytesInit => Answered
  BY AnsweredInit
<1>2. Answered /\ [BytesNext]_bytesVars => Answered'
  <2> SUFFICES ASSUME Answered, [BytesNext]_bytesVars PROVE Answered'
    OBVIOUS
  <2>1. ASSUME NEW a \in AnswerKinds, Receive(a) PROVE Answered'
    BY <2>1, AnsweredReceive
  <2>2. ASSUME UNCHANGED answerVars PROVE Answered'
    <3>1. answers' = answers /\ kept' = kept /\ cases' = cases
      BY <2>2 DEF answerVars
    <3> QED
      BY <3>1 DEF Answered
  <2>3. UNCHANGED bytesVars => UNCHANGED answerVars
    BY DEF bytesVars
  <2> QED
    BY <2>1, <2>2, <2>3 DEF BytesNext
<1>3. Answered => UntaggedReachesNoCase
  <2> SUFFICES ASSUME Answered, NEW k \in DOMAIN answers, Splits(AnswerBytes(answers[k])) = {}
               PROVE  cases[k] = {}
    BY DEF UntaggedReachesNoCase
  <2>1. k \in 1 .. Len(answers)
    BY LenProperties DEF Answered
  <2> QED
    BY <2>1 DEF Answered
<1> QED
  BY <1>1, <1>2, <1>3, PTL DEF BytesSpec
=============================================================================
