------------------------ MODULE ClientSessionProofs ------------------------
(***************************************************************************)
(* The hand-over between the application and the sender thread, for every  *)
(* set of messages and any number of requests.                             *)
(*                                                                         *)
(* WireIsTaken is not inductive: that a message is sent whole depends on   *)
(* who may touch the buffer when.  HandOver says it: pending belongs to    *)
(* the application until it raises it and to the sender thread until it    *)
(* clears it, and the buffer goes with it.                                 *)
(***************************************************************************)
EXTENDS ClientSession, SequenceTheorems, TLAPS

\* A request was taken and has not been sent.
Owed == pending /\ thr # "sent"

SentWhole == \A i \in 1 .. Len(net) : net[i] = <<taken[i], taken[i]>>

Ownership ==
    /\ runonce = FALSE
    /\ thr \notin {"unborn", "closing", "ended"}
    /\ thr \in {"sending", "sent"} => pending
    /\ app # "idle" => ~ pending /\ request \in Messages
    /\ app \in {"sizing", "raising"} => buffer = request
    /\ app = "raising" => data_len = request

Balance ==
    /\ ~ Owed => Len(taken) = Len(net)
    /\ Owed => /\ Len(taken) = Len(net) + 1
               /\ buffer = taken[Len(taken)]
               /\ data_len = taken[Len(taken)]

HandOver == SessionTypeOK /\ Ownership /\ Balance /\ SentWhole

-----------------------------------------------------------------------------

LEMMA InitHandOver == SessionInit => HandOver
<1> SUFFICES ASSUME SessionInit PROVE HandOver
  OBVIOUS
<1>1. /\ buffer = Garbage /\ data_len = Garbage /\ request = Garbage
      /\ pending = FALSE /\ runonce = FALSE /\ allocated = TRUE
      /\ thr = "starting" /\ app = "idle" /\ net = <<>> /\ taken = <<>>
  BY DEF SessionInit
<1>2. net \in Seq((Messages \cup {Garbage}) \X (Messages \cup {Garbage})) /\ Len(net) = 0
  BY <1>1
<1>3. taken \in Seq(Messages) /\ Len(taken) = 0
  BY <1>1
<1>4. ThreadTypeOK
  BY <1>1, <1>2 DEF ThreadTypeOK
<1>5. SessionTypeOK
  BY <1>1, <1>3, <1>4 DEF SessionTypeOK
<1>6. Ownership
  BY <1>1 DEF Ownership
<1>7. Balance
  BY <1>1, <1>2, <1>3 DEF Balance, Owed
<1>8. SentWhole
  BY <1>2 DEF SentWhole
<1> QED
  BY <1>5, <1>6, <1>7, <1>8 DEF HandOver

\* The lengths are numbers, and an index of a sequence is below its length.
LEMMA Lengths ==
    ASSUME HandOver
    PROVE  /\ Len(net) \in Nat /\ Len(taken) \in Nat
           /\ Len(net) <= Len(taken) /\ Len(taken) <= Len(net) + 1
BY DEF HandOver, SessionTypeOK, ThreadTypeOK, Balance

\* A step of the sender thread that neither sends nor clears pending.
LEMMA QuietThreadStep ==
    ASSUME HandOver, UNCHANGED <<optVars, net, appVars>>,
           thr' \in {"connecting", "polling", "sending", "failed"},
           thr # "sent", thr' = "sending" => pending
    PROVE  HandOver'
BY DEF HandOver, optVars, appVars, SessionTypeOK, ThreadTypeOK, Ownership,
       Balance, Owed, SentWhole

LEMMA SendStep ==
    ASSUME HandOver, Send, UNCHANGED appVars
    PROVE  HandOver'
<1>1. CASE Fails
  BY <1>1, QuietThreadStep DEF Fails, Send
<1>2. CASE ~ Fails
  <2>1. /\ thr = "sending" /\ thr' = "sent"
        /\ net' = Append(net, <<buffer, data_len>>)
        /\ UNCHANGED <<buffer, data_len, pending, runonce, allocated, app, request, taken>>
    BY <1>2 DEF Send, optVars, appVars
  <2>2. pending /\ Owed /\ ~ Owed'
    BY <2>1 DEF HandOver, Ownership, Owed
  <2>3. /\ Len(taken) = Len(net) + 1
        /\ buffer = taken[Len(taken)] /\ data_len = taken[Len(taken)]
    BY <2>2 DEF HandOver, Balance
  <2>4. /\ net \in Seq((Messages \cup {Garbage}) \X (Messages \cup {Garbage}))
        /\ <<buffer, data_len>> \in (Messages \cup {Garbage}) \X (Messages \cup {Garbage})
    BY DEF HandOver, SessionTypeOK, ThreadTypeOK
  <2>5. /\ net' \in Seq((Messages \cup {Garbage}) \X (Messages \cup {Garbage}))
        /\ Len(net') = Len(net) + 1
        /\ net'[Len(net) + 1] = <<buffer, data_len>>
        /\ \A i \in 1 .. Len(net) : net'[i] = net[i]
    BY <2>1, <2>4
  <2>6. SentWhole'
    <3> SUFFICES ASSUME NEW i \in 1 .. Len(net') PROVE net'[i] = <<taken[i], taken[i]>>
      BY <2>1 DEF SentWhole
    <3>1. CASE i = Len(net) + 1
      BY <2>3, <2>5, <3>1
    <3>2. CASE i # Len(net) + 1
      BY <2>5, <3>2, Lengths DEF HandOver, SentWhole
    <3> QED
      BY <3>1, <3>2
  <2>7. SessionTypeOK'
    BY <2>1, <2>5 DEF HandOver, SessionTypeOK, ThreadTypeOK
  <2>8. Ownership'
    BY <2>1, <2>2 DEF HandOver, Ownership
  <2>9. Balance'
    BY <2>1, <2>2, <2>3, <2>5 DEF Balance
  <2> QED
    BY <2>6, <2>7, <2>8, <2>9 DEF HandOver
<1> QED
  BY <1>1, <1>2

LEMMA ThreadPreserves ==
    ASSUME HandOver, ThreadStep, UNCHANGED appVars
    PROVE  HandOver'
<1>1. CASE Start \/ ConnectPeer \/ SeePending
  BY <1>1, QuietThreadStep DEF Start, ConnectPeer, SeePending, Fails, HandOver, Ownership
<1>2. CASE Send
  BY <1>2, SendStep
<1>3. CASE ClearPending
  BY <1>3 DEF ClearPending, appVars, HandOver, SessionTypeOK, ThreadTypeOK, Ownership,
              Balance, Owed, SentWhole
<1>4. CASE PrintSent
  BY <1>4, QuietThreadStep DEF PrintSent, HandOver, Ownership
<1>5. CASE DeleteBuffer
  BY <1>5 DEF DeleteBuffer, HandOver, Ownership
<1> QED
  BY <1>1, <1>2, <1>3, <1>4, <1>5 DEF ThreadStep

LEMMA AppPreserves ==
    ASSUME HandOver, AppStep
    PROVE  HandOver'
<1> USE DEF HandOver, SessionTypeOK, ThreadTypeOK, Ownership, Balance, Owed, SentWhole
<1>1. ASSUME NEW m \in Messages, Call(m) PROVE HandOver'
  BY <1>1 DEF Call, threadVars, optVars
<1>2. CASE BeginWrite
  BY <1>2 DEF BeginWrite
<1>3. CASE EndWrite
  BY <1>3 DEF EndWrite
<1>4. CASE SetLength
  BY <1>4 DEF SetLength
<1>5. CASE RaisePending
  <2>1. /\ ~ pending /\ pending' = TRUE /\ thr # "sent" /\ request \in Messages
        /\ app' = "idle" /\ request' = Garbage
        /\ buffer = request /\ data_len = request
        /\ UNCHANGED <<buffer, data_len, runonce, allocated, thr, net>>
        /\ taken' = Append(taken, request)
    BY <1>5 DEF RaisePending
  <2>2. /\ taken' \in Seq(Messages) /\ Len(taken') = Len(taken) + 1
        /\ taken'[Len(taken')] = request
        /\ \A i \in 1 .. Len(taken) : taken'[i] = taken[i]
    BY <2>1
  <2>3. Len(taken) = Len(net) /\ Owed'
    BY <2>1
  <2>4. SentWhole'
    BY <2>1, <2>2, <2>3
  <2>5. Balance'
    BY <2>1, <2>2, <2>3
  <2>6. SessionTypeOK' /\ Ownership'
    BY <2>1, <2>2
  <2> QED
    BY <2>4, <2>5, <2>6
<1> QED
  BY <1>1, <1>2, <1>3, <1>4, <1>5 DEF AppStep

LEMMA HandOverStep == HandOver /\ [SessionNext]_sessionVars => HandOver'
<1>1. ASSUME HandOver, UNCHANGED sessionVars PROVE HandOver'
  BY <1>1 DEF sessionVars, threadVars, optVars, appVars, HandOver, SessionTypeOK,
              ThreadTypeOK, Ownership, Balance, Owed, SentWhole
<1> QED
  BY <1>1, ThreadPreserves, AppPreserves DEF SessionNext

\* The buffer and pending are handed back and forth between the application's
\* thread and the sender's as HandOver says.
THEOREM HandOverHolds == SessionSpec => []HandOver
BY InitHandOver, HandOverStep, PTL DEF SessionSpec

\* The types of the session, which leave out a request that is taken without
\* having been written.
THEOREM SessionTypeCorrect == SessionSpec => []SessionTypeOK
<1>1. HandOver => SessionTypeOK
  BY DEF HandOver
<1> QED
  BY <1>1, HandOverHolds, PTL

\* Every request that returned 0, except possibly the last, has been sent
\* whole, once and in order, whatever the two threads' schedule.
THEOREM SessionWireIsTaken == SessionSpec => []WireIsTaken
<1>1. HandOver => WireIsTaken
  BY Lengths DEF HandOver, SentWhole, WireIsTaken
<1> QED
  BY <1>1, HandOverHolds, PTL

\* The application is never inside a request while the thread is sending.
THEOREM SessionNoWriteDuringSend == SessionSpec => []NoWriteDuringSend
<1>1. HandOver => NoWriteDuringSend
  BY DEF HandOver, Ownership, NoWriteDuringSend
<1> QED
  BY <1>1, HandOverHolds, PTL

-----------------------------------------------------------------------------
(***************************************************************************)
(* The session implements the one-slot channel: raising pending puts a     *)
(* message in, send delivers it, and the thread's early end breaks it.     *)
(***************************************************************************)
Delivered == [i \in DOMAIN net |-> net[i][1]]

LEMMA AppendAsFunction ==
    ASSUME NEW S, NEW s \in Seq(S), NEW e \in S
    PROVE  Append(s, e) = [i \in 1 .. Len(s) + 1 |-> IF i = Len(s) + 1 THEN e ELSE s[i]]
<1> DEFINE f == [i \in 1 .. Len(s) + 1 |-> IF i = Len(s) + 1 THEN e ELSE s[i]]
<1>1. /\ Append(s, e) \in Seq(S) /\ Len(Append(s, e)) = Len(s) + 1
      /\ Append(s, e)[Len(s) + 1] = e
      /\ \A i \in 1 .. Len(s) : Append(s, e)[i] = s[i]
  BY AppendProperties
<1>2. /\ DOMAIN Append(s, e) = 1 .. Len(s) + 1
      /\ Append(s, e) = [i \in DOMAIN Append(s, e) |-> Append(s, e)[i]]
  <2>1. \A t \in Seq(S) : DOMAIN t = 1 .. Len(t) /\ t = [i \in DOMAIN t |-> t[i]]
    OBVIOUS
  <2> QED
    BY <1>1, <2>1
<1>3. \A i \in 1 .. Len(s) + 1 : Append(s, e)[i] = f[i]
  BY <1>1
<1> HIDE DEF f
<1>4. f = [i \in 1 .. Len(s) + 1 |-> f[i]]
  BY DEF f
<1> QED
  BY <1>2, <1>3, <1>4 DEF f

LEMMA DeliveredLength ==
    ASSUME HandOver
    PROVE  Delivered \in Seq(Messages \cup {Garbage}) /\ Len(Delivered) = Len(net)
<1>1. net \in Seq((Messages \cup {Garbage}) \X (Messages \cup {Garbage}))
  BY DEF HandOver, SessionTypeOK, ThreadTypeOK
<1>2. Len(net) \in Nat /\ DOMAIN net = 1 .. Len(net)
  BY <1>1
<1>3. \A i \in 1 .. Len(net) : net[i][1] \in Messages \cup {Garbage}
  BY <1>1, <1>2
<1> QED
  BY <1>2, <1>3 DEF Delivered

LEMMA InitChannel == SessionInit => Channel!ChannelInit
<1> SUFFICES ASSUME SessionInit PROVE Delivered = <<>>
  BY DEF SessionInit, Channel!ChannelInit, Delivered
<1>1. net = <<>>
  BY DEF SessionInit
<1> QED
  BY <1>1 DEF Delivered

LEMMA SendDelivers ==
    ASSUME HandOver, HandOver', Send, ~ Fails, UNCHANGED appVars
    PROVE  Channel!Deliver
<1>1. /\ thr = "sending" /\ thr' = "sent" /\ taken' = taken
      /\ net' = Append(net, <<buffer, data_len>>)
  BY DEF Send, appVars
<1>2. Len(taken) = Len(net) + 1 /\ buffer = taken[Len(taken)]
  BY <1>1 DEF HandOver, Ownership, Balance, Owed
<1>3. /\ net \in Seq((Messages \cup {Garbage}) \X (Messages \cup {Garbage}))
      /\ <<buffer, data_len>> \in (Messages \cup {Garbage}) \X (Messages \cup {Garbage})
  BY DEF HandOver, SessionTypeOK, ThreadTypeOK
<1>4. /\ Len(net) \in Nat /\ DOMAIN net = 1 .. Len(net)
      /\ DOMAIN net' = 1 .. Len(net) + 1
      /\ net'[Len(net) + 1] = <<buffer, data_len>>
      /\ \A i \in 1 .. Len(net) : net'[i] = net[i]
  BY <1>1, <1>3
<1>5. Delivered' = Append(Delivered, buffer)
  <2> DEFINE longer == [i \in 1 .. Len(net) + 1 |->
                           IF i = Len(net) + 1 THEN buffer ELSE Delivered[i]]
  <2>1. Append(Delivered, buffer) = longer
    <3>1. buffer \in Messages \cup {Garbage}
      BY DEF HandOver, SessionTypeOK, ThreadTypeOK
    <3> QED
      BY <3>1, <1>4, DeliveredLength, AppendAsFunction
  <2>2. Delivered' = [i \in 1 .. Len(net) + 1 |-> net'[i][1]]
    BY <1>4 DEF Delivered
  <2>3. ASSUME NEW i \in 1 .. Len(net) + 1
        PROVE  net'[i][1] = IF i = Len(net) + 1 THEN buffer ELSE Delivered[i]
    BY <1>4 DEF Delivered
  <2> QED
    BY <2>1, <2>2, <2>3
<1>6. Len(taken) # Len(Delivered)
  BY <1>2, <1>4, DeliveredLength
<1>7. Delivered' = Append(Delivered, taken[Len(taken)])
  BY <1>2, <1>5
<1>8. thr # "failed" /\ thr' # "failed"
  BY <1>1
<1>9. (thr = "failed")' = (thr = "failed")
  BY <1>8
<1> QED
  BY <1>1, <1>6, <1>7, <1>8, <1>9 DEF Channel!Deliver, Channel!Empty, Delivered

LEMMA StepChannel ==
    HandOver /\ HandOver' /\ [SessionNext]_sessionVars
        => [Channel!ChannelNext]_Channel!channelVars
<1> USE DEF Channel!channelVars
<1>1. ASSUME UNCHANGED <<taken, net, thr>> PROVE UNCHANGED Channel!channelVars
  BY <1>1
<1>2. ASSUME Fails, UNCHANGED appVars PROVE Channel!Break
  BY <1>2 DEF Fails, appVars, Channel!Break
<1>3. ASSUME HandOver, UNCHANGED <<taken, net>>, thr # "failed", thr' # "failed"
      PROVE  UNCHANGED Channel!channelVars
  BY <1>3
<1>4. ASSUME HandOver, HandOver', ThreadStep, UNCHANGED appVars
      PROVE  [Channel!ChannelNext]_Channel!channelVars
  <2>1. CASE Fails
    BY <2>1, <1>2, <1>4 DEF Channel!ChannelNext
  <2>2. CASE Send /\ ~ Fails
    BY <2>2, <1>4, SendDelivers DEF Channel!ChannelNext
  <2>3. CASE ~ Fails /\ ~ Send
    BY <2>3, <1>3, <1>4 DEF ThreadStep, Start, ConnectPeer, SeePending, ClearPending,
       PrintSent, DeleteBuffer, appVars
  <2> QED
    BY <2>1, <2>2, <2>3
<1>5. ASSUME HandOver, RaisePending PROVE Channel!Put(request) /\ request \in Messages
  <2>1. /\ Len(taken) = Len(net) /\ request \in Messages
        /\ taken' = Append(taken, request) /\ UNCHANGED <<thr, net>>
    BY <1>5 DEF HandOver, Ownership, Balance, Owed, RaisePending
  <2> QED
    BY <1>5, <2>1, DeliveredLength DEF Channel!Put, Channel!Empty, Delivered
<1>6. ASSUME HandOver, AppStep PROVE [Channel!ChannelNext]_Channel!channelVars
  <2>1. CASE RaisePending
    BY <2>1, <1>5, <1>6 DEF Channel!ChannelNext
  <2>2. CASE ~ RaisePending
    BY <2>2, <1>1, <1>6 DEF AppStep, Call, BeginWrite, EndWrite, SetLength, threadVars
  <2> QED
    BY <2>1, <2>2
<1>7. ASSUME UNCHANGED sessionVars PROVE UNCHANGED Channel!channelVars
  BY <1>1, <1>7 DEF sessionVars, threadVars, appVars
<1> QED
  BY <1>4, <1>6, <1>7 DEF SessionNext

\* A session is a one-slot channel for every set of messages: a request that
\* returned 0 leaves before the next one is accepted, and nothing leaves a
\* session whose sender thread has ended.
THEOREM SessionImplementsChannel == SessionSpec => ImplementsChannel
<1>1. SessionSpec => []HandOver
  BY HandOverHolds
<1> QED
  BY <1>1, InitChannel, StepChannel, PTL
     DEF SessionSpec, ImplementsChannel, Channel!ChannelSpec
=============================================================================
