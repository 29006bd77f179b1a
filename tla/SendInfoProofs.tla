--------------------------- MODULE SendInfoProofs ---------------------------
(***************************************************************************)
(* SendInfo and its thread, for every set of contents and any number of    *)
(* calls.  Neither ContentOnlyOnce nor OkMeansSent is inductive: what the  *)
(* racing SendData may do depends on how far the thread is.  Course ties   *)
(* the two together: SendData gets past its test only after the thread     *)
(* cleared pending, and by then the content has left.                      *)
(***************************************************************************)
EXTENDS SendInfo, SequenceTheorems, TLAPS

\* The content of the last call.
Content == calls[Len(calls)]

Unsent == net = <<>> /\ pending /\ buffer = Content /\ data_len = Content

SentOnce == net = <<<<Content, Content>>>>

\* Where the thread of the present call is says what was sent of its content.
Course ==
    /\ runonce
    /\ caller = "creating" => thr = "unborn"
    /\ thr \in {"unborn", "starting", "connecting", "polling", "sending"} => Unsent
    /\ thr = "failed" => net = <<>> /\ pending
    /\ thr = "sent" => SentOnce /\ pending
    /\ thr \in {"printing", "closing", "ended"} => SentOnce
    /\ caller \in {"writing", "composing", "sizing", "raising", "crashed"} =>
         thr \in {"printing", "closing", "ended"}
    /\ rst = "ok" => caller = "waiting" /\ SentOnce

\* Between two calls no thread runs, and what the last one sent is known.
Rest ==
    /\ thr = "unborn" \/ ThreadOver
    /\ calls # <<>> => OnceOrNot(net, Content)
    /\ calls = <<>> => net = <<>>
    /\ rst = "ok" => net # <<>>

Outcomes ==
    /\ outcome \in Seq(Seq((Messages \cup {Garbage}) \X (Messages \cup {Garbage})))
    /\ caller = "idle" => Len(outcome) = Len(calls)
    /\ caller # "idle" => calls # <<>> /\ Len(outcome) = Len(calls) - 1
    /\ \A k \in 1 .. Len(outcome) : OnceOrNot(outcome[k], calls[k])

InfoInv ==
    /\ InfoTypeOK
    /\ caller = "idle" => Rest
    /\ caller # "idle" => Course
    /\ Outcomes

-----------------------------------------------------------------------------

LEMMA InfoInvInit == InfoInit => InfoInv
<1> SUFFICES ASSUME InfoInit PROVE InfoInv
  OBVIOUS
<1>1. InfoTypeOK
  <2>1. net \in Seq((Messages \cup {Garbage}) \X (Messages \cup {Garbage}))
    BY DEF InfoInit
  <2>2. calls \in Seq(Messages) /\ Len(outcome) = Len(calls)
    BY DEF InfoInit
  <2> QED
    BY <2>1, <2>2 DEF InfoInit, InfoTypeOK, ThreadTypeOK
<1>2. Outcomes
  BY DEF InfoInit, Outcomes
<1> QED
  BY <1>1, <1>2 DEF InfoInit, InfoInv, Rest

\* A step of the thread, which leaves the caller's variables alone.
LEMMA ThreadKeepsInfoInv ==
    ASSUME InfoInv, ThreadStep, UNCHANGED callerVars
    PROVE  InfoInv'
<1> USE DEF callerVars, ThreadTypeOK
<1>0. caller # "idle" /\ Course
  BY DEF InfoInv, Rest, ThreadOver, ThreadStep, Start, ConnectPeer, SeePending, Send,
         ClearPending, PrintSent, DeleteBuffer
<1>1. Outcomes'
  BY DEF InfoInv, Outcomes
<1>2. calls \in Seq(Messages) /\ calls # <<>>
  BY <1>0 DEF InfoInv, InfoTypeOK, Outcomes
<1>3. InfoTypeOK' /\ Course'
  <2> USE DEF InfoInv, InfoTypeOK, Course, Unsent, SentOnce, Content, optVars
  <2>1. CASE Start
    BY <1>0, <1>2, <2>1 DEF Start, Fails
  <2>2. CASE ConnectPeer
    BY <1>0, <1>2, <2>2 DEF ConnectPeer, Fails
  <2>3. CASE SeePending
    BY <1>0, <1>2, <2>3 DEF SeePending
  <2>4. CASE Send
    <3>1. CASE Fails
      BY <1>0, <1>2, <2>4, <3>1 DEF Send, Fails
    <3>2. CASE /\ net' = Append(net, <<buffer, data_len>>)
               /\ thr' = "sent"
               /\ UNCHANGED optVars
      BY <1>0, <1>2, <2>4, <3>2 DEF Send
    <3> QED
      BY <2>4, <3>1, <3>2 DEF Send
  <2>5. CASE ClearPending
    BY <1>0, <1>2, <2>5 DEF ClearPending
  <2>6. CASE PrintSent
    BY <1>0, <1>2, <2>6 DEF PrintSent
  <2>7. CASE DeleteBuffer
    BY <1>0, <1>2, <2>7 DEF DeleteBuffer
  <2> QED
    BY <2>1, <2>2, <2>3, <2>4, <2>5, <2>6, <2>7 DEF ThreadStep
<1> QED
  BY <1>0, <1>1, <1>3 DEF InfoInv

\* A new call reuses the stack of the one before.
LEMMA CallKeepsInfoInv ==
    ASSUME InfoInv, NEW content \in Messages, CallSendInfo(content)
    PROVE  InfoInv'
<1> USE DEF CallSendInfo
<1>1. calls \in Seq(Messages) /\ calls' \in Seq(Messages) /\ Len(calls') = Len(calls) + 1
  BY DEF InfoInv, InfoTypeOK
<1>2. Content' = content /\ calls' # <<>>
  BY <1>1 DEF Content
<1>3. InfoTypeOK'
  BY <1>1 DEF InfoInv, InfoTypeOK, ThreadTypeOK, Outcomes
<1>4. Course'
  BY <1>1, <1>2 DEF InfoInv, Rest, Course, Unsent, SentOnce
<1>5. Outcomes'
  <2>1. \A k \in 1 .. Len(outcome) : calls'[k] = calls[k]
    BY <1>1 DEF InfoInv, Outcomes
  <2> QED
    BY <1>1, <1>2, <2>1 DEF InfoInv, Outcomes
<1> QED
  BY <1>3, <1>4, <1>5 DEF InfoInv

\* The wait ends only when the thread is over, and what it sent is recorded.
LEMMA ReturnKeepsInfoInv ==
    ASSUME InfoInv, Return
    PROVE  InfoInv'
<1> USE DEF Return, ThreadOver, threadVars, optVars
<1>1. Course /\ calls \in Seq(Messages) /\ calls # <<>>
  BY DEF InfoInv, InfoTypeOK, Outcomes
<1>2. OnceOrNot(net, Content)
  <2>1. CASE thr = "failed"
    BY <1>1, <2>1 DEF Course, OnceOrNot
  <2>2. CASE thr = "ended"
    BY <1>1, <2>2 DEF Course, SentOnce, OnceOrNot
  <2> QED
    BY <2>1, <2>2
<1>3. /\ outcome \in Seq(Seq((Messages \cup {Garbage}) \X (Messages \cup {Garbage})))
      /\ net \in Seq((Messages \cup {Garbage}) \X (Messages \cup {Garbage}))
      /\ Len(outcome) = Len(calls) - 1
  BY DEF InfoInv, InfoTypeOK, ThreadTypeOK, Outcomes
<1>4. /\ outcome' \in Seq(Seq((Messages \cup {Garbage}) \X (Messages \cup {Garbage})))
      /\ Len(outcome') = Len(calls)
      /\ outcome'[Len(calls)] = net
      /\ \A k \in 1 .. Len(outcome) : outcome'[k] = outcome[k]
  BY <1>1, <1>3
<1>5. InfoTypeOK'
  BY <1>1, <1>4 DEF InfoInv, InfoTypeOK, ThreadTypeOK
<1>6. Outcomes'
  <2>1. ASSUME NEW k \in 1 .. Len(outcome') PROVE OnceOrNot(outcome'[k], calls'[k])
    <3>1. CASE k = Len(calls)
      BY <1>2, <1>4, <3>1 DEF Content
    <3>2. CASE k # Len(calls)
      BY <1>1, <1>3, <1>4, <3>2 DEF InfoInv, Outcomes
    <3> QED
      BY <3>1, <3>2
  <2> QED
    BY <1>1, <1>4, <2>1 DEF Outcomes
<1>7. Rest'
  <2>1. ASSUME rst = "ok" PROVE net # <<>>
    <3>1. SentOnce
      BY <1>1, <2>1 DEF Course
    <3>2. Len(net) = 1
      BY <3>1 DEF SentOnce
    <3> QED
      BY <3>2
  <2>2. OnceOrNot(net, Content)'
    BY <1>2 DEF OnceOrNot, Content
  <2>3. calls' # <<>> /\ thr' \in {"failed", "ended"} /\ net' = net /\ rst' = rst
    BY <1>1
  <2> QED
    BY <2>1, <2>2, <2>3 DEF Rest, ThreadOver
<1> QED
  BY <1>5, <1>6, <1>7 DEF InfoInv

\* The other steps of a call: the creation of the thread and SendData.
LEMMA CallerKeepsInfoInv ==
    ASSUME InfoInv, InCall, ~ Return
    PROVE  InfoInv'
<1>0. /\ caller # "idle" /\ Course /\ calls \in Seq(Messages) /\ calls # <<>>
      /\ caller' # "idle" /\ UNCHANGED <<calls, outcome>>
  BY DEF InCall, BeginThread, TestPending, BeginRequest, EndRequest, SizeRequest,
         RaiseRequest, AfterWrite, InfoInv, InfoTypeOK, Outcomes
<1>1. Outcomes'
  BY <1>0 DEF InfoInv, Outcomes
<1>2. InfoTypeOK' /\ Course'
  <2> USE DEF InfoInv, InfoTypeOK, ThreadTypeOK, Course, Unsent, SentOnce, Content, optVars
  <2>1. CASE BeginThread
    BY <1>0, <2>1 DEF BeginThread
  <2>2. CASE TestPending
    BY <1>0, <2>2 DEF TestPending, threadVars
  <2>3. CASE BeginRequest
    BY <1>0, <2>3 DEF BeginRequest, AfterWrite
  <2>4. CASE EndRequest
    BY <1>0, <2>4, SendInfoAssumption DEF EndRequest, AfterWrite
  <2>5. CASE SizeRequest
    BY <1>0, <2>5, SendInfoAssumption DEF SizeRequest
  <2>6. CASE RaiseRequest
    BY <1>0, <2>6 DEF RaiseRequest
  <2> QED
    BY <2>1, <2>2, <2>3, <2>4, <2>5, <2>6 DEF InCall
<1> QED
  BY <1>0, <1>1, <1>2 DEF InfoInv

THEOREM InfoInvHolds == InfoSpec => []InfoInv
<1>1. InfoInv /\ [InfoNext]_infoVars => InfoInv'
  <2> SUFFICES ASSUME InfoInv, [InfoNext]_infoVars PROVE InfoInv'
    OBVIOUS
  <2>1. CASE ThreadStep /\ UNCHANGED callerVars
    BY <2>1, ThreadKeepsInfoInv
  <2>2. CASE \E content \in Messages \ {Request} : CallSendInfo(content)
    BY <2>2, CallKeepsInfoInv
  <2>3. CASE InCall
    BY <2>3, CallerKeepsInfoInv, ReturnKeepsInfoInv
  <2>4. CASE UNCHANGED infoVars
    BY <2>4 DEF infoVars, threadVars, optVars, callerVars, InfoInv, InfoTypeOK, ThreadTypeOK,
         Rest, ThreadOver, Course, Unsent, SentOnce, Content, Outcomes
  <2> QED
    BY <2>1, <2>2, <2>3, <2>4 DEF InfoNext
<1> QED
  BY <1>1, InfoInvInit, PTL DEF InfoSpec

\* Whatever the schedule, SendData never changes, repeats or adds to what the
\* thread of SendInfo sends, in its own call or in a later one.
THEOREM InfoContentOnlyOnce == InfoSpec => []ContentOnlyOnce
<1>1. InfoInv => ContentOnlyOnce
  <2> SUFFICES ASSUME InfoInv PROVE ContentOnlyOnce
    OBVIOUS
  <2>1. \A k \in DOMAIN outcome : OnceOrNot(outcome[k], calls[k])
    BY DEF InfoInv, Outcomes
  <2>2. calls # <<>> => OnceOrNot(net, calls[Len(calls)])
    BY DEF InfoInv, InfoTypeOK, ThreadTypeOK, Rest, Course, Unsent, SentOnce, Content, OnceOrNot
  <2> QED
    BY <2>1, <2>2 DEF ContentOnlyOnce
<1> QED
  BY <1>1, InfoInvHolds, PTL

\* When a call is over, so is the thread it created on its ClientOpt.
THEOREM InfoOptOutlivesThread == InfoSpec => []OptOutlivesThread
<1>1. InfoInv => OptOutlivesThread
  BY DEF InfoInv, Rest, OptOutlivesThread
<1> QED
  BY <1>1, InfoInvHolds, PTL

\* A result of 0, and a write to the deleted buffer that brings the hub down,
\* mean that the content was sent, once and unchanged.
THEOREM InfoOkMeansSent == InfoSpec => []OkMeansSent
<1>1. InfoInv => OkMeansSent
  <2>1. InfoInv /\ caller # "idle" => OkMeansSent
    BY DEF InfoInv, Course, SentOnce, Content, OkMeansSent
  <2>2. InfoInv /\ caller = "idle" => OkMeansSent
    BY DEF InfoInv, Outcomes, Rest, OnceOrNot, Content, OkMeansSent
  <2> QED
    BY <2>1, <2>2
<1> QED
  BY <1>1, InfoInvHolds, PTL

\* The shape of the state, for any number of calls.
THEOREM InfoTypeCorrect == InfoSpec => []InfoTypeOK
<1>1. InfoInv => InfoTypeOK
  BY DEF InfoInv
<1> QED
  BY <1>1, InfoInvHolds, PTL
=============================================================================
