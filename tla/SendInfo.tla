------------------------------ MODULE SendInfo ------------------------------
(***************************************************************************)
(* SendInfo (CommonFunctions.cpp 113-130), with which the hub sends to a   *)
(* client's listener: a ClientOpt on the stack, filled and marked pending  *)
(* before the sender thread is created with runonce set, then a call of    *)
(* SendData on the same ClientOpt while the thread runs, then a wait for   *)
(* the thread.  The hub's handlers make one call after another, and each   *)
(* call's ClientOpt takes the place on the stack of the one before.  What  *)
(* SendData writes to a buffer the thread has deleted goes unnoticed or    *)
(* brings the hub down.                                                    *)
(***************************************************************************)
EXTENDS CreateClient

CONSTANTS
    Request,    \* what SendData writes: a content behind the ASK_DATA tag
    MaxCalls    \* bound on the number of calls

ASSUME SendInfoAssumption == Request \in Messages

VARIABLES
    caller,     \* where the hub's thread is
    rst,        \* the result of SendData in this call, "none" before it is known
    calls,      \* the contents SendInfo was called with
    outcome     \* what each call that returned had sent

callerVars == <<caller, rst, calls, outcome>>
infoVars == <<threadVars, callerVars>>

InfoInit ==
    /\ buffer = Garbage /\ data_len = Garbage
    /\ pending = FALSE /\ runonce = FALSE /\ allocated = FALSE
    /\ thr = "unborn" /\ net = <<>>
    /\ caller = "idle" /\ rst = "none" /\ calls = <<>> /\ outcome = <<>>

CallNotPending(content) ==
    /\ caller = "idle" /\ Len(calls) < MaxCalls
    /\ buffer' = content /\ data_len' = content
    /\ pending' = FALSE /\ runonce' = TRUE /\ allocated' = TRUE
    /\ net' = <<>> /\ rst' = "none"
    /\ calls' = Append(calls, content)
    /\ caller' = "creating" /\ thr' = "unborn"
    /\ UNCHANGED outcome

\* The ClientOpt is filled before the thread exists.
CallSendInfo(content) ==
    /\ caller = "idle" /\ Len(calls) < MaxCalls
    /\ buffer' = content /\ data_len' = content
    /\ pending' = TRUE /\ runonce' = TRUE /\ allocated' = TRUE
    /\ net' = <<>> /\ rst' = "none"
    /\ calls' = Append(calls, content)
    /\ caller' = "creating" /\ thr' = "unborn"
    /\ UNCHANGED outcome

\* _beginthread, which may fail: the handle is then -1.
BeginThread ==
    /\ caller = "creating"
    /\ thr' \in {"starting", "unborn"}
    /\ caller' = "testing"
    /\ UNCHANGED <<optVars, net, rst, calls, outcome>>

TestUnguarded ==
    /\ caller = "testing"
    /\ caller' = "writing"
    /\ UNCHANGED <<threadVars, rst, calls, outcome>>

TestReturnsBusy ==
    /\ caller = "testing"
    /\ IF pending
         THEN caller' = "idle" /\ rst' = "busy"
         ELSE caller' = "writing" /\ UNCHANGED rst
    /\ UNCHANGED <<threadVars, calls, outcome>>

\* SendData refuses while the message is pending, which the thread may just
\* have stopped it from being.
TestPending ==
    /\ caller = "testing"
    /\ IF pending
         THEN caller' = "waiting" /\ rst' = "busy"
         ELSE caller' = "writing" /\ UNCHANGED rst
    /\ UNCHANGED <<threadVars, calls, outcome>>

\* Where SendData gets to by writing the buffer, which the thread may have
\* deleted by now.
AfterWrite(next) == IF allocated THEN {next} ELSE {next, "crashed"}

BeginRequest ==
    /\ caller = "writing"
    /\ buffer' = Garbage
    /\ caller' \in AfterWrite("composing")
    /\ UNCHANGED <<data_len, pending, runonce, allocated, thr, net, rst, calls, outcome>>

EndRequest ==
    /\ caller = "composing"
    /\ buffer' = Request
    /\ caller' \in AfterWrite("sizing")
    /\ UNCHANGED <<data_len, pending, runonce, allocated, thr, net, rst, calls, outcome>>

SizeRequest ==
    /\ caller = "sizing"
    /\ data_len' = Request
    /\ caller' = "raising"
    /\ UNCHANGED <<buffer, pending, runonce, allocated, thr, net, rst, calls, outcome>>

RaiseRequest ==
    /\ caller = "raising"
    /\ pending' = TRUE
    /\ rst' = "ok"
    /\ caller' = "waiting"
    /\ UNCHANGED <<buffer, data_len, runonce, allocated, thr, net, calls, outcome>>

ReturnUnwaited ==
    /\ caller = "waiting"
    /\ caller' = "idle"
    /\ outcome' = Append(outcome, net)
    /\ UNCHANGED <<threadVars, rst, calls>>

\* WaitForSingleObject: for a thread that was never created the handle -1
\* stands for the process itself, which does not end.
Return ==
    /\ caller = "waiting" /\ ThreadOver
    /\ caller' = "idle"
    /\ outcome' = Append(outcome, net)
    /\ UNCHANGED <<threadVars, rst, calls>>

InCall ==
    \/ BeginThread \/ TestPending \/ BeginRequest \/ EndRequest
    \/ SizeRequest \/ RaiseRequest \/ Return

InfoNext ==
    \/ ThreadStep /\ UNCHANGED callerVars
    \/ \E content \in Messages \ {Request} : CallSendInfo(content)
    \/ InCall

InfoSpec == InfoInit /\ [][InfoNext]_infoVars

\* Both threads are scheduled; connect and send return.
FairInfoSpec ==
    /\ InfoSpec
    /\ WF_infoVars(ThreadStep /\ UNCHANGED callerVars)
    /\ WF_infoVars(InCall)

(***************************************************************************)
(* Properties.                                                             *)
(***************************************************************************)
InfoTypeOK ==
    /\ ThreadTypeOK
    /\ caller \in {"idle", "creating", "testing", "writing", "composing",
                   "sizing", "raising", "waiting", "crashed"}
    /\ rst \in {"none", "busy", "ok"}
    /\ calls \in Seq(Messages)
    /\ Len(outcome) \in {Len(calls), Len(calls) - 1}

\* What a call may have sent: nothing, or its content once and unchanged.
OnceOrNot(sends, content) == sends = <<>> \/ sends = <<<<content, content>>>>

\* The racing SendData never changes, repeats or adds to what the thread
\* sends, in this call or, through the reused stack, in a later one.
ContentOnlyOnce ==
    /\ \A k \in DOMAIN outcome : OnceOrNot(outcome[k], calls[k])
    /\ calls # <<>> => OnceOrNot(net, calls[Len(calls)])

\* No sender thread still runs on a ClientOpt that is off the stack: between
\* two calls the last one's thread, if it was created, is over.
OptOutlivesThread == caller = "idle" => thr = "unborn" \/ ThreadOver

\* SendData gets past its busy test, to a result of 0 or to the write to the
\* deleted buffer that brings the hub down, only after the content of the call
\* was sent, once and unchanged.  (A busy result says nothing.)
OkMeansSent ==
    rst = "ok" \/ caller = "crashed" => net = <<<<calls[Len(calls)], calls[Len(calls)]>>>>

\* SendInfo returns to the hub unless its thread could not be created or the
\* write to the deleted buffer brings the hub down.
SendInfoReturns ==
    caller = "creating" ~>
        \/ caller \in {"idle", "crashed"}
        \/ caller = "waiting" /\ thr = "unborn"
=============================================================================
