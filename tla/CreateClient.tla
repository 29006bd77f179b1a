---------------------------- MODULE CreateClient ----------------------------
(***************************************************************************)
(* The sender thread CreateClient (Socket/CreateClient.cpp 27-142): it     *)
(* connects, then sends the buffer of its ClientOpt each time another      *)
(* thread has set pending.  ClientSession and SendInfo add that thread.    *)
(*                                                                         *)
(* Both threads share the ClientOpt without a lock.  A step of the model   *)
(* is one access to it (or a call of the socket library), in the order     *)
(* they are written, as the library's Debug build makes them.              *)
(***************************************************************************)
EXTENDS Naturals, Sequences

CONSTANTS
    Messages,   \* what is sent, complete with tag and content
    Garbage     \* a buffer that is not (or not wholly) a message

ASSUME GarbageAssumption == Garbage \notin Messages

VARIABLES
    buffer,     \* opt->buffer: a message, or Garbage while it is written
    data_len,   \* opt->data_len: the message it is the length of
    pending,    \* opt->pending
    runonce,    \* opt->runonce
    allocated,  \* the buffer has not been deleted
    thr,        \* where the sender thread is
    net         \* what the peer is sent: pairs of a buffer and a length

optVars == <<buffer, data_len, pending, runonce, allocated>>
threadVars == <<optVars, thr, net>>

\* The thread ends early: it never clears pending nor deletes the buffer.
Fails ==
    /\ thr' = "failed"
    /\ UNCHANGED <<optVars, net>>

\* WSAStartup, the resolution of the address and socket().
Start ==
    /\ thr = "starting"
    /\ \/ thr' = "connecting" /\ UNCHANGED <<optVars, net>>
       \/ Fails

ConnectPeer ==
    /\ thr = "connecting"
    /\ \/ thr' = "polling" /\ UNCHANGED <<optVars, net>>
       \/ Fails

\* The busy wait on pending ends.
SeePending ==
    /\ thr = "polling" /\ pending
    /\ thr' = "sending"
    /\ UNCHANGED <<optVars, net>>

Send ==
    /\ thr = "sending"
    /\ \/ /\ net' = Append(net, <<buffer, data_len>>)
          /\ thr' = "sent"
          /\ UNCHANGED optVars
       \/ Fails

ClearForgotten ==
    /\ thr = "sent"
    /\ thr' = "printing"
    /\ UNCHANGED <<optVars, net>>

ClearPending ==
    /\ thr = "sent"
    /\ pending' = FALSE
    /\ thr' = "printing"
    /\ UNCHANGED <<buffer, data_len, runonce, allocated, net>>

PrintSentOnce ==
    /\ thr = "printing"
    /\ thr' = "closing"
    /\ UNCHANGED <<optVars, net>>

PrintSentForever ==
    /\ thr = "printing"
    /\ thr' = "polling"
    /\ UNCHANGED <<optVars, net>>

\* printf of the buffer, then the test of runonce.
PrintSent ==
    /\ thr = "printing"
    /\ thr' = IF runonce THEN "closing" ELSE "polling"
    /\ UNCHANGED <<optVars, net>>

DeleteBuffer ==
    /\ thr = "closing"
    /\ allocated' = FALSE
    /\ thr' = "ended"
    /\ UNCHANGED <<buffer, data_len, pending, runonce, net>>

ThreadStep ==
    \/ Start \/ ConnectPeer \/ SeePending \/ Send \/ ClearPending
    \/ PrintSent \/ DeleteBuffer

ThreadOver == thr \in {"failed", "ended"}

ThreadTypeOK ==
    /\ buffer \in Messages \cup {Garbage}
    /\ data_len \in Messages \cup {Garbage}
    /\ pending \in BOOLEAN /\ runonce \in BOOLEAN /\ allocated \in BOOLEAN
    /\ thr \in {"unborn", "starting", "connecting", "polling", "sending", "sent",
                "printing", "closing", "ended", "failed"}
    /\ net \in Seq((Messages \cup {Garbage}) \X (Messages \cup {Garbage}))
=============================================================================
