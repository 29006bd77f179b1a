--------------------------- MODULE OneSlotChannel ---------------------------
(***************************************************************************)
(* What a ClientOpt promises its user: a channel that holds one message.   *)
(* A message put into it is delivered whole, once and in order, before the *)
(* next one is taken on, until the channel breaks.  A broken channel takes *)
(* on no more than one message, and delivers none.                         *)
(***************************************************************************)
EXTENDS Naturals, Sequences

CONSTANT Messages

VARIABLES
    taken,       \* the messages put into the channel
    delivered,   \* the messages that came out
    broken

channelVars == <<taken, delivered, broken>>

Empty == Len(taken) = Len(delivered)

ChannelInit == taken = <<>> /\ delivered = <<>> /\ broken = FALSE

Put(m) ==
    /\ Empty
    /\ taken' = Append(taken, m)
    /\ UNCHANGED <<delivered, broken>>

Deliver ==
    /\ ~ Empty /\ ~ broken
    /\ delivered' = Append(delivered, taken[Len(taken)])
    /\ UNCHANGED <<taken, broken>>

Break ==
    /\ broken' = TRUE
    /\ UNCHANGED <<taken, delivered>>

ChannelNext == (\E m \in Messages : Put(m)) \/ Deliver \/ Break

ChannelSpec == ChannelInit /\ [][ChannelNext]_channelVars

\* A working channel delivers what it has taken.
ChannelLive == ~ Empty ~> Empty \/ broken
=============================================================================
