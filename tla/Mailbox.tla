------------------------------ MODULE Mailbox ------------------------------
(***************************************************************************)
(* What a client's listener promises on a network that keeps the order of  *)
(* what the hub sends: the answers of the hub are shown whole, each once,  *)
(* in the order in which the hub sent them.                                *)
(***************************************************************************)
EXTENDS Sequences

CONSTANT Answers

VARIABLES
    queue,    \* answers sent and not yet shown
    shown     \* answers given to the application, in order

boxVars == <<queue, shown>>

BoxInit == queue = <<>> /\ shown = <<>>

Post(k) ==
    /\ queue' = Append(queue, k)
    /\ UNCHANGED shown

Show ==
    /\ queue # <<>>
    /\ shown' = Append(shown, Head(queue))
    /\ queue' = Tail(queue)

BoxNext == Show \/ \E k \in Answers : Post(k)

BoxSpec == BoxInit /\ [][BoxNext]_boxVars
=============================================================================
