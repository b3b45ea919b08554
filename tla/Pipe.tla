-------------------------------- MODULE Pipe --------------------------------
(***************************************************************************)
(* What one direction of a relayed WebSocket promises: the receiver gets   *)
(* the sender's messages in order, each once, with no gap, until the       *)
(* receiver's socket is over; and if it ends with the sender's own close,  *)
(* the receiver has got them all.  The n-th message sent is the number n.  *)
(***************************************************************************)
EXTENDS Naturals, Sequences

VARIABLES
    sent,   \* how many messages the sender has sent
    got,    \* the messages the receiver has got
    over,   \* the receiver's socket is closed
    clean   \* by the sender's own close

vars == <<sent, got, over, clean>>

Init == sent = 0 /\ got = <<>> /\ over = FALSE /\ clean = FALSE

Send == ~clean /\ sent' = sent + 1 /\ UNCHANGED <<got, over, clean>>

Delivered == ~over /\ Len(got) < sent /\ got' = Append(got, Len(got) + 1) /\ UNCHANGED sent

Deliver == Delivered /\ UNCHANGED <<over, clean>>

Ended == over' = TRUE /\ clean' \in {clean, ~over /\ Len(got') = sent}

End == Ended /\ UNCHANGED <<sent, got>>

\* The socket closes while the last message is on its way into it.
DeliverAndEnd == Delivered /\ Ended

Next == Send \/ Deliver \/ End \/ DeliverAndEnd

Spec == Init /\ [][Next]_vars
=============================================================================
