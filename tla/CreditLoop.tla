----------------------------- MODULE CreditLoop -----------------------------
(***************************************************************************)
(* What a flow-control window promises, whoever its two ends are.          *)
(*                                                                         *)
(* A sender owns `credit` bytes it may transmit; sent bytes are in flight  *)
(* until the receiver handles them; the receiver holds them until it       *)
(* grants them back in a WINDOW frame, which is in flight until the sender *)
(* adds it to its credit.  Both directions of a stream and both directions *)
(* of a connection are such loops (protocol/PROTOCOL.md section 4.1), and  *)
(* RequestFlow and ResponseFlow are shown to implement this module.        *)
(*                                                                         *)
(* A stream loop ends with its stream, so bytes may leave it; the loop of  *)
(* a connection lives as long as the connection, so there they may not.    *)
(* NextEnding and NextExact are the two contracts.                         *)
(***************************************************************************)
EXTENDS Naturals

CONSTANT Window     \* a natural number of bytes

VARIABLES
    credit,     \* bytes the sender may still transmit
    sent,       \* body bytes in flight
    held,       \* bytes received and not granted back
    back        \* bytes of credit in flight in WINDOW frames

vars == <<credit, sent, held, back>>

Init == credit = Window /\ sent = 0 /\ held = 0 /\ back = 0

Send(n) ==
    /\ n <= credit
    /\ credit' = credit - n
    /\ sent' = sent + n
    /\ UNCHANGED <<held, back>>

\* The receiver takes n bytes off the wire, grants g of what it then holds
\* and forgets f of it (a stream loop only: the stream is over).
Handle(n, g, f) ==
    /\ n <= sent
    /\ g + f <= held + n
    /\ sent' = sent - n
    /\ held' = (held + n) - (g + f)
    /\ back' = back + g
    /\ UNCHANGED credit

\* n bytes of granted credit arrive; the sender keeps k of them.
Return(n, k) ==
    /\ n <= back
    /\ k <= n
    /\ back' = back - n
    /\ credit' = credit + k
    /\ UNCHANGED <<sent, held>>

NextExact ==
    \/ \E n \in 1 .. Window : Send(n)
    \/ \E n, g \in 0 .. Window : Handle(n, g, 0)
    \/ \E n \in 1 .. Window : Return(n, n)

NextEnding ==
    \/ \E n \in 1 .. Window : Send(n)
    \/ \E n, g, f \in 0 .. Window : Handle(n, g, f)
    \/ \E n, k \in 0 .. Window : Return(n, k)

SpecExact == Init /\ [][NextExact]_vars
SpecEnding == Init /\ [][NextEnding]_vars
-----------------------------------------------------------------------------
TypeOK == credit \in Nat /\ sent \in Nat /\ held \in Nat /\ back \in Nat

\* The receiver never has to hold more than one window.
NoOverrun == credit + sent + held + back <= Window

\* No byte of the window is ever lost.
Conserved == credit + sent + held + back = Window
=============================================================================
