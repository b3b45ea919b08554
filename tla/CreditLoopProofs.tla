-------------------------- MODULE CreditLoopProofs --------------------------
(***************************************************************************)
(* What every implementation of CreditLoop inherits, for any window.       *)
(***************************************************************************)
EXTENDS CreditLoop, TLAPS

LEMMA LoopInitTyped == ASSUME Window \in Nat PROVE Init => TypeOK
  BY DEF Init, TypeOK

LEMMA LoopEndingTyped == ASSUME Window \in Nat, TypeOK, [NextEnding]_vars PROVE TypeOK'
<1>1. ASSUME NEW n \in 1 .. Window, Send(n) PROVE TypeOK'
  BY <1>1 DEF Send, TypeOK
<1>2. ASSUME NEW n \in 0 .. Window, NEW g \in 0 .. Window, NEW f \in 0 .. Window,
             Handle(n, g, f)
      PROVE  TypeOK'
  BY <1>2 DEF Handle, TypeOK
<1>3. ASSUME NEW n \in 0 .. Window, NEW k \in 0 .. Window, Return(n, k) PROVE TypeOK'
  BY <1>3 DEF Return, TypeOK
<1>4. CASE UNCHANGED vars
  BY <1>4 DEF vars, TypeOK
<1> QED BY <1>1, <1>2, <1>3, <1>4 DEF NextEnding

\* An exact step is an ending step that forgets nothing.
LEMMA ExactIsEnding == ASSUME Window \in Nat, [NextExact]_vars PROVE [NextEnding]_vars
<1>1. CASE \E n \in 1 .. Window : Send(n)
  BY <1>1 DEF NextEnding
<1>2. CASE \E n, g \in 0 .. Window : Handle(n, g, 0)
  <2>1. 0 \in 0 .. Window
    OBVIOUS
  <2> QED BY <1>2, <2>1 DEF NextEnding
<1>3. CASE \E n \in 1 .. Window : Return(n, n)
  <2>1. \A n \in 1 .. Window : n \in 0 .. Window
    OBVIOUS
  <2> QED BY <1>3, <2>1 DEF NextEnding
<1>4. CASE UNCHANGED vars
  BY <1>4
<1> QED BY <1>1, <1>2, <1>3, <1>4 DEF NextExact

\* A loop whose bytes may be forgotten with their stream never holds more than
\* its window: the receive buffer of PROTOCOL.md section 4.1 is bounded.
THEOREM EndingNeverOverruns == ASSUME Window \in Nat PROVE SpecEnding => []NoOverrun
<1>1. Init => TypeOK /\ NoOverrun
  BY LoopInitTyped DEF Init, NoOverrun
<1>2. TypeOK /\ NoOverrun /\ [NextEnding]_vars => (TypeOK /\ NoOverrun)'
  <2> SUFFICES ASSUME TypeOK, NoOverrun, [NextEnding]_vars PROVE NoOverrun'
    BY LoopEndingTyped
  <2> USE DEF TypeOK, NoOverrun
  <2>1. ASSUME NEW n \in 1 .. Window, Send(n) PROVE NoOverrun'
    BY <2>1 DEF Send
  <2>2. ASSUME NEW n \in 0 .. Window, NEW g \in 0 .. Window, NEW f \in 0 .. Window,
               Handle(n, g, f)
        PROVE  NoOverrun'
    BY <2>2 DEF Handle
  <2>3. ASSUME NEW n \in 0 .. Window, NEW k \in 0 .. Window, Return(n, k)
        PROVE  NoOverrun'
    BY <2>3 DEF Return
  <2>4. CASE UNCHANGED vars
    BY <2>4 DEF vars
  <2> QED BY <2>1, <2>2, <2>3, <2>4 DEF NextEnding
<1> QED BY <1>1, <1>2, PTL DEF SpecEnding

\* A loop that forgets nothing conserves its window: the connection loop of
\* PROTOCOL.md section 4.3 never leaks.
THEOREM ExactConserves == ASSUME Window \in Nat PROVE SpecExact => []Conserved
<1>1. Init => TypeOK /\ Conserved
  BY LoopInitTyped DEF Init, Conserved
<1>2. TypeOK /\ Conserved /\ [NextExact]_vars => (TypeOK /\ Conserved)'
  <2> SUFFICES ASSUME TypeOK, Conserved, [NextExact]_vars PROVE Conserved'
    BY LoopEndingTyped, ExactIsEnding
  <2> USE DEF TypeOK, Conserved
  <2>1. ASSUME NEW n \in 1 .. Window, Send(n) PROVE Conserved'
    BY <2>1 DEF Send
  <2>2. ASSUME NEW n \in 0 .. Window, NEW g \in 0 .. Window, Handle(n, g, 0)
        PROVE  Conserved'
    BY <2>2 DEF Handle
  <2>3. ASSUME NEW n \in 1 .. Window, Return(n, n) PROVE Conserved'
    BY <2>3 DEF Return
  <2>4. CASE UNCHANGED vars
    BY <2>4 DEF vars
  <2> QED BY <2>1, <2>2, <2>3, <2>4 DEF NextExact
<1> QED BY <1>1, <1>2, PTL DEF SpecExact
=============================================================================
