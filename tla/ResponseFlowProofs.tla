------------------------- MODULE ResponseFlowProofs -------------------------
(***************************************************************************)
(* Theorems about ResponseFlow, for any finite set of streams and any      *)
(* windows.                                                                *)
(*                                                                         *)
(* Three inductive invariants lie under them.  StreamBounded: per stream,  *)
(* the bytes and the credit on their way around fit one window.  ConnInv:  *)
(* so they do, summed, for the connection, and the edge's receive window   *)
(* counts exactly the bytes that wait and the credit not yet granted.      *)
(* Order: what the agent has queued for a stream, and what the edge has    *)
(* seen of it, at every point of a response that a RESET may overtake.     *)
(* StrandInv adds what each end is told of the other's end, and that a     *)
(* stream's window loses nothing before that.                              *)
(***************************************************************************)
EXTENDS ResponseFlow, SumProofs, TLAPS

\* run gives the stream up: it has no byte in hand and queues at most a RESET,
\* and nothing at all only on a cancelled stream.
GiveUp(s) ==
    /\ inHand[s] = 0
    /\ \E F \in SUBSET {"reset"} : RunReturns(s, F) /\ (F = {} => cancelled[s])
    /\ UNCHANGED inHand

\* The steps of one stream that lose no byte.
StreamStep(s) ==
    \/ Start(s)
    \/ RecvReqHead(s)
    \/ \E n \in Bodies : SendHead(s, n)
    \/ \E want \in Chunk : Acquire(s, want)
    \/ SendBody(s)
    \/ SendEnd(s)
    \/ GiveUp(s)
    \/ RecvWindow(s)
    \/ RecvEdgeReset(s)
    \/ RecvHead(s)
    \/ \E k \in Chunk : Deliver(s, k)
    \/ \E k \in Chunk : Consume(s, k)
    \/ RecvEnd(s)
    \/ Close(s)
    \/ EdgeReset(s)
    \/ RecvReset(s)

CutStep(s) == \E F \in SUBSET {"reset"} : Cut(s, F)

LEMMA UncutCases ==
    ASSUME [NextUncut]_vars
    PROVE  \/ \E s \in Streams : StreamStep(s)
           \/ RecvConnWindow
           \/ Hibernate
           \/ UNCHANGED vars
<1>1. CASE Traffic
  BY <1>1 DEF Traffic, StreamStep, VisitorReads, Skip
<1>2. CASE Failure
  <2>1. {"reset"} \in SUBSET {"reset"} /\ {} \in SUBSET {"reset"}
    OBVIOUS
  <2> QED
    BY <1>2, <2>1
       DEF Failure, StreamStep, GiveUp, LocalError, CreditTimeout, Abandon, Sending
<1> QED BY <1>1, <1>2 DEF NextUncut

LEMMA StepCases ==
    ASSUME [Next]_vars
    PROVE  \/ \E s \in Streams : StreamStep(s)
           \/ \E s \in Streams : CutStep(s)
           \/ RecvConnWindow
           \/ Hibernate
           \/ UNCHANGED vars
<1>1. CASE [NextUncut]_vars
  BY <1>1, UncutCases
<1>2. CASE Cuts
  <2>1. {"reset"} \in SUBSET {"reset"} /\ {} \in SUBSET {"reset"}
    OBVIOUS
  <2> QED BY <1>2, <2>1 DEF Cuts, CutStep
<1> QED BY <1>1, <1>2 DEF Next
-----------------------------------------------------------------------------
(* Type correctness.                                                       *)

LEMMA GrantIsNat ==
    ASSUME TypeOK, NEW n \in Nat, NEW got \in Nat, NEW active \in BOOLEAN,
           GrantConn(n, got, active)
    PROVE  connWire' \in Nat /\ connUngranted' \in Nat /\ windowHeld' \in Nat
<1>1. connWire \in Nat /\ connUngranted \in Nat /\ windowHeld \in Nat
  BY DEF TypeOK
<1> QED BY <1>1 DEF GrantConn

LEMMA FinishTyped ==
    ASSUME TypeOK, NEW s \in Streams, NEW how \in {"closed", "reset"}, Finish(s, how)
    PROVE  /\ edge' \in [Streams -> {"idle", "open", "head", "ended", "closed", "reset"}]
           /\ connWire' \in Nat /\ connUngranted' \in Nat /\ windowHeld' \in Nat
<1>1. edge' \in [Streams -> {"idle", "open", "head", "ended", "closed", "reset"}]
  BY DEF Finish, TypeOK
<1>2. CASE UNCHANGED <<connWire, connUngranted, windowHeld>>
  BY <1>1, <1>2 DEF TypeOK
<1>3. CASE GrantConn(0, 0, FALSE)
  BY <1>1, <1>3, GrantIsNat
<1> QED BY <1>2, <1>3 DEF Finish

LEMMA AdvanceTyped ==
    ASSUME TypeOK, NEW s \in Streams, NEW from \in {"open", "head"}, NEW to \in {"head", "ended"},
           Advance(s, from, to)
    PROVE  /\ edge' \in [Streams -> {"idle", "open", "head", "ended", "closed", "reset"}]
           /\ connWire' \in Nat /\ connUngranted' \in Nat /\ windowHeld' \in Nat
           /\ fault' \in [Streams -> BOOLEAN]
           /\ toAgent' \in [Streams -> SUBSET {"head", "reset"}]
<1>1. CASE Violation(s) /\ Finish(s, "reset")
  BY <1>1, FinishTyped DEF Violation, TypeOK
<1>2. CASE /\ edge' = [edge EXCEPT ![s] = IF @ = from THEN to ELSE @]
           /\ UNCHANGED <<fault, toAgent, connWire, connUngranted, windowHeld>>
  BY <1>2 DEF TypeOK
<1> QED BY <1>1, <1>2 DEF Advance

LEMMA InitTyped == Init => TypeOK
<1> SUFFICES ASSUME Init PROVE TypeOK
  OBVIOUS
<1>1. /\ agent \in [Streams -> {"none", "open", "removed"}]
      /\ edge \in [Streams -> {"idle", "open", "head", "ended", "closed", "reset"}]
      /\ toEdge \in [Streams -> SUBSET {"head", "end", "reset"}]
      /\ toAgent \in [Streams -> SUBSET {"head", "reset"}]
  BY DEF Init
<1> QED BY <1>1, ConstantsAssumption DEF Init, TypeOK

LEMMA RunReturnsTyped ==
    ASSUME TypeOK, NEW s \in Streams, NEW F \in SUBSET {"end", "reset"}, RunReturns(s, F),
           inHand' \in [Streams -> Nat]
    PROVE  TypeOK'
  BY DEF RunReturns, TypeOK, edgeVars

LEMMA StreamStepTyped ==
    ASSUME TypeOK, NEW s \in Streams, StreamStep(s)
    PROVE  TypeOK'
<1> USE ConstantsAssumption DEF TypeOK, edgeVars, agentVars, wireVars
<1>1. CASE Start(s)
  BY <1>1 DEF Start
<1>2. CASE RecvReqHead(s)
  BY <1>2 DEF RecvReqHead
<1>3. ASSUME NEW n \in Bodies, SendHead(s, n) PROVE TypeOK'
  <2>1. n \in Nat
    OBVIOUS
  <2> QED BY <1>3, <2>1 DEF SendHead
<1>4. ASSUME NEW want \in Chunk, Acquire(s, want) PROVE TypeOK'
  <2> DEFINE n == AcquireBytes(s, want)
  <2>1. n \in Nat /\ n <= credit[s] /\ n <= connCredit /\ n <= bodyLeft[s]
    BY <1>4 DEF Acquire, AcquireBytes, Least, Chunk
  <2> HIDE DEF n
  <2>2. credit[s] - n \in Nat /\ connCredit - n \in Nat /\ bodyLeft[s] - n \in Nat
    BY <2>1
  <2> QED BY <1>4, <2>1, <2>2 DEF Acquire, n
<1>5. CASE SendBody(s)
  BY <1>5 DEF SendBody
<1>6. CASE SendEnd(s)
  <2>1. {"end"} \in SUBSET {"end", "reset"} /\ RunReturns(s, {"end"}) /\ UNCHANGED inHand
    BY <1>6 DEF SendEnd
  <2> QED BY <2>1, RunReturnsTyped
<1>7. CASE GiveUp(s)
  <2>1. PICK F \in SUBSET {"reset"} : RunReturns(s, F)
    BY <1>7 DEF GiveUp
  <2>2. F \in SUBSET {"end", "reset"} /\ inHand' \in [Streams -> Nat]
    BY <1>7 DEF GiveUp
  <2> QED BY <2>1, <2>2, RunReturnsTyped
<1>8. CASE RecvWindow(s)
  BY <1>8 DEF RecvWindow
<1>9. CASE RecvEdgeReset(s)
  BY <1>9 DEF RecvEdgeReset
<1>10. CASE RecvHead(s)
  <2>1. Advance(s, "open", "head")
    BY <1>10 DEF RecvHead
  <2>2. toEdge' \in [Streams -> SUBSET {"head", "end", "reset"}]
    BY <1>10 DEF RecvHead
  <2>3. UNCHANGED <<agentVars, bodyWire, winWire, outstanding, ungranted, dropped>>
    BY <2>1 DEF Advance
  <2> QED BY <2>1, <2>2, <2>3, AdvanceTyped
<1>11. ASSUME NEW k \in Chunk, Deliver(s, k) PROVE TypeOK'
  <2>1. k \in Nat /\ bodyWire[s] - k \in Nat /\ outstanding[s] + k \in Nat /\ windowHeld + k \in Nat
    BY <1>11 DEF Deliver, Chunk, Least
  <2>2. bodyWire' \in [Streams -> Nat] /\ dropped' \in BOOLEAN
    BY <1>11, <2>1 DEF Deliver
  <2>3. UNCHANGED <<agentVars, toEdge, winWire, ungranted>>
    BY <1>11 DEF Deliver
  <2>4. CASE /\ Violation(s)
             /\ edge' = [edge EXCEPT ![s] = "reset"]
             /\ GrantConn(k, k, SomeActive(Streams \ {s}))
             /\ UNCHANGED outstanding
    <3>1. SomeActive(Streams \ {s}) \in BOOLEAN
      BY DEF SomeActive, Active
    <3>2. connWire' \in Nat /\ connUngranted' \in Nat /\ windowHeld' \in Nat
      BY <2>1, <2>4, <3>1, GrantIsNat
    <3> QED BY <2>2, <2>3, <2>4, <3>2 DEF Violation
  <2>5. CASE /\ outstanding' = [outstanding EXCEPT ![s] = @ + k]
             /\ windowHeld' = windowHeld + k
             /\ UNCHANGED <<connWire, connUngranted, edge, fault, toAgent>>
    BY <2>1, <2>2, <2>3, <2>5
  <2>6. CASE /\ GrantConn(k, k, SomeActive(Streams))
             /\ UNCHANGED <<outstanding, edge, fault, toAgent>>
    <3>1. SomeActive(Streams) \in BOOLEAN
      BY DEF SomeActive, Active
    <3>2. connWire' \in Nat /\ connUngranted' \in Nat /\ windowHeld' \in Nat
      BY <2>1, <2>6, <3>1, GrantIsNat
    <3> QED BY <2>2, <2>3, <2>6, <3>2
  <2> QED BY <1>11, <2>4, <2>5, <2>6 DEF Deliver
<1>12. ASSUME NEW k \in Chunk, Consume(s, k) PROVE TypeOK'
  <2>1. k \in Nat /\ outstanding[s] - k \in Nat /\ ungranted[s] + k \in Nat
    BY <1>12 DEF Consume, Chunk, Least
  <2>2. SomeActive(Streams) \in BOOLEAN /\ 0 \in Nat
    BY DEF SomeActive, Active
  <2>3. connWire' \in Nat /\ connUngranted' \in Nat /\ windowHeld' \in Nat
    BY <1>12, <2>1, <2>2, GrantIsNat DEF Consume
  <2>4. winWire' \in [Streams -> Nat] /\ ungranted' \in [Streams -> Nat]
    BY <1>12, <2>1 DEF Consume, GrantStream
  <2> QED BY <1>12, <2>1, <2>3, <2>4 DEF Consume
<1>13. CASE RecvEnd(s)
  <2>1. Advance(s, "head", "ended")
    BY <1>13 DEF RecvEnd
  <2>2. toEdge' \in [Streams -> SUBSET {"head", "end", "reset"}]
    BY <1>13 DEF RecvEnd
  <2>3. UNCHANGED <<agentVars, bodyWire, winWire, outstanding, ungranted, dropped>>
    BY <2>1 DEF Advance
  <2> QED BY <2>1, <2>2, <2>3, AdvanceTyped
<1>14. CASE Close(s)
  BY <1>14, FinishTyped DEF Close
<1>15. CASE EdgeReset(s)
  BY <1>15, FinishTyped DEF EdgeReset
<1>16. CASE RecvReset(s)
  <2>1. CASE Finish(s, "reset")
    BY <1>16, <2>1, FinishTyped DEF RecvReset
  <2>2. CASE UNCHANGED <<edge, connWire, connUngranted, windowHeld>>
    BY <1>16, <2>2 DEF RecvReset
  <2> QED BY <1>16, <2>1, <2>2 DEF RecvReset
<1> QED
  BY <1>1, <1>2, <1>3, <1>4, <1>5, <1>6, <1>7, <1>8, <1>9, <1>10, <1>11, <1>12,
     <1>13, <1>14, <1>15, <1>16 DEF StreamStep

LEMMA CutTyped == ASSUME TypeOK, NEW s \in Streams, CutStep(s) PROVE TypeOK'
<1>1. PICK F \in SUBSET {"reset"} : Cut(s, F)
  BY DEF CutStep
<1>2. F \in SUBSET {"end", "reset"} /\ inHand' \in [Streams -> Nat] /\ RunReturns(s, F)
  BY <1>1 DEF Cut, TypeOK
<1> QED BY <1>2, RunReturnsTyped

LEMMA NextTyped == TypeOK /\ [Next]_vars => TypeOK'
<1> SUFFICES ASSUME TypeOK, [Next]_vars PROVE TypeOK'
  OBVIOUS
<1>1. CASE RecvConnWindow
  BY <1>1 DEF RecvConnWindow, TypeOK, edgeVars
<1>2. CASE Hibernate
  BY <1>2 DEF Hibernate, TypeOK, agentVars, wireVars
<1>3. CASE UNCHANGED vars
  BY <1>3 DEF vars, edgeVars, agentVars, wireVars, TypeOK
<1> QED BY <1>1, <1>2, <1>3, StepCases, StreamStepTyped, CutTyped

\* Every variable keeps its type; in particular no credit, receive window or
\* grant counter ever becomes negative (flow.go acquire, flow.ts ReceiveWindow).
THEOREM TypeCorrect == Spec => []TypeOK
  BY InitTyped, NextTyped, PTL DEF Spec
-----------------------------------------------------------------------------
(* The stream window.                                                      *)

\* The bytes of a stream that the loop counts.
LoopVars(s) ==
    <<credit[s], inHand[s], bodyWire[s], outstanding[s], ungranted[s], winWire[s]>>

LEMMA LoopTyped ==
    ASSUME TypeOK, NEW s \in Streams
    PROVE  /\ credit[s] \in Nat /\ inHand[s] \in Nat /\ bodyWire[s] \in Nat
           /\ outstanding[s] \in Nat /\ ungranted[s] \in Nat /\ winWire[s] \in Nat
           /\ STREAM_WINDOW \in Nat
  BY ConstantsAssumption DEF TypeOK

\* The steps that move no byte of a body and no credit of a stream.
QuietStep(s) ==
    \/ Start(s) \/ RecvReqHead(s)
    \/ \E n \in Bodies : SendHead(s, n)
    \/ SendEnd(s) \/ GiveUp(s) \/ RecvEdgeReset(s) \/ RecvHead(s) \/ RecvEnd(s)
    \/ Close(s) \/ EdgeReset(s) \/ RecvReset(s)

LEMMA QuietStepsStand ==
    ASSUME NEW s \in Streams, QuietStep(s)
    PROVE  UNCHANGED <<credit, inHand, bodyWire, outstanding, ungranted, winWire, connCredit>>
  BY
     DEF QuietStep, Start, RecvReqHead, SendHead, SendEnd, GiveUp, RunReturns,
         RecvEdgeReset,
         RecvHead, RecvEnd, Advance, Close, EdgeReset, RecvReset, edgeVars, agentVars, wireVars

LEMMA OthersStand ==
    ASSUME TypeOK, NEW s \in Streams, NEW t \in Streams \ {s}, StreamStep(s) \/ CutStep(s)
    PROVE  UNCHANGED LoopVars(t)
<1> USE DEF LoopVars, TypeOK, edgeVars, agentVars, wireVars
<1>1. CASE QuietStep(s)
  BY <1>1, QuietStepsStand
<1>2. ASSUME NEW want \in Chunk, Acquire(s, want) PROVE UNCHANGED LoopVars(t)
  BY <1>2 DEF Acquire
<1>3. CASE SendBody(s)
  BY <1>3 DEF SendBody
<1>4. CASE RecvWindow(s)
  BY <1>4 DEF RecvWindow
<1>5. ASSUME NEW k \in Chunk, Deliver(s, k) PROVE UNCHANGED LoopVars(t)
  BY <1>5 DEF Deliver
<1>6. ASSUME NEW k \in Chunk, Consume(s, k) PROVE UNCHANGED LoopVars(t)
  BY <1>6 DEF Consume, GrantStream
<1>7. CASE CutStep(s)
  BY <1>7 DEF CutStep, Cut, RunReturns
<1> QED BY <1>1, <1>2, <1>3, <1>4, <1>5, <1>6, <1>7 DEF StreamStep, QuietStep

LoopStep(s) == [StreamLoop(s)!NextEnding]_(StreamLoop(s)!vars)

LEMMA LoopHandle ==
    ASSUME TypeOK, StreamBounded, NEW s \in Streams, NEW n \in Nat, NEW g \in Nat, NEW f \in Nat,
           inHand'[s] + bodyWire'[s] + n = inHand[s] + bodyWire[s],
           inHand'[s] \in Nat, bodyWire'[s] \in Nat,
           g + f <= outstanding[s] + ungranted[s] + n,
           outstanding'[s] + ungranted'[s] = (outstanding[s] + ungranted[s] + n) - (g + f),
           winWire'[s] = winWire[s] + g,
           UNCHANGED credit
    PROVE  LoopStep(s)
<1>1. credit[s] + (inHand[s] + bodyWire[s]) + (outstanding[s] + ungranted[s]) + winWire[s]
        <= STREAM_WINDOW
  BY DEF StreamBounded, StreamLoop!NoOverrun
<1>2. n \in 0 .. STREAM_WINDOW /\ g \in 0 .. STREAM_WINDOW /\ f \in 0 .. STREAM_WINDOW
  BY <1>1, LoopTyped
<1>3. StreamLoop(s)!Handle(n, g, f)
  BY LoopTyped DEF StreamLoop!Handle
<1> QED BY <1>2, <1>3 DEF LoopStep, StreamLoop!NextEnding

LEMMA AcquireTakes ==
    ASSUME TypeOK, NEW s \in Streams, NEW want \in Chunk, Acquire(s, want)
    PROVE  \E n \in Nat :
             /\ n > 0 /\ n <= credit[s] /\ n <= connCredit
             /\ inHand[s] = 0
             /\ credit' = [credit EXCEPT ![s] = @ - n]
             /\ connCredit' = connCredit - n
             /\ inHand' = [inHand EXCEPT ![s] = n]
             /\ UNCHANGED <<wireVars, edgeVars>>
<1> DEFINE n == AcquireBytes(s, want)
<1>1. n \in Nat /\ n <= credit[s] /\ n <= connCredit
  BY ConstantsAssumption DEF Acquire, AcquireBytes, Least, Chunk, TypeOK
<1>2. /\ n > 0 /\ inHand[s] = 0
      /\ credit' = [credit EXCEPT ![s] = @ - n]
      /\ connCredit' = connCredit - n
      /\ inHand' = [inHand EXCEPT ![s] = n]
      /\ UNCHANGED <<wireVars, edgeVars>>
  BY DEF Acquire, Sending
<1> HIDE DEF n
<1> QED BY <1>1, <1>2

LEMMA StreamStepIsLoopStep ==
    ASSUME TypeOK, StreamBounded, NEW s \in Streams, StreamStep(s)
    PROVE  LoopStep(s)
<1>0. /\ credit[s] \in Nat /\ inHand[s] \in Nat /\ bodyWire[s] \in Nat
      /\ outstanding[s] \in Nat /\ ungranted[s] \in Nat /\ winWire[s] \in Nat
      /\ STREAM_WINDOW \in Nat
      /\ credit[s] + (inHand[s] + bodyWire[s]) + (outstanding[s] + ungranted[s]) + winWire[s]
           <= STREAM_WINDOW
  BY LoopTyped DEF StreamBounded, StreamLoop!NoOverrun
<1>T. /\ credit \in [Streams -> Nat] /\ inHand \in [Streams -> Nat]
      /\ bodyWire \in [Streams -> Nat] /\ outstanding \in [Streams -> Nat]
      /\ ungranted \in [Streams -> Nat] /\ winWire \in [Streams -> Nat]
  BY DEF TypeOK
<1>1. CASE QuietStep(s)
  BY <1>1, QuietStepsStand DEF LoopStep, StreamLoop!vars
<1>2. ASSUME NEW want \in Chunk, Acquire(s, want) PROVE LoopStep(s)
  <2>1. PICK n \in Nat :
             /\ n > 0 /\ n <= credit[s]
             /\ inHand[s] = 0
             /\ credit' = [credit EXCEPT ![s] = @ - n]
             /\ inHand' = [inHand EXCEPT ![s] = n]
             /\ UNCHANGED <<wireVars, edgeVars>>
    BY <1>2, AcquireTakes
  <2>2. n \in 1 .. STREAM_WINDOW
    BY <1>0, <2>1
  <2>3. credit'[s] = credit[s] - n /\ inHand'[s] = n
    BY <1>T, <2>1
  <2>4. StreamLoop(s)!Send(n)
    BY <1>0, <2>1, <2>3 DEF StreamLoop!Send, wireVars, edgeVars
  <2> QED BY <2>2, <2>4 DEF LoopStep, StreamLoop!NextEnding
<1>3. CASE SendBody(s)
  <2>1. /\ inHand'[s] = 0 /\ bodyWire'[s] = bodyWire[s] + inHand[s]
        /\ UNCHANGED <<credit, outstanding, ungranted, winWire>>
    BY <1>3, <1>T DEF SendBody, edgeVars
  <2>2. inHand'[s] + bodyWire'[s] = inHand[s] + bodyWire[s]
    BY <1>0, <2>1
  <2> QED BY <2>1, <2>2 DEF LoopStep, StreamLoop!vars
<1>4. CASE RecvWindow(s)
  <2> DEFINE n == winWire[s]
             k == IF agent[s] = "open" THEN n ELSE 0
  <2>1. n \in 0 .. STREAM_WINDOW /\ k \in 0 .. STREAM_WINDOW /\ k <= n
    BY <1>0
  <2>2. /\ credit'[s] = credit[s] + k
        /\ winWire'[s] = 0
        /\ UNCHANGED <<outstanding, ungranted, bodyWire, inHand>>
    <3>1. CASE agent[s] = "open"
      BY <1>4, <1>T, <3>1 DEF RecvWindow, edgeVars
    <3>2. CASE agent[s] # "open"
      BY <1>4, <1>0, <1>T, <3>2 DEF RecvWindow, edgeVars
    <3> QED BY <3>1, <3>2
  <2>3. StreamLoop(s)!Return(n, k)
    BY <1>0, <2>1, <2>2 DEF StreamLoop!Return
  <2> QED BY <2>1, <2>3 DEF LoopStep, StreamLoop!NextEnding
<1>5. ASSUME NEW k \in Chunk, Deliver(s, k) PROVE LoopStep(s)
  <2>1. k \in Nat /\ k <= bodyWire[s]
    BY <1>5, <1>0, ConstantsAssumption DEF Deliver, Least, Chunk
  <2>2. /\ bodyWire'[s] = bodyWire[s] - k
        /\ UNCHANGED <<credit, inHand, ungranted, winWire>>
    BY <1>5, <1>T DEF Deliver, agentVars
  <2>3. inHand'[s] + bodyWire'[s] + k = inHand[s] + bodyWire[s] /\ inHand'[s] \in Nat
        /\ bodyWire'[s] \in Nat /\ winWire'[s] = winWire[s] + 0 /\ 0 \in Nat
    BY <1>0, <2>1, <2>2
  <2>4. CASE outstanding' = [outstanding EXCEPT ![s] = @ + k]
    <3>1. outstanding'[s] = outstanding[s] + k
      BY <1>T, <2>4
    <3>2. /\ 0 + 0 <= outstanding[s] + ungranted[s] + k
          /\ outstanding'[s] + ungranted'[s] = (outstanding[s] + ungranted[s] + k) - (0 + 0)
      BY <1>0, <2>1, <2>2, <3>1
    <3> QED BY <2>1, <2>2, <2>3, <3>2, LoopHandle
  <2>5. CASE UNCHANGED outstanding
    <3>1. /\ 0 + k <= outstanding[s] + ungranted[s] + k
          /\ outstanding'[s] + ungranted'[s] = (outstanding[s] + ungranted[s] + k) - (0 + k)
      BY <1>0, <2>1, <2>2, <2>5
    <3> QED BY <2>1, <2>2, <2>3, <3>1, LoopHandle
  <2> QED BY <1>5, <2>4, <2>5 DEF Deliver
<1>6. ASSUME NEW k \in Chunk, Consume(s, k) PROVE LoopStep(s)
  <2>1. k \in Nat /\ k <= outstanding[s]
    BY <1>6, <1>0, ConstantsAssumption DEF Consume, Least, Chunk
  <2>2. outstanding'[s] = outstanding[s] - k /\ UNCHANGED <<credit, inHand, bodyWire>>
    BY <1>6, <1>T DEF Consume, agentVars
  <2>3. inHand'[s] + bodyWire'[s] + 0 = inHand[s] + bodyWire[s] /\ inHand'[s] \in Nat
        /\ bodyWire'[s] \in Nat /\ 0 \in Nat
    BY <1>0, <2>2
  <2>4. CASE edge[s] = "head"
    <3> DEFINE u == ungranted[s] + k
               g == IF u >= STREAM_WINDOW \div 4 THEN u ELSE 0
    <3>1. GrantStream(s, k)
      BY <1>6, <2>4 DEF Consume
    <3>2. winWire'[s] = winWire[s] + g /\ ungranted'[s] = u - g /\ g \in Nat /\ u \in Nat /\ g <= u
      <4>1. CASE u >= STREAM_WINDOW \div 4
        BY <1>0, <1>T, <2>1, <3>1, <4>1 DEF GrantStream
      <4>2. CASE ~(u >= STREAM_WINDOW \div 4)
        BY <1>0, <1>T, <2>1, <3>1, <4>2 DEF GrantStream
      <4> QED BY <4>1, <4>2
    <3> HIDE DEF g
    <3>3. /\ g + 0 <= outstanding[s] + ungranted[s] + 0
          /\ outstanding'[s] + ungranted'[s] = (outstanding[s] + ungranted[s] + 0) - (g + 0)
      BY <1>0, <2>1, <2>2, <3>2
    <3> QED BY <2>2, <2>3, <3>2, <3>3, LoopHandle
  <2>5. CASE edge[s] # "head"
    <3>1. winWire'[s] = winWire[s] + 0 /\ ungranted'[s] = ungranted[s]
      BY <1>0, <1>6, <2>5 DEF Consume
    <3>2. /\ 0 + k <= outstanding[s] + ungranted[s] + 0
          /\ outstanding'[s] + ungranted'[s] = (outstanding[s] + ungranted[s] + 0) - (0 + k)
      BY <1>0, <2>1, <2>2, <3>1
    <3> QED BY <2>1, <2>2, <2>3, <3>1, <3>2, LoopHandle
  <2> QED BY <2>4, <2>5
<1> QED BY <1>1, <1>2, <1>3, <1>4, <1>5, <1>6 DEF StreamStep, QuietStep

LEMMA CutIsLoopStep ==
    ASSUME TypeOK, StreamBounded, NEW s \in Streams, CutStep(s)
    PROVE  LoopStep(s)
<1> DEFINE n == inHand[s]
<1>1. inHand' = [inHand EXCEPT ![s] = 0]
      /\ UNCHANGED <<credit, bodyWire, winWire, outstanding, ungranted>>
  BY DEF CutStep, Cut, RunReturns, edgeVars
<1>2. inHand'[s] = 0
  BY <1>1 DEF TypeOK
<1>3. /\ inHand'[s] + bodyWire'[s] + n = inHand[s] + bodyWire[s]
      /\ n \in Nat /\ 0 \in Nat /\ bodyWire'[s] \in Nat /\ winWire'[s] = winWire[s] + 0
      /\ 0 + n <= outstanding[s] + ungranted[s] + n
      /\ outstanding'[s] + ungranted'[s] = (outstanding[s] + ungranted[s] + n) - (0 + n)
  BY <1>1, <1>2, LoopTyped
<1> QED BY <1>1, <1>2, <1>3, LoopHandle

LEMMA ConnectionStepsStand ==
    ASSUME RecvConnWindow \/ Hibernate \/ UNCHANGED vars, NEW s \in Streams
    PROVE  UNCHANGED LoopVars(s)
  BY DEF RecvConnWindow, Hibernate, vars, edgeVars, agentVars, wireVars, LoopVars

\* Every step of the system is, for every stream, a step of its credit loop.
LEMMA NextIsLoopStep ==
    ASSUME TypeOK, StreamBounded, [Next]_vars, NEW t \in Streams
    PROVE  LoopStep(t)
<1>1. CASE UNCHANGED LoopVars(t)
  BY <1>1 DEF LoopVars, LoopStep, StreamLoop!vars
<1>2. ASSUME NEW s \in Streams, StreamStep(s) \/ CutStep(s) PROVE LoopStep(t)
  <2>1. CASE s = t
    BY <1>2, <2>1, StreamStepIsLoopStep, CutIsLoopStep
  <2>2. CASE s # t
    BY <1>1, <1>2, <2>2, OthersStand
  <2> QED BY <2>1, <2>2
<1> QED BY <1>1, <1>2, StepCases, ConnectionStepsStand

LEMMA LoopStepBounded ==
    ASSUME TypeOK, TypeOK', NEW t \in Streams, StreamLoop(t)!NoOverrun, LoopStep(t)
    PROVE  StreamLoop(t)!NoOverrun'
<1>0. /\ credit[t] \in Nat /\ inHand[t] + bodyWire[t] \in Nat
      /\ outstanding[t] + ungranted[t] \in Nat /\ winWire[t] \in Nat
      /\ credit'[t] \in Nat /\ inHand'[t] + bodyWire'[t] \in Nat
      /\ outstanding'[t] + ungranted'[t] \in Nat /\ winWire'[t] \in Nat
      /\ STREAM_WINDOW \in Nat
  BY ConstantsAssumption DEF TypeOK
<1> USE <1>0 DEF StreamLoop!NoOverrun
<1>1. ASSUME NEW n \in 1 .. STREAM_WINDOW, StreamLoop(t)!Send(n)
      PROVE  StreamLoop(t)!NoOverrun'
  BY <1>1 DEF StreamLoop!Send
<1>2. ASSUME NEW n \in 0 .. STREAM_WINDOW, NEW g \in 0 .. STREAM_WINDOW,
             NEW f \in 0 .. STREAM_WINDOW, StreamLoop(t)!Handle(n, g, f)
      PROVE  StreamLoop(t)!NoOverrun'
  BY <1>2 DEF StreamLoop!Handle
<1>3. ASSUME NEW n \in 0 .. STREAM_WINDOW, NEW k \in 0 .. STREAM_WINDOW,
             StreamLoop(t)!Return(n, k)
      PROVE  StreamLoop(t)!NoOverrun'
  BY <1>3 DEF StreamLoop!Return
<1>4. CASE UNCHANGED StreamLoop(t)!vars
  BY <1>4 DEF StreamLoop!vars
<1> QED BY <1>1, <1>2, <1>3, <1>4 DEF LoopStep, StreamLoop!NextEnding

IInv == TypeOK /\ StreamBounded

LEMMA InitIInv == Init => IInv
<1> SUFFICES ASSUME Init PROVE StreamBounded
  BY InitTyped DEF IInv
<1> QED BY ConstantsAssumption DEF Init, StreamBounded, StreamLoop!NoOverrun

LEMMA NextIInv == IInv /\ [Next]_vars => IInv'
<1> SUFFICES ASSUME IInv, [Next]_vars PROVE IInv'
  OBVIOUS
<1>1. TypeOK'
  BY NextTyped DEF IInv
<1>2. ASSUME NEW t \in Streams PROVE StreamLoop(t)!NoOverrun'
  <2>1. StreamLoop(t)!NoOverrun
    BY DEF IInv, StreamBounded
  <2>2. LoopStep(t)
    BY NextIsLoopStep DEF IInv
  <2> QED BY <1>1, <2>1, <2>2, LoopStepBounded DEF IInv
<1> QED BY <1>1, <1>2 DEF IInv, StreamBounded

\* Every stream window of the download direction is bounded (StreamBounded), for
\* any number of streams and any interleaving of cancellations and resets.
THEOREM StreamsBounded == Spec => []StreamBounded
<1>1. IInv => StreamBounded
  BY DEF IInv
<1> QED BY InitIInv, NextIInv, <1>1, PTL DEF Spec

\* The streams of the system implement credit loops that end with them: every
\* step of the agent or the edge is a step of each loop or a stutter.
THEOREM StreamsRefineLoop == Spec => StreamsImplementLoop
<1>1. Init => \A s \in Streams : StreamLoop(s)!Init
  BY DEF Init, StreamLoop!Init
<1>2. IInv /\ [Next]_vars
        => [\A s \in Streams : [StreamLoop(s)!NextEnding]_(StreamLoop(s)!vars)]_vars
  BY NextIsLoopStep DEF IInv, LoopStep
<1> QED BY InitIInv, NextIInv, <1>1, <1>2, PTL DEF Spec, StreamsImplementLoop
-----------------------------------------------------------------------------
(* The connection window: the same loop, with sums over all streams, and   *)
(* the receive window the edge keeps of it (flow.ts ReceiveWindow).        *)

ConnBounded == ConnLoop!NoOverrun

\* The receive window counts what the loop holds, and no more.
HeldExact == windowHeld = SumFunction(outstanding) + connUngranted

\* Credit is coalesced only while a stream is active.
Flushed == ~SomeActive(Streams) => connUngranted = 0

ConnInv == TypeOK /\ ConnBounded /\ HeldExact /\ Flushed

ConnStep == [ConnLoop!NextExact]_(ConnLoop!vars)

LEMMA SumMoves ==
    ASSUME NEW f \in [Streams -> Nat], NEW h \in [Streams -> Nat], NEW s \in Streams,
           NEW n \in Nat, h[s] = f[s] + n, \A t \in Streams \ {s} : h[t] = f[t]
    PROVE  SumFunction(h) = SumFunction(f) + n
<1>1. IsFiniteSet(Streams)
  BY ConstantsAssumption
<1> QED BY <1>1, SumGrows

LEMMA ConnTyped ==
    ASSUME TypeOK
    PROVE  /\ connCredit \in Nat /\ connUngranted \in Nat /\ connWire \in Nat
           /\ windowHeld \in Nat /\ SumFunction(inHand) \in Nat
           /\ SumFunction(bodyWire) \in Nat /\ SumFunction(outstanding) \in Nat
           /\ CONN_WINDOW \in Nat
  BY ConstantsAssumption, SumIsNat DEF TypeOK

LEMMA ConnTypedNext ==
    ASSUME TypeOK'
    PROVE  /\ connCredit' \in Nat /\ connUngranted' \in Nat /\ connWire' \in Nat
           /\ windowHeld' \in Nat /\ SumFunction(inHand') \in Nat
           /\ SumFunction(bodyWire') \in Nat /\ SumFunction(outstanding') \in Nat
  BY ConstantsAssumption, SumIsNat DEF TypeOK

\* n bytes come off the wire and g bytes of credit go back.
Pass(n, g) ==
    /\ UNCHANGED connCredit
    /\ SumFunction(inHand') + SumFunction(bodyWire') + n = SumFunction(inHand) + SumFunction(bodyWire)
    /\ SumFunction(outstanding') + connUngranted' + g = SumFunction(outstanding) + connUngranted + n
    /\ connWire' = connWire + g
    /\ windowHeld' + g = windowHeld + n

LEMMA PassIsConnStep ==
    ASSUME TypeOK, TypeOK', ConnBounded, HeldExact, NEW n \in Nat, NEW g \in Nat, Pass(n, g)
    PROVE  ConnStep /\ HeldExact'
<1>1. connCredit + (SumFunction(inHand) + SumFunction(bodyWire))
        + (SumFunction(outstanding) + connUngranted) + connWire <= CONN_WINDOW
  BY DEF ConnBounded, ConnLoop!NoOverrun
<1>2. n \in 0 .. CONN_WINDOW /\ g \in 0 .. CONN_WINDOW
  BY <1>1, ConnTyped, ConnTypedNext DEF Pass
<1>3. ConnLoop!Handle(n, g, 0)
  BY ConnTyped, ConnTypedNext DEF Pass, ConnLoop!Handle
<1>4. ConnStep
  BY <1>2, <1>3 DEF ConnStep, ConnLoop!NextExact
<1>5. HeldExact'
  BY ConnTyped, ConnTypedNext DEF Pass, HeldExact
<1> QED BY <1>4, <1>5

\* What grantConn does: g bytes leave the coalesced credit, and with it the
\* receive window, for the wire.
LEMMA GrantSplits ==
    ASSUME TypeOK, NEW n \in Nat, NEW got \in Nat, NEW active \in BOOLEAN,
           connUngranted + n <= windowHeld + got, GrantConn(n, got, active)
    PROVE  \E g \in Nat : /\ connWire' = connWire + g
                          /\ connUngranted' + g = connUngranted + n
                          /\ windowHeld' + g = windowHeld + got
<1> DEFINE u == connUngranted + n
           flush == u >= CONN_WINDOW \div 4 \/ ~active
<1>1. u \in Nat /\ connWire \in Nat /\ windowHeld \in Nat
  BY DEF TypeOK
<1>2. CASE flush
  <2>1. connWire' = connWire + u /\ connUngranted' = 0 /\ windowHeld' = (windowHeld + got) - u
    BY <1>2 DEF GrantConn
  <2>2. connUngranted' + u = u /\ windowHeld' + u = windowHeld + got
    BY <1>1, <2>1
  <2> HIDE DEF u
  <2> QED BY <1>1, <2>1, <2>2 DEF u
<1>3. CASE ~flush
  <2>1. connWire' = connWire /\ connUngranted' = u /\ windowHeld' = windowHeld + got
    BY <1>3 DEF GrantConn
  <2>2. 0 \in Nat /\ connWire' = connWire + 0 /\ connUngranted' + 0 = connUngranted + n
        /\ windowHeld' + 0 = windowHeld + got
    BY <1>1, <2>1
  <2> QED BY <2>2
<1> QED BY <1>2, <1>3

LEMMA StandsIsPass ==
    ASSUME TypeOK, UNCHANGED <<connCredit, inHand, bodyWire, outstanding,
                               connUngranted, connWire, windowHeld>>
    PROVE  Pass(0, 0)
  BY ConnTyped DEF Pass

LEMMA FinishPasses ==
    ASSUME TypeOK, HeldExact, NEW s \in Streams, NEW how, Finish(s, how),
           UNCHANGED <<connCredit, inHand, bodyWire, outstanding>>
    PROVE  \E n, g \in Nat : Pass(n, g)
<1>1. CASE UNCHANGED <<connWire, connUngranted, windowHeld>>
  BY <1>1, StandsIsPass
<1>2. CASE GrantConn(0, 0, FALSE)
  <2>1. connUngranted + 0 <= windowHeld + 0 /\ 0 \in Nat /\ FALSE \in BOOLEAN
    BY ConnTyped DEF HeldExact
  <2>2. PICK g \in Nat : /\ connWire' = connWire + g
                         /\ connUngranted' + g = connUngranted + 0
                         /\ windowHeld' + g = windowHeld + 0
    BY <1>2, <2>1, GrantSplits
  <2>3. connUngranted + 0 = connUngranted
    BY ConnTyped
  <2>4. connUngranted' \in Nat
    BY <1>2, <2>1, GrantIsNat
  <2>5. Pass(0, g)
    BY <2>2, <2>3, <2>4, ConnTyped DEF Pass
  <2> QED BY <2>5
<1> QED BY <1>1, <1>2 DEF Finish

\* Every step of a stream but acquire takes bytes off the wire, grants, or both.
LEMMA StreamStepPasses ==
    ASSUME TypeOK, TypeOK', HeldExact, NEW s \in Streams, StreamStep(s),
           ~ \E want \in Chunk : Acquire(s, want)
    PROVE  \E n, g \in Nat : Pass(n, g)
<1>T. /\ inHand \in [Streams -> Nat] /\ inHand' \in [Streams -> Nat]
      /\ bodyWire \in [Streams -> Nat] /\ bodyWire' \in [Streams -> Nat]
      /\ outstanding \in [Streams -> Nat] /\ outstanding' \in [Streams -> Nat]
  BY DEF TypeOK
<1>A. SomeActive(Streams) \in BOOLEAN /\ SomeActive(Streams \ {s}) \in BOOLEAN /\ 0 \in Nat
  BY DEF SomeActive, Active
<1> USE DEF edgeVars, agentVars, wireVars
<1>1. CASE \/ Start(s) \/ RecvReqHead(s) \/ \E n \in Bodies : SendHead(s, n)
           \/ SendEnd(s) \/ GiveUp(s) \/ RecvWindow(s) \/ RecvEdgeReset(s)
  <2>1. UNCHANGED <<connCredit, inHand, bodyWire, outstanding, connUngranted, connWire, windowHeld>>
    BY <1>1
       DEF Start, RecvReqHead, SendHead, SendEnd, GiveUp, RunReturns, RecvWindow,
           RecvEdgeReset
  <2> QED BY <1>A, <2>1, StandsIsPass
<1>2. CASE SendBody(s)
  <2>1. /\ inHand' = [inHand EXCEPT ![s] = 0] /\ bodyWire' = [bodyWire EXCEPT ![s] = @ + inHand[s]]
        /\ UNCHANGED <<connCredit, outstanding, connUngranted, connWire, windowHeld>>
    BY <1>2 DEF SendBody
  <2>2. /\ inHand[s] = inHand'[s] + inHand[s] /\ inHand[s] \in Nat
        /\ bodyWire'[s] = bodyWire[s] + inHand[s]
        /\ \A t \in Streams \ {s} : inHand[t] = inHand'[t] /\ bodyWire'[t] = bodyWire[t]
    BY <1>T, <2>1
  <2>3. /\ SumFunction(inHand) = SumFunction(inHand') + inHand[s]
        /\ SumFunction(bodyWire') = SumFunction(bodyWire) + inHand[s]
    <3> DEFINE n == inHand[s]
    <3>1. /\ n \in Nat /\ inHand[s] = inHand'[s] + n /\ bodyWire'[s] = bodyWire[s] + n
          /\ \A t \in Streams \ {s} : inHand[t] = inHand'[t]
          /\ \A t \in Streams \ {s} : bodyWire'[t] = bodyWire[t]
      BY <2>2
    <3> HIDE DEF n
    <3>2. SumFunction(inHand) = SumFunction(inHand') + n
      BY <1>T, <3>1, SumMoves
    <3>3. SumFunction(bodyWire') = SumFunction(bodyWire) + n
      BY <1>T, <3>1, SumMoves
    <3> QED BY <3>2, <3>3 DEF n
  <2>4. Pass(0, 0)
    BY <2>1, <2>2, <2>3, ConnTyped, ConnTypedNext DEF Pass
  <2> QED BY <1>A, <2>4
<1>3. CASE Close(s) \/ EdgeReset(s) \/ RecvReset(s)
  <2>1. UNCHANGED <<connCredit, inHand, bodyWire, outstanding>>
    BY <1>3 DEF Close, EdgeReset, RecvReset
  <2>2. CASE Finish(s, "closed") \/ Finish(s, "reset")
    BY <2>1, <2>2, FinishPasses
  <2>3. CASE UNCHANGED <<connWire, connUngranted, windowHeld>>
    BY <1>A, <2>1, <2>3, StandsIsPass
  <2> QED BY <1>3, <2>2, <2>3 DEF Close, EdgeReset, RecvReset
<1>4. CASE RecvHead(s) \/ RecvEnd(s)
  <2>1. UNCHANGED <<connCredit, inHand, bodyWire, outstanding>>
    BY <1>4 DEF RecvHead, RecvEnd, Advance
  <2>2. CASE Finish(s, "reset")
    BY <2>1, <2>2, FinishPasses
  <2>3. CASE UNCHANGED <<connWire, connUngranted, windowHeld>>
    BY <1>A, <2>1, <2>3, StandsIsPass
  <2> QED BY <1>4, <2>2, <2>3 DEF RecvHead, RecvEnd, Advance
<1>5. ASSUME NEW k \in Chunk, Deliver(s, k) PROVE \E n, g \in Nat : Pass(n, g)
  <2>1. k \in Nat /\ k <= bodyWire[s]
    BY <1>5, <1>T, ConstantsAssumption DEF Deliver, Least, Chunk
  <2>2. bodyWire' = [bodyWire EXCEPT ![s] = @ - k] /\ UNCHANGED <<connCredit, inHand>>
    BY <1>5 DEF Deliver
  <2>3. SumFunction(bodyWire) = SumFunction(bodyWire') + k
    <3>1. bodyWire[s] = bodyWire'[s] + k /\ \A t \in Streams \ {s} : bodyWire[t] = bodyWire'[t]
      BY <1>T, <2>1, <2>2
    <3> QED BY <1>T, <2>1, <3>1, SumMoves
  <2>4. CASE /\ outstanding' = [outstanding EXCEPT ![s] = @ + k]
             /\ windowHeld' = windowHeld + k
             /\ UNCHANGED <<connWire, connUngranted>>
    <3>1. outstanding'[s] = outstanding[s] + k
          /\ \A t \in Streams \ {s} : outstanding'[t] = outstanding[t]
      BY <1>T, <2>1, <2>4
    <3>2. SumFunction(outstanding') = SumFunction(outstanding) + k
      BY <1>T, <2>1, <3>1, SumMoves
    <3>3. Pass(k, 0)
      BY <2>1, <2>2, <2>3, <2>4, <3>2, ConnTyped, ConnTypedNext DEF Pass
    <3> QED BY <1>A, <2>1, <3>3
  <2>5. ASSUME NEW active \in BOOLEAN, GrantConn(k, k, active), UNCHANGED outstanding
        PROVE  \E n, g \in Nat : Pass(n, g)
    <3>1. connUngranted + k <= windowHeld + k
      BY <2>1, ConnTyped DEF HeldExact
    <3>2. PICK g \in Nat : /\ connWire' = connWire + g
                           /\ connUngranted' + g = connUngranted + k
                           /\ windowHeld' + g = windowHeld + k
      BY <2>1, <2>5, <3>1, GrantSplits
    <3>3. /\ UNCHANGED connCredit
          /\ SumFunction(inHand') = SumFunction(inHand)
          /\ SumFunction(outstanding') = SumFunction(outstanding)
      BY <2>2, <2>5
    <3>4. Pass(k, g)
      BY <2>1, <2>3, <3>2, <3>3, ConnTyped, ConnTypedNext DEF Pass
    <3> QED BY <2>1, <3>4
  <2> QED BY <1>5, <1>A, <2>4, <2>5 DEF Deliver
<1>6. ASSUME NEW k \in Chunk, Consume(s, k) PROVE \E n, g \in Nat : Pass(n, g)
  <2>1. k \in Nat /\ k <= outstanding[s]
    BY <1>6, <1>T, ConstantsAssumption DEF Consume, Least, Chunk
  <2>2. /\ outstanding' = [outstanding EXCEPT ![s] = @ - k]
        /\ UNCHANGED <<connCredit, inHand, bodyWire>>
        /\ GrantConn(k, 0, SomeActive(Streams))
    BY <1>6 DEF Consume
  <2>3. SumFunction(outstanding) = SumFunction(outstanding') + k
    <3>1. /\ outstanding[s] = outstanding'[s] + k
          /\ \A t \in Streams \ {s} : outstanding[t] = outstanding'[t]
      BY <1>T, <2>1, <2>2
    <3> QED BY <1>T, <2>1, <3>1, SumMoves
  <2>4. connUngranted + k <= windowHeld + 0
    BY <2>1, <2>3, ConnTyped, ConnTypedNext DEF HeldExact
  <2>5. PICK g \in Nat : /\ connWire' = connWire + g
                         /\ connUngranted' + g = connUngranted + k
                         /\ windowHeld' + g = windowHeld + 0
    BY <1>A, <2>1, <2>2, <2>4, GrantSplits
  <2>6. Pass(0, g)
    BY <2>1, <2>2, <2>3, <2>5, ConnTyped, ConnTypedNext DEF Pass
  <2> QED BY <1>A, <2>6
<1> QED BY <1>1, <1>2, <1>3, <1>4, <1>5, <1>6 DEF StreamStep

LEMMA AcquireIsConnStep ==
    ASSUME TypeOK, TypeOK', ConnBounded, HeldExact,
           NEW s \in Streams, NEW want \in Chunk, Acquire(s, want)
    PROVE  ConnStep /\ HeldExact'
<1>1. PICK n \in Nat :
             /\ n > 0 /\ n <= connCredit
             /\ inHand[s] = 0
             /\ connCredit' = connCredit - n
             /\ inHand' = [inHand EXCEPT ![s] = n]
             /\ UNCHANGED <<wireVars, edgeVars>>
  BY AcquireTakes
<1>2. n \in 1 .. CONN_WINDOW
  BY <1>1, ConnTyped DEF ConnBounded, ConnLoop!NoOverrun
<1>3. SumFunction(inHand') = SumFunction(inHand) + n
  <2>1. inHand \in [Streams -> Nat] /\ inHand' \in [Streams -> Nat]
    BY DEF TypeOK
  <2>2. inHand'[s] = inHand[s] + n /\ \A t \in Streams \ {s} : inHand'[t] = inHand[t]
    BY <1>1, <2>1
  <2> QED BY <2>1, <2>2, SumMoves
<1>4. ConnLoop!Send(n)
  BY <1>1, <1>3, ConnTyped DEF ConnLoop!Send, wireVars, edgeVars
<1>5. HeldExact'
  BY <1>1 DEF HeldExact, edgeVars
<1> QED BY <1>2, <1>4, <1>5 DEF ConnStep, ConnLoop!NextExact

LEMMA StreamStepIsConnStep ==
    ASSUME TypeOK, TypeOK', ConnBounded, HeldExact, NEW s \in Streams, StreamStep(s)
    PROVE  ConnStep /\ HeldExact'
<1>1. CASE \E want \in Chunk : Acquire(s, want)
  BY <1>1, AcquireIsConnStep
<1>2. CASE ~ \E want \in Chunk : Acquire(s, want)
  BY <1>2, StreamStepPasses, PassIsConnStep
<1> QED BY <1>1, <1>2

LEMMA ConnStepBounded ==
    ASSUME TypeOK, TypeOK', ConnBounded, ConnStep PROVE ConnBounded'
<1> USE ConnTyped, ConnTypedNext DEF ConnBounded, ConnLoop!NoOverrun
<1>1. ASSUME NEW n \in 1 .. CONN_WINDOW, ConnLoop!Send(n) PROVE ConnBounded'
  BY <1>1 DEF ConnLoop!Send
<1>2. ASSUME NEW n \in 0 .. CONN_WINDOW, NEW g \in 0 .. CONN_WINDOW, ConnLoop!Handle(n, g, 0)
      PROVE  ConnBounded'
  BY <1>2 DEF ConnLoop!Handle
<1>3. ASSUME NEW n \in 1 .. CONN_WINDOW, ConnLoop!Return(n, n) PROVE ConnBounded'
  BY <1>3 DEF ConnLoop!Return
<1>4. CASE UNCHANGED ConnLoop!vars
  BY <1>4 DEF ConnLoop!vars
<1> QED BY <1>1, <1>2, <1>3, <1>4 DEF ConnStep, ConnLoop!NextExact

\* The bytes a Cut drops leave the loop.
LEMMA CutKeepsConn ==
    ASSUME TypeOK, TypeOK', ConnBounded, HeldExact, NEW s \in Streams, CutStep(s)
    PROVE  ConnBounded' /\ HeldExact'
<1>1. /\ inHand' = [inHand EXCEPT ![s] = 0]
      /\ UNCHANGED <<connCredit, bodyWire, outstanding, connUngranted, connWire, windowHeld>>
  BY DEF CutStep, Cut, RunReturns, edgeVars
<1>2. SumFunction(inHand) = SumFunction(inHand') + inHand[s] /\ inHand[s] \in Nat
  <2>1. inHand \in [Streams -> Nat] /\ inHand' \in [Streams -> Nat]
    BY DEF TypeOK
  <2>2. /\ inHand[s] \in Nat /\ inHand[s] = inHand'[s] + inHand[s]
        /\ \A t \in Streams \ {s} : inHand[t] = inHand'[t]
    BY <1>1, <2>1
  <2> QED BY <2>1, <2>2, SumMoves
<1> QED
  BY <1>1, <1>2, ConnTyped, ConnTypedNext DEF ConnBounded, ConnLoop!NoOverrun, HeldExact

LEMMA RecvConnWindowIsConnStep ==
    ASSUME TypeOK, ConnBounded, HeldExact, RecvConnWindow
    PROVE  ConnStep /\ HeldExact'
<1>1. connWire \in 1 .. CONN_WINDOW
  BY ConnTyped DEF ConnBounded, ConnLoop!NoOverrun, RecvConnWindow
<1>2. ConnLoop!Return(connWire, connWire)
  BY ConnTyped, <1>1 DEF RecvConnWindow, ConnLoop!Return, edgeVars
<1>3. HeldExact'
  BY DEF RecvConnWindow, HeldExact, edgeVars
<1> QED BY <1>1, <1>2, <1>3 DEF ConnStep, ConnLoop!NextExact

\* Hibernation finds nothing to lose.
LEMMA HibernateIsConnStep ==
    ASSUME TypeOK, ConnBounded, HeldExact, Flushed, Hibernate
    PROVE  ConnStep /\ HeldExact'
<1>1. connUngranted = 0
  BY DEF Hibernate, Flushed, SomeActive
<1>2. SumFunction(outstanding) = 0
  BY ConstantsAssumption, SumOfZeros DEF TypeOK, Hibernate
<1>3. connUngranted' = 0 /\ windowHeld' = 0
      /\ UNCHANGED <<connCredit, inHand, bodyWire, outstanding, connWire>>
  BY DEF Hibernate, agentVars, wireVars
<1> QED BY <1>1, <1>2, <1>3 DEF ConnStep, ConnLoop!vars, HeldExact

\* finish: the other streams stay as they are, and the last one to leave flushes.
LEMMA FinishFlushes ==
    ASSUME TypeOK, NEW s \in Streams, NEW how \in {"closed", "reset"}, Finish(s, how)
    PROVE  Flushed'
<1>1. \A t \in Streams \ {s} : edge'[t] = edge[t]
  BY DEF Finish, TypeOK
<1>2. CASE SomeActive(Streams \ {s})
  BY <1>1, <1>2 DEF Flushed, SomeActive, Active
<1>3. CASE GrantConn(0, 0, FALSE)
  BY <1>3 DEF GrantConn, Flushed
<1> QED BY <1>2, <1>3 DEF Finish

LEMMA AdvanceFlushes ==
    ASSUME TypeOK, Flushed, NEW s \in Streams, NEW from \in {"open", "head"},
           NEW to \in {"head", "ended"}, Advance(s, from, to)
    PROVE  Flushed'
<1>1. CASE Finish(s, "reset")
  BY <1>1, FinishFlushes
<1>2. CASE edge' = [edge EXCEPT ![s] = IF @ = from THEN to ELSE @] /\ UNCHANGED connUngranted
  <2>1. \A t \in Streams : Active(t) => edge'[t] \in {"open", "head", "ended"}
    BY <1>2 DEF Active, TypeOK
  <2> QED BY <1>2, <2>1 DEF Flushed, SomeActive, Active
<1> QED BY <1>1, <1>2 DEF Advance

LEMMA StreamStepFlushes ==
    ASSUME TypeOK, Flushed, NEW s \in Streams, StreamStep(s)
    PROVE  Flushed'
<1> USE DEF edgeVars, agentVars, wireVars
<1>1. CASE UNCHANGED <<edge, connUngranted>>
  BY <1>1 DEF Flushed, SomeActive, Active
<1>2. CASE Start(s)
  <2>1. edge'[s] = "open"
    BY <1>2 DEF Start, TypeOK
  <2> QED BY <2>1 DEF Flushed, SomeActive, Active
<1>3. CASE RecvHead(s) \/ RecvEnd(s)
  BY <1>3, AdvanceFlushes DEF RecvHead, RecvEnd
<1>4. CASE Close(s) \/ EdgeReset(s) \/ RecvReset(s)
  <2>1. CASE Finish(s, "closed") \/ Finish(s, "reset")
    BY <2>1, FinishFlushes
  <2> QED BY <1>1, <1>4, <2>1 DEF Close, EdgeReset, RecvReset
<1>5. ASSUME NEW k \in Chunk, Deliver(s, k) PROVE Flushed'
  <2>1. CASE /\ edge' = [edge EXCEPT ![s] = "reset"]
             /\ GrantConn(k, k, SomeActive(Streams \ {s}))
    <3>1. \A t \in Streams \ {s} : edge'[t] = edge[t]
      BY <2>1 DEF TypeOK
    <3>2. CASE SomeActive(Streams \ {s})
      BY <3>1, <3>2 DEF Flushed, SomeActive, Active
    <3>3. CASE ~SomeActive(Streams \ {s})
      BY <2>1, <3>3 DEF GrantConn, Flushed
    <3> QED BY <3>2, <3>3
  <2>2. CASE UNCHANGED edge /\ GrantConn(k, k, SomeActive(Streams))
    BY <2>2 DEF GrantConn, Flushed, SomeActive, Active
  <2>3. CASE UNCHANGED <<edge, connUngranted>>
    BY <1>1, <2>3
  <2> QED BY <1>5, <2>1, <2>2, <2>3 DEF Deliver
<1>6. ASSUME NEW k \in Chunk, Consume(s, k) PROVE Flushed'
  <2>1. UNCHANGED edge /\ GrantConn(k, 0, SomeActive(Streams))
    BY <1>6 DEF Consume
  <2> QED BY <2>1 DEF GrantConn, Flushed, SomeActive, Active
<1>7. CASE \/ RecvReqHead(s) \/ \E n \in Bodies : SendHead(s, n)
           \/ \E want \in Chunk : Acquire(s, want)
           \/ SendBody(s) \/ SendEnd(s) \/ GiveUp(s) \/ RecvWindow(s) \/ RecvEdgeReset(s)
  <2>1. UNCHANGED <<edge, connUngranted>>
    BY <1>7 DEF RecvReqHead, SendHead, Acquire, SendBody, SendEnd, GiveUp, RunReturns,
       RecvWindow, RecvEdgeReset
  <2> QED BY <1>1, <2>1
<1> QED BY <1>2, <1>3, <1>4, <1>5, <1>6, <1>7 DEF StreamStep

LEMMA NextFlushes == ASSUME TypeOK, Flushed, [Next]_vars PROVE Flushed'
<1>1. CASE UNCHANGED <<edge, connUngranted>>
  BY <1>1 DEF Flushed, SomeActive, Active
<1>2. ASSUME NEW s \in Streams, CutStep(s) PROVE Flushed'
  BY <1>1, <1>2 DEF CutStep, Cut, RunReturns, edgeVars
<1>3. CASE RecvConnWindow \/ UNCHANGED vars
  BY <1>1, <1>3 DEF RecvConnWindow, vars, edgeVars
<1>4. CASE Hibernate
  BY <1>4 DEF Hibernate, Flushed
<1> QED BY <1>2, <1>3, <1>4, StepCases, StreamStepFlushes

\* Unless bytes are cut, every step of the system is a step of the exact loop.
LEMMA UncutIsConnStep ==
    ASSUME ConnInv, TypeOK', [NextUncut]_vars
    PROVE  ConnStep /\ HeldExact'
<1>1. CASE UNCHANGED vars
  BY <1>1
     DEF vars, edgeVars, agentVars, wireVars, ConnStep, ConnLoop!vars, ConnInv, HeldExact
<1> QED
  BY <1>1, UncutCases, StreamStepIsConnStep, RecvConnWindowIsConnStep, HibernateIsConnStep
  DEF ConnInv

LEMMA InitConn == Init => ConnInv /\ ConnLoop!Init
<1> SUFFICES ASSUME Init PROVE ConnInv /\ ConnLoop!Init
  OBVIOUS
<1>1. TypeOK
  BY InitTyped
<1>2. SumFunction(inHand) = 0 /\ SumFunction(bodyWire) = 0 /\ SumFunction(outstanding) = 0
  <2>1. /\ IsFiniteSet(Streams) /\ inHand \in [Streams -> Nat]
        /\ bodyWire \in [Streams -> Nat] /\ outstanding \in [Streams -> Nat]
    BY <1>1, ConstantsAssumption DEF TypeOK
  <2>2. \A s \in Streams : inHand[s] = 0 /\ bodyWire[s] = 0 /\ outstanding[s] = 0
    BY DEF Init
  <2> QED BY <2>1, <2>2, SumOfZeros
<1>3. ConnLoop!Init /\ HeldExact /\ Flushed
  BY <1>2 DEF Init, ConnLoop!Init, HeldExact, Flushed
<1>4. ConnBounded
  BY <1>3, ConstantsAssumption DEF ConnBounded, ConnLoop!NoOverrun, ConnLoop!Init
<1> QED BY <1>1, <1>3, <1>4 DEF ConnInv

LEMMA NextConn == ConnInv /\ [Next]_vars => ConnInv'
<1> SUFFICES ASSUME ConnInv, [Next]_vars PROVE ConnInv'
  OBVIOUS
<1>1. TypeOK' /\ Flushed'
  BY NextTyped, NextFlushes DEF ConnInv
<1>2. CASE [NextUncut]_vars
  <2>1. ConnStep /\ HeldExact'
    BY <1>1, <1>2, UncutIsConnStep
  <2>2. ConnBounded'
    BY <1>1, <2>1, ConnStepBounded DEF ConnInv
  <2> QED BY <1>1, <2>1, <2>2 DEF ConnInv
<1>3. CASE \E s \in Streams : CutStep(s)
  BY <1>1, <1>3, CutKeepsConn DEF ConnInv
<1>4. CASE Cuts
  <2>1. {"reset"} \in SUBSET {"reset"} /\ {} \in SUBSET {"reset"}
    OBVIOUS
  <2> QED BY <1>3, <1>4, <2>1 DEF Cuts, CutStep
<1> QED BY <1>2, <1>4 DEF Next

\* The agent never has more than one connection window outstanding, and the
\* edge's receive window counts it exactly, whatever is cut off at the agent and
\* whenever the object hibernates.
THEOREM ConnectionBounded == Spec => [](ConnBounded /\ HeldExact)
<1>1. ConnInv => ConnBounded /\ HeldExact
  BY DEF ConnInv
<1> QED BY InitConn, NextConn, <1>1, PTL DEF Spec

\* As long as no bytes are cut between acquire and sendData, the connection
\* window implements the credit loop that loses nothing, hibernation included.
THEOREM ConnRefinesLoop == UncutSafe => ConnImplementsLoop
<1>1. ConnInv /\ [NextUncut]_vars => ConnInv' /\ [ConnLoop!NextExact]_(ConnLoop!vars)
  <2> SUFFICES ASSUME ConnInv, [NextUncut]_vars PROVE ConnInv' /\ ConnStep
    BY DEF ConnStep
  <2>1. [Next]_vars
    BY DEF Next
  <2>2. ConnInv'
    BY <2>1, NextConn
  <2> QED BY <2>2, UncutIsConnStep DEF ConnInv
<1> QED BY InitConn, <1>1, PTL DEF UncutSafe, ConnImplementsLoop, ConnLoop!SpecExact
-----------------------------------------------------------------------------
(* The order of a response.                                                *)

\* Before run starts, the agent has nothing of the stream and REQ_HEAD is on its
\* way if the edge has started it.
Unborn(s) ==
    /\ edge[s] = "idle" => agent[s] = "none" /\ toAgent[s] = {}
    /\ "head" \in toAgent[s] => agent[s] = "none"
    /\ agent[s] = "none" => ~headSent[s] /\ (edge[s] # "idle" => "head" \in toAgent[s])

\* Before RES_HEAD nothing but a RESET is queued, and the edge sees it first.
HeadFirst(s) ==
    /\ ~headSent[s] => /\ bodyWire[s] = 0 /\ inHand[s] = 0 /\ toEdge[s] \subseteq {"reset"}
                       /\ edge[s] \in {"idle", "open", "reset"}
    /\ headSent[s] /\ "head" \in toEdge[s] => edge[s] \in {"open", "reset"}
    /\ headSent[s] /\ "head" \notin toEdge[s] => edge[s] \in {"head", "ended", "closed", "reset"}

\* RES_END follows the whole body.
EndLast(s) ==
    /\ inHand[s] # 0 => agent[s] = "open"
    /\ "end" \in toEdge[s] => /\ agent[s] = "removed" /\ bodyLeft[s] = 0
                              /\ edge[s] \in {"open", "head", "reset"}
    /\ edge[s] \in {"ended", "closed"} =>
         agent[s] = "removed" /\ bodyLeft[s] = 0 /\ bodyWire[s] = 0 /\ "end" \notin toEdge[s]
    /\ edge[s] = "closed" => outstanding[s] = 0

Ordered(s) == Unborn(s) /\ HeadFirst(s) /\ EndLast(s) /\ ("reset" \in toAgent[s] => edge[s] = "reset")

Order == \A s \in Streams : Ordered(s)

\* All the variables of one stream that Ordered reads.
OrderVars(s) ==
    <<agent[s], headSent[s], bodyLeft[s], inHand[s], toEdge[s], bodyWire[s], toAgent[s],
      edge[s], outstanding[s]>>

LEMMA OrderStands == ASSUME NEW s, Ordered(s), UNCHANGED OrderVars(s) PROVE Ordered(s)'
  BY DEF Ordered, Unborn, HeadFirst, EndLast, OrderVars

LEMMA OthersOrderStands ==
    ASSUME TypeOK, NEW s \in Streams, NEW t \in Streams \ {s}, StreamStep(s) \/ CutStep(s)
    PROVE  UNCHANGED OrderVars(t)
<1> USE DEF OrderVars, TypeOK, edgeVars, agentVars, wireVars
<1>1. CASE Start(s)
  BY <1>1 DEF Start
<1>2. CASE RecvReqHead(s)
  BY <1>2 DEF RecvReqHead
<1>3. ASSUME NEW n \in Bodies, SendHead(s, n) PROVE UNCHANGED OrderVars(t)
  BY <1>3 DEF SendHead
<1>4. ASSUME NEW want \in Chunk, Acquire(s, want) PROVE UNCHANGED OrderVars(t)
  BY <1>4 DEF Acquire
<1>5. CASE SendBody(s)
  BY <1>5 DEF SendBody
<1>6. CASE SendEnd(s)
  BY <1>6 DEF SendEnd, RunReturns
<1>7. CASE GiveUp(s)
  BY <1>7 DEF GiveUp, RunReturns
<1>8. CASE RecvWindow(s)
  BY <1>8 DEF RecvWindow
<1>9. CASE RecvEdgeReset(s)
  BY <1>9 DEF RecvEdgeReset
<1>10. CASE RecvHead(s)
  BY <1>10 DEF RecvHead, Advance, Finish, Violation
<1>11. ASSUME NEW k \in Chunk, Deliver(s, k) PROVE UNCHANGED OrderVars(t)
  BY <1>11 DEF Deliver, Violation
<1>12. ASSUME NEW k \in Chunk, Consume(s, k) PROVE UNCHANGED OrderVars(t)
  BY <1>12 DEF Consume
<1>13. CASE RecvEnd(s)
  BY <1>13 DEF RecvEnd, Advance, Finish, Violation
<1>14. CASE Close(s)
  BY <1>14 DEF Close, Finish
<1>15. CASE EdgeReset(s)
  BY <1>15 DEF EdgeReset, Finish
<1>16. CASE RecvReset(s)
  BY <1>16 DEF RecvReset, Finish
<1>17. CASE CutStep(s)
  BY <1>17 DEF CutStep, Cut, RunReturns
<1> QED
  BY <1>1, <1>2, <1>3, <1>4, <1>5, <1>6, <1>7, <1>8, <1>9, <1>10, <1>11, <1>12,
     <1>13, <1>14, <1>15, <1>16, <1>17 DEF StreamStep

\* A frame in order, within the window, is no violation.
LEMMA RecvHeadInOrder ==
    ASSUME TypeOK, NEW s \in Streams, Ordered(s), RecvHead(s)
    PROVE  /\ headSent[s] /\ edge[s] \in {"open", "reset"}
           /\ edge' = [edge EXCEPT ![s] = IF @ = "open" THEN "head" ELSE @]
           /\ UNCHANGED <<fault, toAgent>>
<1>1. headSent[s] /\ edge[s] \in {"open", "reset"}
  BY DEF RecvHead, Ordered, HeadFirst
<1>2. ~(Active(s) /\ edge[s] # "open")
  BY <1>1 DEF Active
<1> QED BY <1>1, <1>2 DEF RecvHead, Advance

LEMMA RecvEndInOrder ==
    ASSUME TypeOK, NEW s \in Streams, Ordered(s), RecvEnd(s)
    PROVE  /\ headSent[s] /\ edge[s] \in {"head", "reset"}
           /\ edge' = [edge EXCEPT ![s] = IF @ = "head" THEN "ended" ELSE @]
           /\ UNCHANGED <<fault, toAgent>>
<1>1. headSent[s] /\ edge[s] \in {"head", "reset"}
  BY DEF RecvEnd, Ordered, HeadFirst, EndLast
<1>2. ~(Active(s) /\ edge[s] # "head")
  BY <1>1 DEF Active
<1> QED BY <1>1, <1>2 DEF RecvEnd, Advance

LEMMA DeliverInOrder ==
    ASSUME TypeOK, StreamBounded, NEW s \in Streams, Ordered(s), NEW k \in Chunk, Deliver(s, k)
    PROVE  /\ k \in Nat /\ k > 0 /\ k <= bodyWire[s]
           /\ headSent[s] /\ edge[s] \in {"head", "reset"}
           /\ edge[s] # "head" => UNCHANGED outstanding
           /\ UNCHANGED <<edge, fault, toAgent>>
<1>1. k \in Nat /\ k > 0 /\ k <= bodyWire[s] /\ bodyWire[s] \in Nat
  BY LoopTyped, ConstantsAssumption DEF Deliver, Least, Chunk
<1>2. headSent[s] /\ edge[s] \in {"head", "reset"}
  BY <1>1 DEF Deliver, Ordered, HeadFirst, EndLast
<1>3. ~Exceeds(s, k)
  BY <1>1, LoopTyped DEF Exceeds, StreamBounded, StreamLoop!NoOverrun
<1>4. ~(edge[s] = "open" \/ (edge[s] = "head" /\ Exceeds(s, k)))
  BY <1>2, <1>3
<1> QED BY <1>1, <1>2, <1>4 DEF Deliver

LEMMA StreamStepOrdered ==
    ASSUME TypeOK, StreamBounded, NEW s \in Streams, Ordered(s), StreamStep(s) \/ CutStep(s)
    PROVE  Ordered(s)'
<1>T. /\ agent[s] \in {"none", "open", "removed"} /\ headSent[s] \in BOOLEAN
      /\ bodyLeft[s] \in Nat /\ inHand[s] \in Nat /\ bodyWire[s] \in Nat /\ outstanding[s] \in Nat
      /\ toEdge[s] \in SUBSET {"head", "end", "reset"} /\ toAgent[s] \in SUBSET {"head", "reset"}
      /\ edge[s] \in {"idle", "open", "head", "ended", "closed", "reset"}
  BY DEF TypeOK
<1>O. Unborn(s) /\ HeadFirst(s) /\ EndLast(s) /\ ("reset" \in toAgent[s] => edge[s] = "reset")
  BY DEF Ordered
<1> USE DEF TypeOK, edgeVars, agentVars, wireVars
<1>1. CASE Start(s)
  <2>1. /\ edge[s] = "idle" /\ edge'[s] = "open" /\ toAgent'[s] = {"head"}
        /\ UNCHANGED <<agentVars, toEdge, bodyWire, outstanding>>
    BY <1>1 DEF Start
  <2> QED BY <1>O, <2>1 DEF Ordered, Unborn, HeadFirst, EndLast
<1>2. CASE RecvReqHead(s)
  <2>1. /\ "head" \in toAgent[s] /\ toAgent'[s] = toAgent[s] \ {"head"} /\ agent'[s] = "open"
        /\ UNCHANGED <<headSent, bodyLeft, inHand, toEdge, bodyWire, edge, outstanding>>
    BY <1>2 DEF RecvReqHead
  <2> QED BY <1>T, <1>O, <2>1 DEF Ordered, Unborn, HeadFirst, EndLast
<1>3. ASSUME NEW n \in Bodies, SendHead(s, n) PROVE Ordered(s)'
  <2>1. /\ agent[s] = "open" /\ ~headSent[s] /\ headSent'[s] = TRUE
        /\ toEdge'[s] = toEdge[s] \cup {"head"}
        /\ UNCHANGED <<agent, inHand, bodyWire, toAgent, edge, outstanding>>
    BY <1>3 DEF SendHead
  <2> QED BY <1>T, <1>O, <2>1 DEF Ordered, Unborn, HeadFirst, EndLast
<1>4. ASSUME NEW want \in Chunk, Acquire(s, want) PROVE Ordered(s)'
  <2>1. /\ agent[s] = "open" /\ headSent[s]
        /\ UNCHANGED <<agent, headSent, toEdge, bodyWire, toAgent, edge, outstanding>>
    BY <1>4 DEF Acquire, Sending
  <2> QED BY <1>O, <2>1 DEF Ordered, Unborn, HeadFirst, EndLast
<1>5. CASE SendBody(s)
  <2>1. inHand[s] # 0
    BY <1>5, <1>T DEF SendBody
  <2>2. agent[s] = "open" /\ headSent[s]
    BY <1>O, <2>1 DEF HeadFirst, EndLast
  <2>3. inHand'[s] = 0 /\ UNCHANGED <<agent, headSent, bodyLeft, toEdge, toAgent, edge, outstanding>>
    BY <1>5 DEF SendBody
  <2> QED BY <1>O, <2>2, <2>3 DEF Ordered, Unborn, HeadFirst, EndLast
<1>6. CASE SendEnd(s)
  <2>1. /\ agent[s] = "open" /\ headSent[s] /\ bodyLeft[s] = 0
        /\ agent'[s] = "removed" /\ toEdge'[s] = toEdge[s] \cup {"end"}
        /\ UNCHANGED <<headSent, bodyLeft, inHand, bodyWire, toAgent, edge, outstanding>>
        /\ inHand[s] = 0
    BY <1>6 DEF SendEnd, Sending, RunReturns
  <2>2. edge[s] \in {"open", "head", "reset"}
    BY <1>T, <1>O, <2>1 DEF HeadFirst, EndLast
  <2> QED BY <1>T, <1>O, <2>1, <2>2 DEF Ordered, Unborn, HeadFirst, EndLast
<1>7. CASE GiveUp(s) \/ CutStep(s)
  <2>1. PICK F \in SUBSET {"reset"} :
          /\ agent[s] = "open" /\ agent'[s] = "removed" /\ toEdge'[s] = toEdge[s] \cup F
          /\ inHand'[s] = 0
          /\ UNCHANGED <<headSent, bodyLeft, bodyWire, toAgent, edge, outstanding>>
    <3>1. inHand'[s] = 0 /\ \E F \in SUBSET {"reset"} : RunReturns(s, F)
      BY <1>7 DEF GiveUp, CutStep, Cut
    <3>2. PICK F \in SUBSET {"reset"} : RunReturns(s, F)
      BY <3>1
    <3>3. /\ agent[s] = "open" /\ agent'[s] = "removed" /\ toEdge'[s] = toEdge[s] \cup F
          /\ UNCHANGED <<headSent, bodyLeft, bodyWire, toAgent, edge, outstanding>>
      BY <3>2 DEF RunReturns
    <3> QED BY <3>1, <3>3
  <2>2. "end" \notin toEdge[s] /\ edge[s] \notin {"ended", "closed"}
    BY <1>O, <2>1 DEF EndLast
  <2> QED BY <1>T, <1>O, <2>1, <2>2 DEF Ordered, Unborn, HeadFirst, EndLast
<1>8. CASE RecvWindow(s)
  BY <1>8, OrderStands DEF RecvWindow, OrderVars
<1>9. CASE RecvEdgeReset(s)
  <2>1. /\ toAgent[s] = {"reset"} /\ toAgent'[s] = {}
        /\ UNCHANGED <<agent, headSent, bodyLeft, inHand, toEdge, bodyWire, edge, outstanding>>
    BY <1>9 DEF RecvEdgeReset
  <2> QED BY <1>O, <2>1 DEF Ordered, Unborn, HeadFirst, EndLast
<1>10. CASE RecvHead(s)
  <2>1. /\ "head" \in toEdge[s] /\ headSent[s] /\ edge[s] \in {"open", "reset"}
        /\ edge'[s] = IF edge[s] = "open" THEN "head" ELSE edge[s]
        /\ toEdge'[s] = toEdge[s] \ {"head"}
        /\ UNCHANGED <<agent, headSent, bodyLeft, inHand, bodyWire, toAgent, outstanding>>
    BY <1>10, RecvHeadInOrder DEF RecvHead, Advance
  <2> QED BY <1>T, <1>O, <2>1 DEF Ordered, Unborn, HeadFirst, EndLast
<1>11. ASSUME NEW k \in Chunk, Deliver(s, k) PROVE Ordered(s)'
  <2>1. /\ headSent[s] /\ edge[s] \in {"head", "reset"} /\ "head" \notin toEdge[s]
        /\ UNCHANGED <<agent, headSent, bodyLeft, inHand, toEdge, toAgent, edge>>
    BY <1>11, DeliverInOrder DEF Deliver
  <2> QED BY <1>O, <2>1 DEF Ordered, Unborn, HeadFirst, EndLast
<1>12. ASSUME NEW k \in Chunk, Consume(s, k) PROVE Ordered(s)'
  <2>1. /\ k \in Nat /\ k <= outstanding[s] /\ k > 0
    BY <1>12, <1>T, ConstantsAssumption DEF Consume, Least, Chunk
  <2>2. UNCHANGED <<agent, headSent, bodyLeft, inHand, toEdge, bodyWire, toAgent, edge>>
    BY <1>12 DEF Consume
  <2>3. edge[s] # "closed"
    BY <1>T, <1>O, <2>1 DEF EndLast
  <2> QED BY <1>O, <2>2, <2>3 DEF Ordered, Unborn, HeadFirst, EndLast
<1>13. CASE RecvEnd(s)
  <2>1. /\ "end" \in toEdge[s] /\ "head" \notin toEdge[s] /\ bodyWire[s] = 0
        /\ headSent[s] /\ edge[s] \in {"head", "reset"}
        /\ edge'[s] = IF edge[s] = "head" THEN "ended" ELSE edge[s]
        /\ toEdge'[s] = toEdge[s] \ {"end"}
        /\ UNCHANGED <<agent, headSent, bodyLeft, inHand, bodyWire, toAgent, outstanding>>
    BY <1>13, RecvEndInOrder DEF RecvEnd, Advance
  <2> QED BY <1>T, <1>O, <2>1 DEF Ordered, Unborn, HeadFirst, EndLast
<1>14. CASE Close(s)
  <2>1. /\ edge[s] = "ended" /\ outstanding[s] = 0 /\ edge'[s] = "closed"
        /\ UNCHANGED <<agent, headSent, bodyLeft, inHand, toEdge, bodyWire, toAgent, outstanding>>
    BY <1>14 DEF Close, Finish
  <2> QED BY <1>O, <2>1 DEF Ordered, Unborn, HeadFirst, EndLast
<1>15. CASE EdgeReset(s)
  <2>1. /\ edge[s] \in {"open", "head", "ended"} /\ edge'[s] = "reset"
        /\ toAgent'[s] = toAgent[s] \cup {"reset"}
        /\ UNCHANGED <<agent, headSent, bodyLeft, inHand, toEdge, bodyWire, outstanding>>
    BY <1>15 DEF EdgeReset, Finish, Active
  <2> QED BY <1>T, <1>O, <2>1 DEF Ordered, Unborn, HeadFirst, EndLast
<1>16. CASE RecvReset(s)
  <2>1. /\ toEdge'[s] = toEdge[s] \ {"reset"}
        /\ UNCHANGED <<agent, headSent, bodyLeft, inHand, bodyWire, toAgent, outstanding>>
    BY <1>16 DEF RecvReset
  <2>2. CASE Active(s) /\ edge'[s] = "reset"
    BY <1>T, <1>O, <2>1, <2>2 DEF Active, Ordered, Unborn, HeadFirst, EndLast
  <2>3. CASE UNCHANGED edge
    BY <1>T, <1>O, <2>1, <2>3 DEF Ordered, Unborn, HeadFirst, EndLast
  <2> QED BY <1>16, <2>2, <2>3 DEF RecvReset, Finish
<1> QED
  BY <1>1, <1>2, <1>3, <1>4, <1>5, <1>6, <1>7, <1>8, <1>9, <1>10, <1>11, <1>12,
     <1>13, <1>14, <1>15, <1>16 DEF StreamStep

LEMMA NextOrder == ASSUME TypeOK, StreamBounded, Order, [Next]_vars PROVE Order'
<1>1. ASSUME NEW s \in Streams, StreamStep(s) \/ CutStep(s) PROVE Order'
  <2>1. ASSUME NEW t \in Streams PROVE Ordered(t)'
    <3>1. CASE t = s
      BY <1>1, <3>1, StreamStepOrdered DEF Order
    <3>2. CASE t # s
      BY <1>1, <3>2, OthersOrderStands, OrderStands DEF Order
    <3> QED BY <3>1, <3>2
  <2> QED BY <2>1 DEF Order
<1>2. CASE RecvConnWindow \/ Hibernate \/ UNCHANGED vars
  <2>1. ASSUME NEW t \in Streams PROVE Ordered(t)'
    BY <1>2, OrderStands
    DEF Order, OrderVars, RecvConnWindow, Hibernate, vars, edgeVars, agentVars, wireVars
  <2> QED BY <2>1 DEF Order
<1> QED BY <1>1, <1>2, StepCases

LEMMA InitOrder == Init => Order
  BY DEF Init, Order, Ordered, Unborn, HeadFirst, EndLast

FlowInv == ConnInv /\ StreamBounded /\ Order

LEMMA InitFlow == Init => FlowInv
  BY InitConn, InitIInv, InitOrder DEF FlowInv, IInv

LEMMA NextFlow == FlowInv /\ [Next]_vars => FlowInv'
  BY NextConn, NextIInv, NextOrder DEF FlowInv, ConnInv, IInv

\* A response that ends cleanly at the visitor is the whole response (CleanEnd):
\* RES_END queues behind the body, and only the control queue overtakes it.
THEOREM EndsWhole == Spec => []CleanEnd
<1>1. FlowInv => CleanEnd
  BY DEF FlowInv, Order, Ordered, EndLast, CleanEnd
<1> QED BY InitFlow, NextFlow, <1>1, PTL DEF Spec

\* The edge never finds the agent at fault (NeverFaulty): this agent gives it no
\* reason to reset a stream with flow_control or protocol_error, nor to close the
\* agent's socket because the connection window is exceeded.
THEOREM AgentNeverFaulty == Spec => []NeverFaulty
<1>1. Init => NeverFaulty
  BY DEF Init, NeverFaulty
<1>2. FlowInv /\ NeverFaulty /\ [Next]_vars => NeverFaulty'
  <2> SUFFICES ASSUME FlowInv, NeverFaulty, [Next]_vars PROVE UNCHANGED <<fault, dropped>>
    BY DEF NeverFaulty
  <2> USE DEF edgeVars, agentVars, wireVars
  <2>1. TypeOK /\ StreamBounded /\ ConnBounded /\ HeldExact /\ Order
    BY DEF FlowInv, ConnInv
  <2>2. ASSUME NEW s \in Streams, NEW k \in Chunk, Deliver(s, k) PROVE UNCHANGED <<fault, dropped>>
    <3>1. UNCHANGED fault /\ k \in Nat /\ k <= bodyWire[s]
      BY <2>1, <2>2, DeliverInOrder DEF Order
    <3>2. bodyWire[s] <= SumFunction(bodyWire) /\ bodyWire[s] \in Nat
      BY <2>1, ConstantsAssumption, SumAtLeast DEF TypeOK
    <3>3. windowHeld + k <= CONN_WINDOW
      BY <2>1, <3>1, <3>2, ConnTyped DEF ConnBounded, ConnLoop!NoOverrun, HeldExact
    <3>4. ~(windowHeld + k > CONN_WINDOW)
      BY <2>1, <3>1, <3>3, ConnTyped
    <3>5. dropped \in BOOLEAN
      BY <2>1 DEF TypeOK
    <3>6. dropped' = dropped
      BY <2>2, <3>4, <3>5 DEF Deliver
    <3> QED BY <3>1, <3>6
  <2>3. ASSUME NEW s \in Streams, StreamStep(s) \/ CutStep(s) PROVE UNCHANGED <<fault, dropped>>
    <3>1. CASE RecvHead(s)
      <4>1. UNCHANGED fault
        BY <2>1, <3>1, RecvHeadInOrder DEF Order
      <4>2. UNCHANGED dropped
        BY <3>1 DEF RecvHead, Advance
      <4> QED BY <4>1, <4>2
    <3>2. CASE RecvEnd(s)
      <4>1. UNCHANGED fault
        BY <2>1, <3>2, RecvEndInOrder DEF Order
      <4>2. UNCHANGED dropped
        BY <3>2 DEF RecvEnd, Advance
      <4> QED BY <4>1, <4>2
    <3> QED
      BY <2>2, <2>3, <3>1, <3>2
         DEF StreamStep, CutStep, Start, RecvReqHead, SendHead, Acquire,
         SendBody, SendEnd, GiveUp, Cut, RunReturns, RecvWindow, RecvEdgeReset, Consume, Close,
         EdgeReset, RecvReset
  <2>4. CASE RecvConnWindow \/ Hibernate \/ UNCHANGED vars
    BY <2>4 DEF RecvConnWindow, Hibernate, vars
  <2> QED BY <2>3, <2>4, StepCases
<1> QED BY InitFlow, NextFlow, <1>1, <1>2, PTL DEF Spec
-----------------------------------------------------------------------------
(* At rest.                                                                *)

ConnWhole == ConnLoop!Conserved

LEMMA ConnStepConserves ==
    ASSUME TypeOK, TypeOK', ConnWhole, ConnStep PROVE ConnWhole'
<1> USE ConnTyped, ConnTypedNext DEF ConnWhole, ConnLoop!Conserved
<1>1. ASSUME NEW n \in 1 .. CONN_WINDOW, ConnLoop!Send(n) PROVE ConnWhole'
  BY <1>1 DEF ConnLoop!Send
<1>2. ASSUME NEW n \in 0 .. CONN_WINDOW, NEW g \in 0 .. CONN_WINDOW, ConnLoop!Handle(n, g, 0)
      PROVE  ConnWhole'
  BY <1>2 DEF ConnLoop!Handle
<1>3. ASSUME NEW n \in 1 .. CONN_WINDOW, ConnLoop!Return(n, n) PROVE ConnWhole'
  BY <1>3 DEF ConnLoop!Return
<1>4. CASE UNCHANGED ConnLoop!vars
  BY <1>4 DEF ConnLoop!vars
<1> QED BY <1>1, <1>2, <1>3, <1>4 DEF ConnStep, ConnLoop!NextExact

LEMMA WholeAtRest == FlowInv /\ ConnWhole => ConnFullAtRest
<1> SUFFICES ASSUME FlowInv, ConnWhole, AtRest PROVE connCredit = CONN_WINDOW
  BY DEF ConnFullAtRest
<1>1. TypeOK
  BY DEF FlowInv, ConnInv
<1>2. \A s \in Streams : inHand[s] = 0 /\ bodyWire[s] = 0 /\ outstanding[s] = 0
  BY DEF AtRest, FlowInv, Order, Ordered, EndLast
<1>3. connUngranted = 0 /\ connWire = 0
  BY DEF AtRest, FlowInv, ConnInv, Flushed, SomeActive
<1>4. SumFunction(inHand) = 0 /\ SumFunction(bodyWire) = 0 /\ SumFunction(outstanding) = 0
  <2>1. /\ IsFiniteSet(Streams) /\ inHand \in [Streams -> Nat]
        /\ bodyWire \in [Streams -> Nat] /\ outstanding \in [Streams -> Nat]
    BY <1>1, ConstantsAssumption DEF TypeOK
  <2> QED BY <1>2, <2>1, SumOfZeros
<1> QED BY <1>1, <1>3, <1>4, ConnTyped DEF ConnWhole, ConnLoop!Conserved

LEMMA InitWhole == Init => FlowInv /\ ConnWhole
<1> SUFFICES ASSUME Init PROVE ConnWhole
  BY InitFlow
<1> QED BY InitConn, ConstantsAssumption DEF ConnLoop!Init, ConnWhole, ConnLoop!Conserved

LEMMA UncutWhole == FlowInv /\ ConnWhole /\ [NextUncut]_vars => (FlowInv /\ ConnWhole)'
<1> SUFFICES ASSUME FlowInv, ConnWhole, [NextUncut]_vars PROVE FlowInv' /\ ConnWhole'
  OBVIOUS
<1>1. [Next]_vars
  BY DEF Next
<1>2. FlowInv'
  BY <1>1, NextFlow
<1> QED BY <1>2, UncutIsConnStep, ConnStepConserves DEF FlowInv, ConnInv

\* Once nothing is left in flight the agent has its whole connection window back
\* (ConnFullAtRest), provided no bytes were cut between acquire and sendData: that
\* is the only way the download direction leaks connection credit.
THEOREM WholeUnlessCut == UncutSafe => []ConnFullAtRest
  BY InitWhole, UncutWhole, WholeAtRest, PTL DEF UncutSafe
-----------------------------------------------------------------------------
(* Never stranded: the agent waits for credit, the edge keeps what the     *)
(* visitor has read until it makes a quarter window, and neither waits for *)
(* the other.  No byte of a stream's window is lost before the stream ends *)
(* at one of its ends, and whichever end that is, the other is being told. *)

\* What each end is told of the other's end.
EndsTold(s) ==
    /\ "reset" \in toEdge[s] => agent[s] = "removed"
    /\ agent[s] # "removed" /\ edge[s] = "reset" => "reset" \in toAgent[s] \/ cancelled[s]
    /\ agent[s] # "removed" /\ cancelled[s] => edge[s] = "reset"
    /\ agent[s] = "removed" =>
         edge[s] \in {"ended", "closed", "reset"} \/ "end" \in toEdge[s] \/ "reset" \in toEdge[s]
    /\ agent[s] = "none" => winWire[s] = 0
    /\ edge[s] \in {"idle", "open"} => outstanding[s] = 0

LEMMA OthersToldStands ==
    ASSUME TypeOK, NEW s \in Streams, NEW t \in Streams \ {s}, StreamStep(s) \/ CutStep(s)
    PROVE  UNCHANGED cancelled[t]
<1> USE DEF TypeOK, edgeVars, agentVars, wireVars
<1>1. CASE SendEnd(s) \/ GiveUp(s) \/ CutStep(s)
  BY <1>1 DEF SendEnd, GiveUp, CutStep, Cut, RunReturns
<1>2. CASE RecvEdgeReset(s)
  BY <1>2 DEF RecvEdgeReset
<1>3. CASE ~(SendEnd(s) \/ GiveUp(s) \/ CutStep(s) \/ RecvEdgeReset(s))
  BY <1>3
     DEF StreamStep, Start, RecvReqHead, SendHead, Acquire, SendBody, RecvWindow, RecvHead,
     Deliver, Consume, RecvEnd, Advance, Close, EdgeReset, RecvReset
<1> QED BY <1>1, <1>2, <1>3

LEMMA StreamStepTold ==
    ASSUME TypeOK, StreamBounded, NEW s \in Streams, Ordered(s), EndsTold(s),
           StreamStep(s) \/ CutStep(s)
    PROVE  EndsTold(s)'
<1> USE DEF EndsTold, TypeOK, edgeVars, agentVars, wireVars
<1>O. Unborn(s) /\ HeadFirst(s) /\ EndLast(s) /\ ("reset" \in toAgent[s] => edge[s] = "reset")
  BY DEF Ordered
<1>1. CASE Start(s)
  BY <1>1, <1>O DEF Start, Unborn
<1>2. CASE RecvReqHead(s)
  BY <1>2, <1>O DEF RecvReqHead, Unborn
<1>3. ASSUME NEW n \in Bodies, SendHead(s, n) PROVE EndsTold(s)'
  BY <1>3 DEF SendHead
<1>4. ASSUME NEW want \in Chunk, Acquire(s, want) PROVE EndsTold(s)'
  BY <1>4 DEF Acquire
<1>5. CASE SendBody(s)
  BY <1>5 DEF SendBody
<1>6. CASE SendEnd(s)
  BY <1>6 DEF SendEnd, RunReturns
<1>7. ASSUME NEW F \in SUBSET {"reset"}, RunReturns(s, F), F = {} => cancelled[s]
      PROVE EndsTold(s)'
  <2>1. F = {} \/ F = {"reset"}
    OBVIOUS
  <2>2. UNCHANGED <<edge, winWire, outstanding, toAgent>>
    BY <1>7 DEF RunReturns
  <2> QED BY <1>7, <2>1, <2>2 DEF RunReturns
<1>8. CASE GiveUp(s)
  BY <1>7, <1>8 DEF GiveUp
<1>9. CASE CutStep(s)
  BY <1>7, <1>9 DEF CutStep, Cut
<1>10. CASE RecvWindow(s)
  BY <1>10 DEF RecvWindow
<1>11. CASE RecvEdgeReset(s)
  BY <1>11, <1>O DEF RecvEdgeReset, Unborn
<1>12. CASE RecvHead(s)
  <2>1. toEdge' = [toEdge EXCEPT ![s] = @ \ {"head"}]
    BY <1>12 DEF RecvHead
  <2>2. UNCHANGED <<agent, cancelled, winWire, outstanding>>
    BY <1>12 DEF RecvHead, Advance
  <2> QED BY <1>12, <2>1, <2>2, RecvHeadInOrder
<1>13. CASE RecvEnd(s)
  <2>1. toEdge' = [toEdge EXCEPT ![s] = @ \ {"end"}] /\ "end" \in toEdge[s]
    BY <1>13 DEF RecvEnd
  <2>2. UNCHANGED <<agent, cancelled, winWire, outstanding>>
    BY <1>13 DEF RecvEnd, Advance
  <2>3. agent[s] = "removed"
    BY <2>1, <1>O DEF EndLast
  <2> QED BY <1>13, <2>1, <2>2, <2>3, RecvEndInOrder
<1>14. ASSUME NEW k \in Chunk, Deliver(s, k) PROVE EndsTold(s)'
  <2>1. UNCHANGED <<edge, toAgent>> /\ edge[s] \in {"head", "reset"}
    BY <1>14, DeliverInOrder
  <2>2. UNCHANGED <<agent, cancelled, toEdge, winWire>>
    BY <1>14 DEF Deliver
  <2> QED BY <2>1, <2>2
<1>15. ASSUME NEW k \in Chunk, Consume(s, k) PROVE EndsTold(s)'
  <2>1. UNCHANGED <<agent, cancelled, toEdge, toAgent, edge>>
    BY <1>15 DEF Consume
  <2>2. edge[s] \notin {"idle", "open"}
    BY <1>15, ConstantsAssumption DEF Consume, Least, Chunk
  <2>3. edge[s] = "head" \/ UNCHANGED winWire
    BY <1>15 DEF Consume
  <2>4. agent[s] = "none" => edge[s] # "head"
    BY <1>O DEF Unborn, HeadFirst
  <2> QED BY <2>1, <2>2, <2>3, <2>4
<1>16. CASE Close(s)
  BY <1>16 DEF Close, Finish
<1>17. CASE EdgeReset(s)
  BY <1>17 DEF EdgeReset, Finish
<1>18. CASE RecvReset(s)
  <2>1. toEdge' = [toEdge EXCEPT ![s] = @ \ {"reset"}] /\ agent[s] = "removed"
    BY <1>18 DEF RecvReset
  <2>2. UNCHANGED <<agent, cancelled, toAgent, winWire, outstanding>>
    BY <1>18 DEF RecvReset
  <2>3. edge' = [edge EXCEPT ![s] = "reset"] \/ (UNCHANGED edge /\ ~Active(s))
    BY <1>18 DEF RecvReset, Finish
  <2>4. edge[s] # "idle"
    BY <2>1, <1>O DEF Unborn
  <2> QED BY <2>1, <2>2, <2>3, <2>4 DEF Active
<1> QED
  BY <1>1, <1>2, <1>3, <1>4, <1>5, <1>6, <1>8, <1>9, <1>10, <1>11, <1>12, <1>13, <1>14,
     <1>15, <1>16, <1>17, <1>18 DEF StreamStep

\* A stream that has not ended at either end.
Lasts(s) == agent[s] # "removed" /\ edge[s] \in {"idle", "open", "head"}

\* Until it has, its window loses nothing, and less than a quarter is coalesced.
StreamExact(s) ==
    /\ 4 * ungranted[s] < STREAM_WINDOW
    /\ Lasts(s) => StreamLoop(s)!Conserved

LEMMA StreamStepExact ==
    ASSUME TypeOK, StreamBounded, NEW s \in Streams, Ordered(s), EndsTold(s), StreamExact(s),
           StreamStep(s) \/ CutStep(s)
    PROVE  StreamExact(s)'
<1> DEFINE Total == credit[s] + (inHand[s] + bodyWire[s]) + (outstanding[s] + ungranted[s])
                      + winWire[s]
<1>0. /\ credit[s] \in Nat /\ inHand[s] \in Nat /\ bodyWire[s] \in Nat
      /\ outstanding[s] \in Nat /\ ungranted[s] \in Nat /\ winWire[s] \in Nat
      /\ STREAM_WINDOW \in Nat \ {0}
  BY LoopTyped, ConstantsAssumption
<1>T. /\ credit \in [Streams -> Nat] /\ inHand \in [Streams -> Nat]
      /\ bodyWire \in [Streams -> Nat] /\ outstanding \in [Streams -> Nat]
      /\ ungranted \in [Streams -> Nat] /\ winWire \in [Streams -> Nat]
  BY DEF TypeOK
<1>G. 4 * ungranted[s] < STREAM_WINDOW /\ (Lasts(s) => Total = STREAM_WINDOW)
  BY DEF StreamExact, StreamLoop!Conserved
<1>P. ASSUME 4 * ungranted'[s] < STREAM_WINDOW, Lasts(s)' => Total' = STREAM_WINDOW
      PROVE  StreamExact(s)'
  BY <1>P DEF StreamExact, StreamLoop!Conserved
<1>O. Unborn(s) /\ HeadFirst(s) /\ EndLast(s)
  BY DEF Ordered
<1>1. CASE QuietStep(s)
  <2>1. UNCHANGED <<credit, inHand, bodyWire, outstanding, ungranted, winWire>>
    BY <1>1, QuietStepsStand
  <2>2. ASSUME Lasts(s)' PROVE Lasts(s)
    <3> USE <1>O, <2>2 DEF Lasts, TypeOK, edgeVars, agentVars, wireVars
    <3>1. CASE Start(s)
      BY <3>1 DEF Start, Unborn
    <3>2. CASE RecvReqHead(s)
      BY <3>2 DEF RecvReqHead, Unborn
    <3>3. CASE SendEnd(s) \/ GiveUp(s)
      BY <3>3 DEF SendEnd, GiveUp, RunReturns
    <3>4. CASE RecvHead(s)
      <4>1. UNCHANGED agent
        BY <3>4 DEF RecvHead, Advance
      <4> QED BY <3>4, <4>1, RecvHeadInOrder
    <3>5. CASE RecvEnd(s)
      <4>1. UNCHANGED agent
        BY <3>5 DEF RecvEnd, Advance
      <4> QED BY <3>5, <4>1, RecvEndInOrder
    <3>6. CASE Close(s) \/ EdgeReset(s) \/ RecvReset(s)
      BY <3>6 DEF Close, EdgeReset, RecvReset, Finish
    <3>7. CASE RecvEdgeReset(s) \/ \E n \in Bodies : SendHead(s, n)
      BY <3>7 DEF RecvEdgeReset, SendHead
    <3> QED BY <1>1, <3>1, <3>2, <3>3, <3>4, <3>5, <3>6, <3>7 DEF QuietStep
  <2> QED BY <1>G, <1>P, <2>1, <2>2
<1>2. ASSUME NEW want \in Chunk, Acquire(s, want) PROVE StreamExact(s)'
  <2>1. PICK n \in Nat : /\ n <= credit[s] /\ inHand[s] = 0
                         /\ credit' = [credit EXCEPT ![s] = @ - n]
                         /\ inHand' = [inHand EXCEPT ![s] = n]
                         /\ UNCHANGED <<wireVars, edgeVars>>
    BY <1>2, AcquireTakes
  <2>2. UNCHANGED <<agent, edge, bodyWire, outstanding, ungranted, winWire>>
    BY <1>2, <2>1 DEF Acquire, edgeVars, wireVars
  <2>3. Total' = Total
    BY <1>0, <1>T, <2>1, <2>2
  <2> QED BY <1>G, <1>P, <2>2, <2>3 DEF Lasts
<1>3. CASE SendBody(s)
  <2>1. UNCHANGED <<agent, edge, credit, outstanding, ungranted, winWire>>
    BY <1>3 DEF SendBody, edgeVars
  <2>2. Total' = Total
    BY <1>0, <1>T, <1>3, <2>1 DEF SendBody
  <2> QED BY <1>G, <1>P, <2>1, <2>2 DEF Lasts
<1>4. CASE RecvWindow(s)
  <2>1. UNCHANGED <<agent, edge, inHand, bodyWire, outstanding, ungranted>>
    BY <1>4 DEF RecvWindow, edgeVars
  <2>2. ASSUME Lasts(s) PROVE Total' = Total
    <3>1. agent[s] = "open"
      BY <1>0, <1>4, <2>2 DEF RecvWindow, Lasts, EndsTold, TypeOK
    <3>2. /\ credit' = [credit EXCEPT ![s] = @ + winWire[s]]
          /\ winWire' = [winWire EXCEPT ![s] = 0]
      BY <1>4, <3>1 DEF RecvWindow
    <3> QED BY <1>0, <1>T, <2>1, <3>2
  <2> QED BY <1>G, <1>P, <2>1, <2>2 DEF Lasts
<1>5. ASSUME NEW k \in Chunk, Deliver(s, k) PROVE StreamExact(s)'
  <2>1. /\ k \in Nat /\ k <= bodyWire[s] /\ edge[s] \in {"head", "reset"}
        /\ UNCHANGED <<edge, fault, toAgent>>
    BY <1>5, DeliverInOrder
  <2>2. bodyWire' = [bodyWire EXCEPT ![s] = @ - k] /\ UNCHANGED <<agent, credit, inHand, ungranted, winWire>>
    BY <1>5 DEF Deliver, agentVars
  <2>3. ASSUME Lasts(s) PROVE Total' = Total
    <3>1. edge[s] = "head"
      BY <2>1, <2>3 DEF Lasts
    <3>2. ~Exceeds(s, k)
      BY <2>1, LoopTyped DEF Exceeds, StreamBounded, StreamLoop!NoOverrun
    <3>3. outstanding' = [outstanding EXCEPT ![s] = @ + k]
      BY <1>5, <3>1, <3>2 DEF Deliver
    <3> QED BY <1>0, <1>T, <2>1, <2>2, <3>3
  <2> QED BY <1>G, <1>P, <2>1, <2>2, <2>3 DEF Lasts
<1>6. ASSUME NEW k \in Chunk, Consume(s, k) PROVE StreamExact(s)'
  <2> DEFINE u == ungranted[s] + k
             flush == u >= STREAM_WINDOW \div 4
  <2>1. k \in Nat /\ k > 0 /\ k <= outstanding[s] /\ u \in Nat
    BY <1>6, <1>0, ConstantsAssumption DEF Consume, Least, Chunk
  <2>2. /\ outstanding' = [outstanding EXCEPT ![s] = @ - k]
        /\ UNCHANGED <<agent, edge, credit, inHand, bodyWire>>
    BY <1>6 DEF Consume, agentVars
  <2>3. CASE edge[s] = "head"
    <3>1. /\ winWire' = [winWire EXCEPT ![s] = IF flush THEN @ + u ELSE @]
          /\ ungranted' = [ungranted EXCEPT ![s] = IF flush THEN 0 ELSE u]
      BY <1>6, <2>3, Zenon DEF Consume, GrantStream
    <3>2. CASE flush
      <4>1. Total' = Total /\ 4 * ungranted'[s] < STREAM_WINDOW
        BY <1>0, <1>T, <2>1, <2>2, <3>1, <3>2
      <4> QED BY <1>G, <1>P, <2>2, <4>1 DEF Lasts
    <3>3. CASE ~flush
      <4>1. 4 * u < STREAM_WINDOW
        BY <1>0, <2>1, <3>3
      <4>2. Total' = Total /\ ungranted'[s] = u
        BY <1>0, <1>T, <2>1, <2>2, <3>1, <3>3
      <4> QED BY <1>G, <1>P, <2>2, <4>1, <4>2 DEF Lasts
    <3> QED BY <3>2, <3>3
  <2>4. CASE edge[s] # "head"
    <3>1. UNCHANGED ungranted
      BY <1>6, <2>4 DEF Consume
    <3>2. ~Lasts(s)'
      BY <1>0, <2>1, <2>2, <2>4 DEF Lasts, EndsTold
    <3> QED BY <1>G, <1>P, <3>1, <3>2
  <2> QED BY <2>3, <2>4
<1>7. CASE CutStep(s)
  <2>1. agent'[s] = "removed" /\ UNCHANGED ungranted
    BY <1>7 DEF CutStep, Cut, RunReturns, edgeVars, TypeOK
  <2> QED BY <1>G, <1>P, <2>1 DEF Lasts
<1> QED BY <1>1, <1>2, <1>3, <1>4, <1>5, <1>6, <1>7 DEF StreamStep, QuietStep

StrandInv ==
    /\ FlowInv
    /\ \A s \in Streams : EndsTold(s) /\ StreamExact(s)

LEMMA InitStrand == Init => StrandInv
<1> SUFFICES ASSUME Init, NEW s \in Streams PROVE EndsTold(s) /\ StreamExact(s)
  BY InitFlow DEF StrandInv
<1>1. EndsTold(s)
  BY DEF Init, EndsTold
<1>2. StreamExact(s)
  BY ConstantsAssumption DEF Init, StreamExact, StreamLoop!Conserved
<1> QED BY <1>1, <1>2

LEMMA NextStrand == StrandInv /\ [Next]_vars => StrandInv'
<1> SUFFICES ASSUME StrandInv, [Next]_vars PROVE StrandInv'
  OBVIOUS
<1>1. FlowInv' /\ TypeOK /\ StreamBounded /\ Order
  BY NextFlow DEF StrandInv, FlowInv, ConnInv
<1>2. ASSUME NEW t \in Streams, UNCHANGED LoopVars(t), UNCHANGED OrderVars(t), UNCHANGED cancelled[t]
      PROVE  (EndsTold(t) /\ StreamExact(t))'
  <2>1. EndsTold(t) /\ StreamExact(t)
    BY DEF StrandInv
  <2> QED
    BY <1>2, <2>1
       DEF LoopVars, OrderVars, EndsTold, StreamExact, Lasts, StreamLoop!Conserved
<1>3. ASSUME NEW s \in Streams, NEW t \in Streams, StreamStep(s) \/ CutStep(s)
      PROVE  (EndsTold(t) /\ StreamExact(t))'
  <2>1. CASE s = t
    BY <1>1, <1>3, <2>1, StreamStepTold, StreamStepExact DEF StrandInv, Order
  <2>2. CASE s # t
    BY <1>1, <1>2, <1>3, <2>2, OthersStand, OthersOrderStands, OthersToldStands
  <2> QED BY <2>1, <2>2
<1>4. ASSUME RecvConnWindow \/ Hibernate \/ UNCHANGED vars, NEW t \in Streams
      PROVE  (EndsTold(t) /\ StreamExact(t))'
  BY <1>2, <1>4
     DEF RecvConnWindow, Hibernate, vars, edgeVars, agentVars, wireVars, LoopVars, OrderVars
<1> QED BY <1>1, <1>3, <1>4, StepCases DEF StrandInv

\* Nothing of a stream's body or credit is under way, and the agent has not been
\* told, and is not about to be, that the stream is over.
StreamQuiet(s) ==
    /\ inHand[s] = 0 /\ bodyWire[s] = 0 /\ outstanding[s] = 0 /\ winWire[s] = 0
    /\ toAgent[s] = {} /\ ~cancelled[s]

\* An agent that has response body left to send holds at least three quarters of
\* the stream window as soon as nothing of the stream is in flight and the visitor
\* has taken what arrived: consumed's coalescing (http-stream.ts) and the agent's
\* wait for credit (http_stream.go acquire) never wait for each other.
AcquireNeverStranded ==
    \A s \in Streams :
        agent[s] = "open" /\ StreamQuiet(s) => 4 * credit[s] > 3 * STREAM_WINDOW

\* No download is stranded by its stream window (AcquireNeverStranded).
THEOREM AcquireNotStranded == Spec => []AcquireNeverStranded
<1>1. StrandInv => AcquireNeverStranded
  <2> SUFFICES ASSUME StrandInv, NEW s \in Streams, agent[s] = "open", StreamQuiet(s)
               PROVE  4 * credit[s] > 3 * STREAM_WINDOW
    BY DEF AcquireNeverStranded
  <2>1. EndsTold(s) /\ StreamExact(s) /\ Ordered(s) /\ TypeOK
    BY DEF StrandInv, FlowInv, ConnInv, Order
  <2>2. Lasts(s)
    BY <2>1 DEF EndsTold, Ordered, EndLast, StreamQuiet, Lasts, TypeOK
  <2>3. credit[s] + ungranted[s] = STREAM_WINDOW /\ 4 * ungranted[s] < STREAM_WINDOW
    BY <2>1, <2>2, LoopTyped DEF StreamExact, StreamLoop!Conserved, StreamQuiet
  <2> QED BY <2>1, <2>3, LoopTyped
<1> QED BY InitStrand, NextStrand, <1>1, PTL DEF Spec

\* When run has returned and the response is still open at the edge, its end is
\* under way: RES_END or RESET is in flight, or RES_END has arrived and the write
\* chain has only to drain.  run returns without a word on a stream that the edge
\* itself has ended, and on no other (http_stream.go run, sendSmallResponse).
EndUnderWay ==
    \A s \in Streams :
        agent[s] = "removed" /\ Active(s)
            => edge[s] = "ended" \/ "end" \in toEdge[s] \/ "reset" \in toEdge[s]

\* However run returns, the end of the visitor's response is under way
\* (EndUnderWay): the safety half of VisitorEnds.
THEOREM VisitorNotLeftHanging == Spec => []EndUnderWay
<1>1. StrandInv => EndUnderWay
  BY DEF StrandInv, EndsTold, EndUnderWay, Active
<1> QED BY InitStrand, NextStrand, <1>1, PTL DEF Spec

\* The edge keeps less than a quarter of the connection window to itself.
ConnCoalesced == 4 * connUngranted < CONN_WINDOW

\* Apart from bytes cut off between acquire and sendData: as soon as no byte of the
\* connection is in flight and the visitors have taken what arrived, the agent has
\* at least three quarters of the connection window, whatever streams are open and
\* however often the object hibernated (tunnel-object.ts grantConn).
ConnNeverStranded ==
    connWire = 0 /\ (\A s \in Streams : inHand[s] = 0 /\ bodyWire[s] = 0 /\ outstanding[s] = 0)
        => 4 * connCredit > 3 * CONN_WINDOW

LEMMA ConnCoalescedKept ==
    ASSUME TypeOK, ConnCoalesced, [Next]_vars PROVE ConnCoalesced'
<1>0. connUngranted \in Nat /\ CONN_WINDOW \in Nat \ {0}
  BY ConstantsAssumption DEF TypeOK
<1>1. ASSUME connUngranted' = 0 \/ UNCHANGED connUngranted PROVE ConnCoalesced'
  <2>1. CASE connUngranted' = 0
    BY <1>0, <2>1 DEF ConnCoalesced
  <2>2. CASE UNCHANGED connUngranted
    BY <2>2 DEF ConnCoalesced
  <2> QED BY <1>1, <2>1, <2>2
<1>2. ASSUME NEW n \in Nat, NEW got \in Nat, NEW active \in BOOLEAN, GrantConn(n, got, active)
      PROVE  ConnCoalesced'
  <2> DEFINE u == connUngranted + n
  <2>1. connUngranted' = 0 \/ (connUngranted' = u /\ ~(u >= CONN_WINDOW \div 4))
    BY <1>2 DEF GrantConn
  <2>2. u \in Nat
    BY <1>0
  <2> HIDE DEF u
  <2> QED BY <1>0, <2>1, <2>2 DEF ConnCoalesced
<1>3. ASSUME NEW s \in Streams, NEW how, Finish(s, how) PROVE ConnCoalesced'
  BY <1>1, <1>2, <1>3 DEF Finish
<1>4. ASSUME NEW s \in Streams, StreamStep(s) \/ CutStep(s) PROVE ConnCoalesced'
  <2> USE DEF edgeVars, agentVars, wireVars
  <2>1. ASSUME NEW k \in Chunk, Deliver(s, k) \/ Consume(s, k) PROVE ConnCoalesced'
    <3>1. k \in Nat /\ 0 \in Nat
      BY DEF Chunk
    <3>2. /\ SomeActive(Streams) \in BOOLEAN
          /\ SomeActive(Streams \ {s}) \in BOOLEAN
      BY DEF SomeActive, Active
    <3>3. \/ GrantConn(k, k, SomeActive(Streams \ {s}))
          \/ GrantConn(k, k, SomeActive(Streams))
          \/ GrantConn(k, 0, SomeActive(Streams))
          \/ UNCHANGED connUngranted
      BY <2>1 DEF Deliver, Consume
    <3> QED BY <1>1, <1>2, <3>1, <3>2, <3>3
  <2>2. CASE RecvHead(s) \/ RecvEnd(s)
    <3>1. Finish(s, "reset") \/ UNCHANGED connUngranted
      BY <2>2 DEF RecvHead, RecvEnd, Advance
    <3> QED BY <1>1, <1>3, <3>1
  <2>3. CASE Close(s) \/ EdgeReset(s) \/ RecvReset(s)
    <3>1. Finish(s, "reset") \/ Finish(s, "closed") \/ UNCHANGED connUngranted
      BY <2>3 DEF Close, EdgeReset, RecvReset
    <3> QED BY <1>1, <1>3, <3>1
  <2>4. CASE \/ Start(s) \/ RecvReqHead(s) \/ SendBody(s) \/ SendEnd(s) \/ GiveUp(s)
             \/ RecvWindow(s) \/ RecvEdgeReset(s) \/ CutStep(s)
             \/ \E n \in Bodies : SendHead(s, n)
             \/ \E want \in Chunk : Acquire(s, want)
    BY <1>1, <2>4
       DEF Start, RecvReqHead, SendBody, SendEnd, GiveUp, RunReturns, RecvWindow,
       RecvEdgeReset, CutStep, Cut, SendHead, Acquire
  <2> QED BY <1>4, <2>1, <2>2, <2>3, <2>4 DEF StreamStep
<1>5. CASE RecvConnWindow \/ Hibernate \/ UNCHANGED vars
  BY <1>1, <1>5 DEF RecvConnWindow, Hibernate, vars, edgeVars
<1> QED BY <1>4, <1>5, StepCases

\* No download is stranded by the connection window (ConnNeverStranded), unless
\* bytes were cut.
THEOREM ConnNotStranded == UncutSafe => []ConnNeverStranded
<1>1. Init => FlowInv /\ ConnWhole /\ ConnCoalesced
  BY InitWhole, ConstantsAssumption DEF Init, ConnCoalesced
<1>2. /\ FlowInv /\ ConnWhole /\ ConnCoalesced /\ [NextUncut]_vars
      => (FlowInv /\ ConnWhole /\ ConnCoalesced)'
  BY UncutWhole, ConnCoalescedKept DEF FlowInv, ConnInv, Next
<1>3. FlowInv /\ ConnWhole /\ ConnCoalesced => ConnNeverStranded
  <2> SUFFICES ASSUME FlowInv, ConnWhole, ConnCoalesced, connWire = 0,
                      \A s \in Streams : inHand[s] = 0 /\ bodyWire[s] = 0 /\ outstanding[s] = 0
               PROVE  4 * connCredit > 3 * CONN_WINDOW
    BY DEF ConnNeverStranded
  <2>1. TypeOK
    BY DEF FlowInv, ConnInv
  <2>2. SumFunction(inHand) = 0 /\ SumFunction(bodyWire) = 0 /\ SumFunction(outstanding) = 0
    <3>1. /\ IsFiniteSet(Streams) /\ inHand \in [Streams -> Nat]
          /\ bodyWire \in [Streams -> Nat] /\ outstanding \in [Streams -> Nat]
      BY <2>1, ConstantsAssumption DEF TypeOK
    <3> QED BY <3>1, SumOfZeros
  <2>3. connCredit + connUngranted = CONN_WINDOW
    BY <2>1, <2>2, ConnTyped DEF ConnWhole, ConnLoop!Conserved
  <2> QED BY <2>1, <2>3, ConnTyped DEF ConnCoalesced
<1> QED BY <1>1, <1>2, <1>3, PTL DEF UncutSafe
=============================================================================
