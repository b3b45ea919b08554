------------------------- MODULE RequestFlowProofs -------------------------
(***************************************************************************)
(* Theorems about RequestFlow, for any set of streams and any windows.     *)
(*                                                                         *)
(* The inductive invariant is the type invariant together with             *)
(* StreamBounded: per stream, credit, bytes in flight, bytes queued or     *)
(* ungranted at the agent and credit in flight fit one window.  Every      *)
(* action moves bytes of one stream from one of these places to the next   *)
(* or drops them.  StrandInv says when it drops none: while the stream     *)
(* goes on at both ends, which StreamStory tells apart.                    *)
(***************************************************************************)
EXTENDS RequestFlow, SumProofs, TLAPS

\* The steps of one stream, the actions with a common body merged: those that
\* move no body byte and no credit of the stream, and the others.
QuietStep(s) ==
    \/ \E n \in Bodies : Start(s, n)
    \/ PumpEnd(s)
    \/ EdgeReset(s)
    \/ RecvResEnd(s)
    \/ EdgeFinish(s)
    \/ RecvReset(s)
    \/ \E noBody \in BOOLEAN : RecvHead(s, noBody)
    \/ RecvReqEnd(s)
    \/ RecvEdgeReset(s)
    \/ EarlyDiscard(s)
    \/ \E F \in SUBSET {"end", "reset"} : RunReturns(s, F) /\ (F = {} => cancelled[s])
    \/ Remove(s)

StreamStep(s) ==
    \/ QuietStep(s)
    \/ \E want \in Chunk : Pump(s, want)
    \/ RecvWindow(s)
    \/ \E k \in Chunk : RecvBody(s, k)
    \/ \E k \in Chunk : Fed(s, k)
    \/ FeedExit(s)

LEMMA AwakeCases ==
    ASSUME [NextAwake]_vars
    PROVE  (\E s \in Streams : StreamStep(s)) \/ RecvConnWindow \/ UNCHANGED vars
<1>1. CASE Traffic
  <2> {"end"} \in SUBSET {"end", "reset"}
    OBVIOUS
  <2> QED BY <1>1 DEF Traffic, StreamStep, QuietStep, AppReads, Discard, Respond
<1>2. CASE Failure
  <2> {"reset"} \in SUBSET {"end", "reset"} /\ {} \in SUBSET {"end", "reset"}
    OBVIOUS
  <2> QED BY <1>2 DEF Failure, StreamStep, QuietStep, CreditTimeout, AgentReset, Abandon
<1> QED BY <1>1, <1>2 DEF NextAwake

LEMMA StepCases ==
    ASSUME [Next]_vars
    PROVE  \/ \E s \in Streams : StreamStep(s)
           \/ RecvConnWindow
           \/ Hibernate
           \/ UNCHANGED vars
<1>1. CASE [NextAwake]_vars
  BY <1>1, AwakeCases
<1> QED BY <1>1 DEF Next
-----------------------------------------------------------------------------
(* Type correctness.                                                       *)

LEMMA LeastIsNat ==
    ASSUME NEW a \in Nat, NEW b \in Nat
    PROVE  Least(a, b) \in Nat /\ Least(a, b) <= a /\ Least(a, b) <= b
  BY DEF Least

LEMMA GrantIsNat ==
    ASSUME TypeOK, NEW n \in Nat, NEW active \in BOOLEAN,
           GrantConn(n, active) \/ GrantAndFlushConn(n)
    PROVE  connWire' \in Nat /\ connUngranted' \in Nat
<1>1. connWire \in Nat /\ connUngranted \in Nat
  BY DEF TypeOK
<1> QED BY <1>1 DEF GrantConn, GrantAndFlushConn

LEMMA InitTyped == Init => TypeOK
  BY ConstantsAssumption DEF Init, TypeOK, EdgeStates, AgentStates

LEMMA StreamStepTyped ==
    ASSUME TypeOK, NEW s \in Streams, StreamStep(s)
    PROVE  TypeOK'
<1> USE ConstantsAssumption DEF TypeOK, EdgeStates, AgentStates, edgeVars, agentVars, wireVars
<1>1. ASSUME NEW n \in Bodies, Start(s, n) PROVE TypeOK'
  BY <1>1 DEF Start
<1>2. ASSUME NEW want \in Chunk, Pump(s, want) PROVE TypeOK'
  <2>1. want \in Nat
    BY DEF Chunk
  <2> DEFINE n == PumpBytes(s, want)
  <2>2. n \in Nat /\ n <= credit[s] /\ n <= connCredit /\ n <= bodyLeft[s]
    BY <1>2, <2>1 DEF Pump, PumpBytes, Least
  <2> HIDE DEF n
  <2>3. /\ credit[s] - n \in Nat /\ connCredit - n \in Nat
        /\ bodyLeft[s] - n \in Nat /\ bodyWire[s] + n \in Nat
    BY <2>2
  <2> QED BY <1>2, <2>3 DEF Pump, n
<1>3. CASE PumpEnd(s)
  BY <1>3 DEF PumpEnd
<1>4. CASE EdgeReset(s)
  BY <1>4 DEF EdgeReset, EdgeDone
<1>5. CASE RecvWindow(s)
  BY <1>5 DEF RecvWindow
<1>6. CASE RecvResEnd(s)
  <2>1. edge' \in [Streams -> EdgeStates] /\ reqEndSent' \in [Streams -> BOOLEAN]
    BY <1>6 DEF RecvResEnd
  <2>2. toAgent' \in [Streams -> SUBSET {"head", "end", "reset"}]
    BY <1>6 DEF RecvResEnd
  <2>3. toEdge' \in [Streams -> SUBSET {"end", "reset"}]
    BY <1>6 DEF RecvResEnd
  <2> QED BY <1>6, <2>1, <2>2, <2>3 DEF RecvResEnd
<1>7. CASE EdgeFinish(s)
  BY <1>7 DEF EdgeFinish, EdgeDone
<1>8. CASE RecvReset(s)
  BY <1>8 DEF RecvReset, EdgeDone
<1>9. ASSUME NEW noBody \in BOOLEAN, RecvHead(s, noBody) PROVE TypeOK'
  BY <1>9 DEF RecvHead
<1>10. ASSUME NEW k \in Chunk, RecvBody(s, k) PROVE TypeOK'
  <2>1. k \in Nat /\ bodyWire[s] - k \in Nat
    BY <1>10 DEF RecvBody, Chunk, Least
  <2>2. connWire' \in Nat /\ connUngranted' \in Nat
    BY <1>10, <2>1, GrantIsNat DEF RecvBody, SomeInMap, InMap
  <2>3. queued' \in [Streams -> Nat]
    BY <1>10, <2>1 DEF RecvBody
  <2>4. overrun' \in [Streams -> BOOLEAN] /\ cancelled' \in [Streams -> BOOLEAN]
    BY <1>10 DEF RecvBody, InMap, Rejected
  <2>5. toEdge' \in [Streams -> SUBSET {"end", "reset"}]
    BY <1>10 DEF RecvBody
  <2>6. bodyWire' \in [Streams -> Nat]
    BY <1>10, <2>1 DEF RecvBody
  <2> QED BY <1>10, <2>2, <2>3, <2>4, <2>5, <2>6 DEF RecvBody
<1>11. CASE RecvReqEnd(s)
  BY <1>11 DEF RecvReqEnd, InMap
<1>12. CASE RecvEdgeReset(s)
  BY <1>12 DEF RecvEdgeReset, InMap
<1>13. ASSUME NEW k \in Chunk, Fed(s, k) PROVE TypeOK'
  <2>1. k \in Nat /\ queued[s] - k \in Nat /\ ungranted[s] + k \in Nat
    BY <1>13 DEF Fed, Chunk, Least
  <2>2. connWire' \in Nat /\ connUngranted' \in Nat
    BY <1>13, <2>1, GrantIsNat DEF Fed, SomeInMap, InMap
  <2> QED BY <1>13, <2>1, <2>2 DEF Fed, GrantStream
<1>14. CASE FeedExit(s)
  <2>1. connWire' \in Nat /\ connUngranted' \in Nat
    BY <1>14, GrantIsNat DEF FeedExit
  <2> QED BY <1>14, <2>1 DEF FeedExit
<1>15. CASE EarlyDiscard(s)
  BY <1>15 DEF EarlyDiscard
<1>16. ASSUME NEW F \in SUBSET {"end", "reset"}, RunReturns(s, F) PROVE TypeOK'
  BY <1>16 DEF RunReturns
<1>17. CASE Remove(s)
  <2>1. connWire' \in Nat /\ connUngranted' \in Nat
    BY <1>17, GrantIsNat DEF Remove
  <2> QED BY <1>17, <2>1 DEF Remove
<1> QED
  BY <1>1, <1>2, <1>3, <1>4, <1>5, <1>6, <1>7, <1>8, <1>9, <1>10, <1>11, <1>12,
     <1>13, <1>14, <1>15, <1>16, <1>17 DEF StreamStep, QuietStep

LEMMA NextTyped == TypeOK /\ [Next]_vars => TypeOK'
<1> SUFFICES ASSUME TypeOK, [Next]_vars PROVE TypeOK'
  OBVIOUS
<1>1. CASE \E s \in Streams : StreamStep(s)
  BY <1>1, StreamStepTyped
<1>2. CASE RecvConnWindow
  BY <1>2 DEF RecvConnWindow, TypeOK, agentVars
<1>3. CASE Hibernate
  BY <1>3 DEF Hibernate, TypeOK, agentVars, wireVars
<1>4. CASE UNCHANGED vars
  BY <1>4 DEF vars, edgeVars, agentVars, wireVars, TypeOK
<1> QED BY <1>1, <1>2, <1>3, <1>4, StepCases

\* Every variable keeps its type; in particular no credit, queue or grant
\* counter ever becomes negative (flow.ts Credit.take, http_stream.go feed).
THEOREM TypeCorrect == Spec => []TypeOK
  BY InitTyped, NextTyped, PTL DEF Spec
-----------------------------------------------------------------------------
(* The stream window.                                                      *)

\* The bytes of a stream that the loop counts.
LoopVars(s) == <<credit[s], bodyWire[s], queued[s], ungranted[s], winWire[s]>>

LEMMA LoopTyped ==
    ASSUME TypeOK, NEW s \in Streams
    PROVE  /\ credit[s] \in Nat /\ bodyWire[s] \in Nat /\ queued[s] \in Nat
           /\ ungranted[s] \in Nat /\ winWire[s] \in Nat
  BY DEF TypeOK

LEMMA QuietStepsStand ==
    ASSUME NEW s \in Streams, QuietStep(s)
    PROVE  UNCHANGED <<credit, bodyWire, queued, ungranted, winWire>>
  BY DEF QuietStep, Start, PumpEnd, EdgeReset, RecvResEnd, EdgeFinish, RecvReset,
         RecvReqEnd, RecvEdgeReset, EarlyDiscard, Remove, RecvHead, RunReturns,
         edgeVars, agentVars, wireVars

\* A step of one stream leaves the windows of the others alone.
LEMMA OthersStand ==
    ASSUME TypeOK, NEW s \in Streams, NEW t \in Streams \ {s}, StreamStep(s)
    PROVE  UNCHANGED LoopVars(t)
<1> USE DEF LoopVars, TypeOK, edgeVars, agentVars, wireVars
<1>1. CASE UNCHANGED <<credit, bodyWire, queued, ungranted, winWire>>
  BY <1>1
<1>2. ASSUME NEW want \in Chunk, Pump(s, want) PROVE UNCHANGED LoopVars(t)
  BY <1>2 DEF Pump
<1>3. CASE RecvWindow(s)
  BY <1>3 DEF RecvWindow
<1>4. ASSUME NEW k \in Chunk, RecvBody(s, k) PROVE UNCHANGED LoopVars(t)
  BY <1>4 DEF RecvBody
<1>5. ASSUME NEW k \in Chunk, Fed(s, k) PROVE UNCHANGED LoopVars(t)
  BY <1>5 DEF Fed, GrantStream
<1>6. CASE FeedExit(s)
  BY <1>6 DEF FeedExit
<1> QED BY <1>1, <1>2, <1>3, <1>4, <1>5, <1>6, QuietStepsStand DEF StreamStep

\* The stream that moves takes a step of its credit loop.
LEMMA StreamStepIsLoopStep ==
    ASSUME TypeOK, StreamBounded, NEW s \in Streams, StreamStep(s)
    PROVE  [StreamLoop(s)!NextEnding]_(StreamLoop(s)!vars)
<1> DEFINE Loop == [StreamLoop(s)!NextEnding]_(StreamLoop(s)!vars)
<1>0. /\ credit[s] \in Nat /\ bodyWire[s] \in Nat /\ queued[s] \in Nat
      /\ ungranted[s] \in Nat /\ winWire[s] \in Nat /\ STREAM_WINDOW \in Nat
      /\ credit[s] + bodyWire[s] + (queued[s] + ungranted[s]) + winWire[s] <= STREAM_WINDOW
  BY ConstantsAssumption DEF TypeOK, StreamBounded, StreamLoop!NoOverrun
<1>1. CASE UNCHANGED <<credit, bodyWire, queued, ungranted, winWire>>
  BY <1>1 DEF StreamLoop!vars
<1>2. ASSUME NEW want \in Chunk, Pump(s, want) PROVE Loop
  <2> DEFINE n == PumpBytes(s, want)
  <2>1. n \in 1 .. STREAM_WINDOW /\ n <= credit[s]
    BY <1>2, <1>0, ConstantsAssumption DEF Pump, PumpBytes, Least, Chunk, TypeOK
  <2> HIDE DEF n
  <2>2. /\ credit' = [credit EXCEPT ![s] = @ - n]
        /\ bodyWire' = [bodyWire EXCEPT ![s] = @ + n]
        /\ UNCHANGED <<queued, ungranted, winWire>>
    BY <1>2 DEF Pump, n, agentVars
  <2>3. StreamLoop(s)!Send(n)
    BY <2>1, <2>2 DEF StreamLoop!Send, TypeOK
  <2> QED BY <2>1, <2>3 DEF StreamLoop!NextEnding
<1>3. CASE RecvWindow(s)
  <2> DEFINE n == winWire[s]
             k == IF EdgeActive(s) THEN n ELSE 0
  <2>1. n \in 0 .. STREAM_WINDOW /\ k \in 0 .. STREAM_WINDOW /\ k <= n
    BY <1>0
  <2>2. /\ credit' = [credit EXCEPT ![s] = @ + k]
        /\ winWire' = [winWire EXCEPT ![s] = 0]
        /\ UNCHANGED <<queued, ungranted, bodyWire>>
    <3>1. credit \in [Streams -> Nat] /\ winWire \in [Streams -> Nat]
      BY DEF TypeOK
    <3>2. CASE EdgeActive(s)
      BY <1>3, <3>1, <3>2 DEF RecvWindow, agentVars
    <3>3. CASE ~EdgeActive(s)
      <4>1. credit[s] + k = credit[s]
        BY <1>0, <3>3
      <4> QED BY <1>3, <3>3, <4>1 DEF RecvWindow, agentVars
    <3> QED BY <3>2, <3>3
  <2>3. StreamLoop(s)!Return(n, k)
    BY <1>0, <2>1, <2>2 DEF StreamLoop!Return, TypeOK
  <2> QED BY <2>1, <2>3 DEF StreamLoop!NextEnding
<1>4. ASSUME NEW k \in Chunk, RecvBody(s, k) PROVE Loop
  <2>1. k \in 0 .. STREAM_WINDOW /\ k <= bodyWire[s] /\ 0 \in 0 .. STREAM_WINDOW
    BY <1>4, <1>0, ConstantsAssumption DEF RecvBody, Least, Chunk
  <2>2. bodyWire' = [bodyWire EXCEPT ![s] = @ - k] /\ UNCHANGED <<credit, ungranted, winWire>>
    BY <1>4 DEF RecvBody, edgeVars
  <2>3. CASE queued' = [queued EXCEPT ![s] = @ + k]
    <3>1. StreamLoop(s)!Handle(k, 0, 0)
      BY <1>0, <2>1, <2>2, <2>3 DEF StreamLoop!Handle, TypeOK
    <3> QED BY <3>1, <2>1 DEF StreamLoop!NextEnding
  <2>4. CASE UNCHANGED queued
    <3>1. StreamLoop(s)!Handle(k, 0, k)
      BY <1>0, <2>1, <2>2, <2>4 DEF StreamLoop!Handle, TypeOK
    <3> QED BY <3>1, <2>1 DEF StreamLoop!NextEnding
  <2> QED BY <1>4, <2>3, <2>4 DEF RecvBody
<1>5. ASSUME NEW k \in Chunk, Fed(s, k) PROVE Loop
  <2> DEFINE u == ungranted[s] + k
             flush == u >= STREAM_WINDOW \div 4
             g == IF flush THEN u ELSE 0
  <2>1. k \in Nat /\ k <= queued[s]
    BY <1>5, <1>0, ConstantsAssumption DEF Fed, Least, Chunk
  <2>2. u \in Nat /\ u <= queued[s] + ungranted[s] /\ g \in 0 .. STREAM_WINDOW
    BY <1>0, <2>1
  <2>3. /\ queued' = [queued EXCEPT ![s] = @ - k]
        /\ winWire' = [winWire EXCEPT ![s] = @ + g]
        /\ ungranted' = [ungranted EXCEPT ![s] = u - g]
        /\ UNCHANGED <<credit, bodyWire>>
    <3>1. winWire \in [Streams -> Nat] /\ ungranted \in [Streams -> Nat]
      BY DEF TypeOK
    <3>2. /\ queued' = [queued EXCEPT ![s] = @ - k]
          /\ winWire' = [winWire EXCEPT ![s] = IF flush THEN @ + u ELSE @]
          /\ ungranted' = [ungranted EXCEPT ![s] = IF flush THEN 0 ELSE u]
          /\ UNCHANGED <<credit, bodyWire>>
      BY <1>5, Zenon DEF Fed, GrantStream, edgeVars
    <3> HIDE DEF flush, u
    <3>3. CASE flush
      <4>1. winWire[s] + u = winWire[s] + g /\ u - g = 0
        BY <2>2, <3>3
      <4> QED BY <3>2, <3>3, <4>1
    <3>4. CASE ~flush
      <4>1. winWire[s] + g = winWire[s] /\ u - g = u
        BY <1>0, <2>2, <3>4
      <4> QED BY <3>2, <3>4, <4>1
    <3> QED BY <3>3, <3>4
  <2> HIDE DEF g
  <2>4. StreamLoop(s)!Handle(0, g, 0)
    BY <1>0, <2>1, <2>2, <2>3 DEF StreamLoop!Handle, TypeOK, g
  <2> QED BY <1>0, <2>2, <2>4 DEF StreamLoop!NextEnding
<1>6. CASE FeedExit(s)
  <2> DEFINE f == queued[s] + ungranted[s]
  <2>1. f \in 0 .. STREAM_WINDOW /\ 0 \in 0 .. STREAM_WINDOW
    BY <1>0
  <2>2. /\ queued' = [queued EXCEPT ![s] = 0]
        /\ ungranted' = [ungranted EXCEPT ![s] = 0]
        /\ UNCHANGED <<credit, bodyWire, winWire>>
    BY <1>6 DEF FeedExit, edgeVars
  <2>3. StreamLoop(s)!Handle(0, 0, f)
    BY <1>0, <2>2 DEF StreamLoop!Handle, TypeOK
  <2> QED BY <2>1, <2>3 DEF StreamLoop!NextEnding
<1> QED BY <1>1, <1>2, <1>3, <1>4, <1>5, <1>6, QuietStepsStand DEF StreamStep

\* The steps of the connection touch no stream window.
LEMMA ConnectionStepsStand ==
    ASSUME RecvConnWindow \/ Hibernate \/ UNCHANGED vars, NEW s \in Streams
    PROVE  UNCHANGED LoopVars(s)
  BY DEF RecvConnWindow, Hibernate, vars, edgeVars, agentVars, wireVars, LoopVars

\* Every step of the system is, for every stream, a step of its credit loop.
LEMMA NextIsLoopStep ==
    ASSUME TypeOK, StreamBounded, [Next]_vars, NEW t \in Streams
    PROVE  [StreamLoop(t)!NextEnding]_(StreamLoop(t)!vars)
<1>1. CASE UNCHANGED LoopVars(t)
  BY <1>1 DEF LoopVars, StreamLoop!vars
<1>2. ASSUME NEW s \in Streams, StreamStep(s)
      PROVE  [StreamLoop(t)!NextEnding]_(StreamLoop(t)!vars)
  <2>1. CASE s = t
    BY <1>2, <2>1, StreamStepIsLoopStep
  <2>2. CASE s # t
    BY <1>1, <1>2, <2>2, OthersStand
  <2> QED BY <2>1, <2>2
<1> QED BY <1>1, <1>2, StepCases, ConnectionStepsStand

\* A step of the loop keeps it within its window.
LEMMA LoopStepBounded ==
    ASSUME TypeOK, TypeOK', NEW t \in Streams, StreamLoop(t)!NoOverrun,
           [StreamLoop(t)!NextEnding]_(StreamLoop(t)!vars)
    PROVE  StreamLoop(t)!NoOverrun'
<1>0. /\ credit[t] \in Nat /\ bodyWire[t] \in Nat /\ queued[t] \in Nat
      /\ ungranted[t] \in Nat /\ winWire[t] \in Nat
      /\ credit'[t] \in Nat /\ bodyWire'[t] \in Nat /\ queued'[t] \in Nat
      /\ ungranted'[t] \in Nat /\ winWire'[t] \in Nat /\ STREAM_WINDOW \in Nat
  BY ConstantsAssumption DEF TypeOK
<1> USE <1>0 DEF StreamLoop!NoOverrun
<1>1. ASSUME NEW n \in 1 .. STREAM_WINDOW, StreamLoop(t)!Send(n)
      PROVE  StreamLoop(t)!NoOverrun'
  BY <1>1 DEF StreamLoop!Send
<1>2. ASSUME NEW n \in 0 .. STREAM_WINDOW, NEW g \in 0 .. STREAM_WINDOW,
             NEW f \in 0 .. STREAM_WINDOW, StreamLoop(t)!Handle(n, g, f)
      PROVE  StreamLoop(t)!NoOverrun'
  BY <1>2 DEF StreamLoop!Handle
<1>3. ASSUME NEW n \in 0 .. STREAM_WINDOW, NEW k \in 0 .. STREAM_WINDOW,
             StreamLoop(t)!Return(n, k)
      PROVE  StreamLoop(t)!NoOverrun'
  BY <1>3 DEF StreamLoop!Return
<1>4. CASE UNCHANGED StreamLoop(t)!vars
  BY <1>4 DEF StreamLoop!vars
<1> QED BY <1>1, <1>2, <1>3, <1>4 DEF StreamLoop!NextEnding

IInv == TypeOK /\ StreamBounded

LEMMA InitIInv == Init => IInv
<1> SUFFICES ASSUME Init PROVE StreamBounded
  BY InitTyped DEF IInv
<1> QED BY ConstantsAssumption DEF Init, StreamBounded, StreamLoop!NoOverrun

LEMMA NextIInv == IInv /\ [Next]_vars => IInv'
<1> SUFFICES ASSUME IInv, [Next]_vars PROVE IInv'
  OBVIOUS
<1>1. TypeOK'
  BY NextTyped DEF IInv
<1>2. ASSUME NEW t \in Streams PROVE StreamLoop(t)!NoOverrun'
  <2>1. StreamLoop(t)!NoOverrun
    BY DEF IInv, StreamBounded
  <2>2. [StreamLoop(t)!NextEnding]_(StreamLoop(t)!vars)
    BY NextIsLoopStep DEF IInv
  <2> QED BY <1>1, <2>1, <2>2, LoopStepBounded DEF IInv
<1> QED BY <1>1, <1>2 DEF IInv, StreamBounded

\* Every stream window is bounded (StreamBounded), for any number of streams and
\* any interleaving of resets, early responses and hibernation.
THEOREM StreamsBounded == Spec => []StreamBounded
<1>1. IInv => StreamBounded
  BY DEF IInv
<1> QED BY InitIInv, NextIInv, <1>1, PTL DEF Spec

\* The streams of the system implement credit loops: the initial state is one of
\* theirs, and every step a step of each of them or a stutter.
THEOREM StreamsRefineLoop == Spec => StreamsImplementLoop
<1>1. Init => \A s \in Streams : StreamLoop(s)!Init
  BY DEF Init, StreamLoop!Init
<1>2. IInv /\ [Next]_vars
        => [\A s \in Streams : [StreamLoop(s)!NextEnding]_(StreamLoop(s)!vars)]_vars
  BY NextIsLoopStep DEF IInv
<1> QED BY InitIInv, NextIInv, <1>1, <1>2, PTL DEF Spec, StreamsImplementLoop

\* The edge never makes the agent reset a stream with flow_control: the queue
\* check of httpStream.onFrame never fires against this edge.
THEOREM NeverOverruns == Spec => []NeverOverrun
<1>1. Init => NeverOverrun
  BY DEF Init, NeverOverrun
<1>2. IInv /\ NeverOverrun /\ [Next]_vars => NeverOverrun'
  <2> SUFFICES ASSUME IInv, NeverOverrun, [Next]_vars PROVE NeverOverrun'
    OBVIOUS
  <2>1. ASSUME NEW s \in Streams, NEW k \in Chunk, RecvBody(s, k) PROVE UNCHANGED overrun
    <3>1. /\ credit[s] \in Nat /\ bodyWire[s] \in Nat /\ queued[s] \in Nat
          /\ ungranted[s] \in Nat /\ winWire[s] \in Nat /\ STREAM_WINDOW \in Nat
          /\ credit[s] + bodyWire[s] + (queued[s] + ungranted[s]) + winWire[s] <= STREAM_WINDOW
      BY ConstantsAssumption DEF IInv, TypeOK, StreamBounded, StreamLoop!NoOverrun
    <3>2. k \in Nat /\ k <= bodyWire[s]
      BY <2>1, <3>1, ConstantsAssumption DEF RecvBody, Least, Chunk
    <3>3. ~Rejected(s, k)
      BY <3>1, <3>2 DEF Rejected
    <3>4. overrun \in [Streams -> BOOLEAN]
      BY DEF IInv, TypeOK
    <3> QED BY <2>1, <3>3, <3>4 DEF RecvBody
  <2>2. ASSUME NEW s \in Streams, StreamStep(s) PROVE UNCHANGED overrun
    BY <2>1, <2>2
       DEF StreamStep, QuietStep, Start, Pump, PumpEnd, EdgeReset, RecvWindow, RecvResEnd,
       EdgeFinish, RecvReset, RecvHead, RecvReqEnd, RecvEdgeReset, Fed, FeedExit,
       EarlyDiscard, RunReturns, Remove, agentVars
  <2>3. CASE RecvConnWindow \/ Hibernate \/ UNCHANGED vars
    BY <2>3 DEF RecvConnWindow, Hibernate, vars, agentVars, NeverOverrun
  <2> QED BY <2>2, <2>3, StepCases DEF NeverOverrun
<1> QED BY InitIInv, NextIInv, <1>1, <1>2, PTL DEF Spec
-----------------------------------------------------------------------------
(* The connection window: the same loop, with sums over all streams.       *)

LEMMA SumMoves ==
    ASSUME NEW f \in [Streams -> Nat], NEW h \in [Streams -> Nat], NEW s \in Streams,
           NEW n \in Nat, h[s] = f[s] + n, \A t \in Streams \ {s} : h[t] = f[t]
    PROVE  SumFunction(h) = SumFunction(f) + n
<1>1. IsFiniteSet(Streams)
  BY ConstantsAssumption
<1> QED BY <1>1, SumGrows

LEMMA ConnTyped ==
    ASSUME TypeOK
    PROVE  /\ connCredit \in Nat /\ connUngranted \in Nat /\ connWire \in Nat
           /\ SumFunction(bodyWire) \in Nat /\ SumFunction(queued) \in Nat
           /\ CONN_WINDOW \in Nat
  BY ConstantsAssumption, SumIsNat DEF TypeOK

ConnStep == [ConnLoop!NextExact]_(ConnLoop!vars)

\* Bytes taken off the wire and bytes granted make a step of the loop.
LEMMA HandleIsConnStep ==
    ASSUME TypeOK, ConnBounded, NEW n \in Nat, NEW g \in Nat,
           UNCHANGED connCredit,
           SumFunction(bodyWire) = SumFunction(bodyWire') + n,
           SumFunction(bodyWire') \in Nat,
           g <= SumFunction(queued) + connUngranted + n,
           SumFunction(queued') + connUngranted'
             = (SumFunction(queued) + connUngranted + n) - g,
           connWire' = connWire + g
    PROVE  ConnStep
<1>1. /\ connCredit \in Nat /\ connUngranted \in Nat /\ connWire \in Nat
      /\ SumFunction(bodyWire) \in Nat /\ SumFunction(queued) \in Nat /\ CONN_WINDOW \in Nat
      /\ connCredit + SumFunction(bodyWire) + (SumFunction(queued) + connUngranted)
           + connWire <= CONN_WINDOW
  BY ConnTyped DEF ConnBounded, ConnLoop!NoOverrun
<1>2. n \in 0 .. CONN_WINDOW /\ g \in 0 .. CONN_WINDOW
  BY <1>1
<1>3. ConnLoop!Handle(n, g, 0)
  BY <1>1 DEF ConnLoop!Handle
<1> QED BY <1>2, <1>3 DEF ConnStep, ConnLoop!NextExact

\* What grantConn does: g bytes leave the coalesced credit for the wire.
LEMMA GrantSplits ==
    ASSUME TypeOK, NEW n \in Nat, NEW active \in BOOLEAN, GrantConn(n, active)
    PROVE  \E g \in Nat : /\ g <= connUngranted + n
                          /\ connWire' = connWire + g
                          /\ connUngranted' = connUngranted + n - g
<1>1. connWire \in Nat /\ connUngranted \in Nat
  BY DEF TypeOK
<1> DEFINE u == connUngranted + n
           flush == u >= CONN_WINDOW \div 4 \/ ~active
<1>2. CASE flush
  <2>1. connWire' = connWire + u /\ connUngranted' = 0
    BY <1>2 DEF GrantConn
  <2>2. u \in Nat /\ u <= connUngranted + n /\ connUngranted + n - u = 0
    BY <1>1
  <2> HIDE DEF u
  <2> QED BY <2>1, <2>2
<1>3. CASE ~flush
  <2>1. connWire' = connWire /\ connUngranted' = u
    BY <1>3 DEF GrantConn
  <2>2. 0 \in Nat /\ 0 <= u /\ connWire = connWire + 0 /\ u = u - 0
    BY <1>1
  <2> QED BY <2>1, <2>2
<1> QED BY <1>2, <1>3

LEMMA StreamStepIsConnStep ==
    ASSUME TypeOK, TypeOK', ConnBounded, NEW s \in Streams, StreamStep(s)
    PROVE  ConnStep
<1>0. /\ connCredit \in Nat /\ connUngranted \in Nat /\ connWire \in Nat
      /\ SumFunction(bodyWire) \in Nat /\ SumFunction(queued) \in Nat /\ CONN_WINDOW \in Nat
      /\ connCredit + SumFunction(bodyWire) + (SumFunction(queued) + connUngranted)
           + connWire <= CONN_WINDOW
  BY ConnTyped DEF ConnBounded, ConnLoop!NoOverrun
<1>T. /\ bodyWire \in [Streams -> Nat] /\ bodyWire' \in [Streams -> Nat]
      /\ queued \in [Streams -> Nat] /\ queued' \in [Streams -> Nat]
  BY DEF TypeOK
<1>S. SumFunction(bodyWire') \in Nat /\ SumFunction(queued') \in Nat
  BY <1>T, ConstantsAssumption, SumIsNat
<1>1. ASSUME UNCHANGED <<connCredit, bodyWire, queued, connUngranted, connWire>> PROVE ConnStep
  BY <1>1 DEF ConnStep, ConnLoop!vars
<1>2. ASSUME NEW want \in Chunk, Pump(s, want) PROVE ConnStep
  <2> DEFINE n == PumpBytes(s, want)
  <2>1. n \in 1 .. CONN_WINDOW /\ n <= connCredit
    BY <1>2, <1>0, ConstantsAssumption DEF Pump, PumpBytes, Least, Chunk, TypeOK
  <2>2. /\ connCredit' = connCredit - n
        /\ bodyWire' = [bodyWire EXCEPT ![s] = bodyWire[s] + n]
        /\ UNCHANGED <<queued, connUngranted, connWire>>
    BY <1>2 DEF Pump, agentVars
  <2> HIDE DEF n
  <2>3. SumFunction(bodyWire') = SumFunction(bodyWire) + n
    <3>1. n \in Nat /\ bodyWire'[s] = bodyWire[s] + n
      BY <2>1, <2>2, <1>T
    <3>2. \A t \in Streams \ {s} : bodyWire'[t] = bodyWire[t]
      BY <2>2, <1>T
    <3> QED BY <1>T, <3>1, <3>2, SumMoves
  <2>4. ConnLoop!Send(n)
    BY <2>1, <2>2, <2>3 DEF ConnLoop!Send
  <2> QED BY <2>1, <2>4 DEF ConnStep, ConnLoop!NextExact
<1>3. CASE RecvWindow(s)
  BY <1>1, <1>3 DEF RecvWindow, agentVars
<1>4. ASSUME NEW k \in Chunk, RecvBody(s, k) PROVE ConnStep
  <2>1. k \in Nat /\ k <= bodyWire[s]
    BY <1>4, <1>T, ConstantsAssumption DEF RecvBody, Least, Chunk
  <2>2. bodyWire' = [bodyWire EXCEPT ![s] = @ - k] /\ UNCHANGED connCredit
    BY <1>4 DEF RecvBody, edgeVars
  <2>3. SumFunction(bodyWire) = SumFunction(bodyWire') + k
    <3>1. bodyWire[s] = bodyWire'[s] + k
      BY <2>1, <2>2, <1>T
    <3>2. \A t \in Streams \ {s} : bodyWire[t] = bodyWire'[t]
      BY <2>2, <1>T
    <3> QED BY <1>T, <2>1, <3>1, <3>2, SumMoves
  <2>4. CASE queued' = [queued EXCEPT ![s] = @ + k] /\ UNCHANGED <<connWire, connUngranted>>
    <3>1. SumFunction(queued') = SumFunction(queued) + k
      <4>1. queued'[s] = queued[s] + k
        BY <2>1, <2>4, <1>T
      <4>2. \A t \in Streams \ {s} : queued'[t] = queued[t]
        BY <2>4, <1>T
      <4> QED BY <1>T, <2>1, <4>1, <4>2, SumMoves
    <3>2. 0 \in Nat /\ connWire' = connWire + 0 /\ 0 <= SumFunction(queued) + connUngranted + k
      BY <1>0, <2>1, <2>4
    <3>3. SumFunction(queued') + connUngranted'
            = (SumFunction(queued) + connUngranted + k) - 0
      BY <1>0, <2>1, <2>4, <3>1
    <3> QED BY <1>S, <2>1, <2>2, <2>3, <3>2, <3>3, HandleIsConnStep
  <2>5. CASE UNCHANGED queued /\ GrantConn(k, SomeInMap)
    <3>1. PICK g \in Nat : /\ g <= connUngranted + k
                           /\ connWire' = connWire + g
                           /\ connUngranted' = connUngranted + k - g
      BY <2>1, <2>5, GrantSplits DEF SomeInMap, InMap
    <3>2. /\ g <= SumFunction(queued) + connUngranted + k
          /\ SumFunction(queued') + connUngranted'
               = (SumFunction(queued) + connUngranted + k) - g
      BY <1>0, <2>1, <2>5, <3>1
    <3> QED BY <1>S, <2>1, <2>2, <2>3, <3>1, <3>2, HandleIsConnStep
  <2> QED BY <1>4, <2>4, <2>5 DEF RecvBody
<1>5. ASSUME NEW k \in Chunk, Fed(s, k) PROVE ConnStep
  <2>1. k \in Nat /\ k <= queued[s]
    BY <1>5, <1>T, ConstantsAssumption DEF Fed, Least, Chunk
  <2>2. queued' = [queued EXCEPT ![s] = @ - k] /\ UNCHANGED <<connCredit, bodyWire>>
    BY <1>5 DEF Fed, edgeVars
  <2>3. SumFunction(queued) = SumFunction(queued') + k
    <3>1. queued[s] = queued'[s] + k
      BY <2>1, <2>2, <1>T
    <3>2. \A t \in Streams \ {s} : queued[t] = queued'[t]
      BY <2>2, <1>T
    <3> QED BY <1>T, <2>1, <3>1, <3>2, SumMoves
  <2>4. PICK g \in Nat : /\ g <= connUngranted + k
                         /\ connWire' = connWire + g
                         /\ connUngranted' = connUngranted + k - g
    BY <1>5, <2>1, GrantSplits DEF Fed, SomeInMap, InMap
  <2>5. /\ 0 \in Nat /\ SumFunction(bodyWire) = SumFunction(bodyWire') + 0
        /\ g <= SumFunction(queued) + connUngranted + 0
        /\ SumFunction(queued') + connUngranted'
             = (SumFunction(queued) + connUngranted + 0) - g
    BY <1>0, <1>S, <2>1, <2>2, <2>3, <2>4
  <2> QED BY <1>S, <2>2, <2>4, <2>5, HandleIsConnStep
<1>6. CASE FeedExit(s)
  <2> DEFINE n == queued[s]
             g == connUngranted + n
  <2>1. /\ queued' = [queued EXCEPT ![s] = 0]
        /\ connWire' = connWire + g /\ connUngranted' = 0
        /\ UNCHANGED <<connCredit, bodyWire>>
    <3>1. connWire' = connWire + connUngranted + queued[s]
      BY <1>6 DEF FeedExit, GrantAndFlushConn
    <3>2. queued[s] \in Nat
      BY <1>T
    <3> QED BY <1>0, <1>6, <3>1, <3>2 DEF FeedExit, GrantAndFlushConn, edgeVars
  <2>2. n \in Nat /\ g \in Nat
    BY <1>0, <1>T
  <2>3. SumFunction(queued) = SumFunction(queued') + n
    <3>1. queued[s] = queued'[s] + n
      BY <2>1, <2>2, <1>T
    <3>2. \A t \in Streams \ {s} : queued[t] = queued'[t]
      BY <2>1, <1>T
    <3> HIDE DEF n
    <3> QED BY <1>T, <2>2, <3>1, <3>2, SumMoves
  <2>4. /\ 0 \in Nat /\ SumFunction(bodyWire) = SumFunction(bodyWire') + 0
        /\ g <= SumFunction(queued) + connUngranted + 0
        /\ SumFunction(queued') + connUngranted'
             = (SumFunction(queued) + connUngranted + 0) - g
    BY <1>0, <1>S, <2>1, <2>2, <2>3
  <2> HIDE DEF g
  <2> QED BY <1>S, <2>1, <2>2, <2>4, HandleIsConnStep
<1>7. CASE Remove(s)
  <2>1. UNCHANGED <<connCredit, bodyWire, queued>>
    BY <1>7 DEF Remove, edgeVars
  <2>2. CASE UNCHANGED <<connWire, connUngranted>>
    BY <1>1, <2>1, <2>2
  <2>3. CASE connWire' = connWire + connUngranted + 0 /\ connUngranted' = 0
    <3>1. /\ 0 \in Nat /\ SumFunction(bodyWire) = SumFunction(bodyWire') + 0
          /\ connUngranted \in Nat /\ connWire' = connWire + connUngranted
          /\ connUngranted <= SumFunction(queued) + connUngranted + 0
          /\ SumFunction(queued') + connUngranted'
               = (SumFunction(queued) + connUngranted + 0) - connUngranted
      BY <1>0, <1>S, <2>1, <2>3
    <3> QED BY <1>S, <2>1, <3>1, HandleIsConnStep
  <2> QED BY <1>7, <2>2, <2>3 DEF Remove, GrantAndFlushConn
<1>8. CASE QuietStep(s) /\ ~Remove(s)
  BY <1>1, <1>8
     DEF QuietStep, Start, PumpEnd, EdgeReset, RecvResEnd, EdgeFinish, RecvReset,
     RecvReqEnd, RecvEdgeReset, EarlyDiscard, RecvHead, RunReturns, edgeVars, agentVars, wireVars
<1> QED BY <1>2, <1>3, <1>4, <1>5, <1>6, <1>7, <1>8 DEF StreamStep

LEMMA ConnStepBounded == ASSUME TypeOK, TypeOK', ConnBounded, ConnStep PROVE ConnBounded'
<1>0. /\ connCredit \in Nat /\ connUngranted \in Nat /\ connWire \in Nat
      /\ SumFunction(bodyWire) \in Nat /\ SumFunction(queued) \in Nat /\ CONN_WINDOW \in Nat
      /\ connCredit' \in Nat /\ connUngranted' \in Nat /\ connWire' \in Nat
      /\ SumFunction(bodyWire') \in Nat /\ SumFunction(queued') \in Nat
  BY ConstantsAssumption, SumIsNat DEF TypeOK
<1> USE <1>0 DEF ConnBounded, ConnLoop!NoOverrun
<1>1. ASSUME NEW n \in 1 .. CONN_WINDOW, ConnLoop!Send(n) PROVE ConnBounded'
  BY <1>1 DEF ConnLoop!Send
<1>2. ASSUME NEW n \in 0 .. CONN_WINDOW, NEW g \in 0 .. CONN_WINDOW, ConnLoop!Handle(n, g, 0)
      PROVE  ConnBounded'
  BY <1>2 DEF ConnLoop!Handle
<1>3. ASSUME NEW n \in 1 .. CONN_WINDOW, ConnLoop!Return(n, n) PROVE ConnBounded'
  BY <1>3 DEF ConnLoop!Return
<1>4. CASE UNCHANGED ConnLoop!vars
  BY <1>4 DEF ConnLoop!vars
<1> QED BY <1>1, <1>2, <1>3, <1>4 DEF ConnStep, ConnLoop!NextExact

LEMMA RecvConnWindowIsConnStep ==
    ASSUME TypeOK, ConnBounded, RecvConnWindow PROVE ConnStep
<1>1. connWire \in 1 .. CONN_WINDOW
  BY ConnTyped DEF ConnBounded, ConnLoop!NoOverrun, RecvConnWindow
<1>2. ConnLoop!Return(connWire, connWire)
  BY ConnTyped, <1>1 DEF RecvConnWindow, ConnLoop!Return, agentVars
<1> QED BY <1>1, <1>2 DEF ConnStep, ConnLoop!NextExact

\* While the object stays awake every step is a step of the exact loop.
LEMMA AwakeIsConnStep ==
    ASSUME TypeOK, TypeOK', ConnBounded, [NextAwake]_vars PROVE ConnStep
<1>2. CASE \E s \in Streams : StreamStep(s)
  BY <1>2, StreamStepIsConnStep
<1>3. CASE UNCHANGED vars
  BY <1>3 DEF vars, edgeVars, agentVars, wireVars, ConnStep, ConnLoop!vars
<1> QED BY <1>2, <1>3, AwakeCases, RecvConnWindowIsConnStep

\* The attachment never promises more than memory knows once it counts.
SavedNotMore == (\A s \in Streams : ~EdgeActive(s)) => savedCredit <= connCredit

LEMMA SavedNotMoreKept ==
    ASSUME TypeOK, SavedNotMore, [Next]_vars PROVE SavedNotMore'
<1>1. ASSUME NEW s \in Streams, StreamStep(s) PROVE SavedNotMore'
  <2> USE DEF SavedNotMore, EdgeActive, TypeOK, EdgeStates
  <2>1. CASE UNCHANGED <<edge, connCredit, savedCredit>>
    BY <2>1
  <2>2. CASE EdgeDone(s) /\ UNCHANGED connCredit
    BY <2>2 DEF EdgeDone
  <2>3. CASE edge'[s] \in {"open", "ended"}
    BY <2>3
  <2>4. ASSUME NEW n \in Bodies, Start(s, n) PROVE edge'[s] \in {"open", "ended"}
    BY <2>4 DEF Start
  <2>5. ASSUME NEW want \in Chunk, Pump(s, want) PROVE edge'[s] \in {"open", "ended"}
    BY <2>5 DEF Pump
  <2>6. CASE RecvResEnd(s)
    BY <2>1, <2>3, <2>6 DEF RecvResEnd
  <2>7. CASE EdgeReset(s) \/ EdgeFinish(s) \/ RecvReset(s)
    BY <2>1, <2>2, <2>7 DEF EdgeReset, EdgeFinish, RecvReset
  <2>8. CASE PumpEnd(s) \/ RecvWindow(s)
    BY <2>1, <2>8 DEF PumpEnd, RecvWindow
  <2>9. CASE \/ \E noBody \in BOOLEAN : RecvHead(s, noBody)
             \/ RecvReqEnd(s) \/ RecvEdgeReset(s) \/ EarlyDiscard(s) \/ Remove(s)
             \/ \E F \in SUBSET {"end", "reset"} : RunReturns(s, F)
             \/ \E k \in Chunk : RecvBody(s, k)
             \/ \E k \in Chunk : Fed(s, k)
             \/ FeedExit(s)
    BY <2>1, <2>9
       DEF RecvHead, RecvReqEnd, RecvEdgeReset, EarlyDiscard, Remove, RunReturns,
       RecvBody, Fed, FeedExit, edgeVars
  <2> QED
    BY <1>1, <2>3, <2>4, <2>5, <2>6, <2>7, <2>8, <2>9 DEF StreamStep, QuietStep
<1>2. CASE RecvConnWindow
  BY <1>2 DEF RecvConnWindow, SavedNotMore, EdgeActive, TypeOK
<1>3. CASE Hibernate
  BY <1>3 DEF Hibernate, SavedNotMore, TypeOK
<1>4. CASE UNCHANGED vars
  BY <1>4 DEF vars, edgeVars, SavedNotMore, EdgeActive
<1> QED BY <1>1, <1>2, <1>3, <1>4, StepCases

ConnInv == TypeOK /\ ConnBounded /\ SavedNotMore

LEMMA InitConn == Init => ConnInv /\ ConnLoop!Init
<1> SUFFICES ASSUME Init PROVE ConnInv /\ ConnLoop!Init
  OBVIOUS
<1>1. TypeOK
  BY InitTyped
<1>2. SumFunction(bodyWire) = 0 /\ SumFunction(queued) = 0
  <2>1. IsFiniteSet(Streams) /\ bodyWire \in [Streams -> Nat] /\ queued \in [Streams -> Nat]
    BY <1>1, ConstantsAssumption DEF TypeOK
  <2>2. \A s \in Streams : bodyWire[s] = 0 /\ queued[s] = 0
    BY DEF Init
  <2> QED BY <2>1, <2>2, SumOfZeros
<1>3. ConnLoop!Init
  BY <1>2 DEF Init, ConnLoop!Init
<1>4. ConnBounded
  BY <1>3, ConstantsAssumption DEF ConnBounded, ConnLoop!NoOverrun, ConnLoop!Init
<1>5. SavedNotMore
  BY ConstantsAssumption DEF Init, SavedNotMore
<1> QED BY <1>1, <1>3, <1>4, <1>5 DEF ConnInv

LEMMA NextConn == ConnInv /\ [Next]_vars => ConnInv'
<1> SUFFICES ASSUME ConnInv, [Next]_vars PROVE ConnInv'
  OBVIOUS
<1> USE DEF ConnInv
<1>1. TypeOK'
  BY NextTyped
<1>2. ConnBounded'
  <2>1. CASE [NextAwake]_vars
    BY <1>1, <2>1, AwakeIsConnStep, ConnStepBounded
  <2>2. CASE Hibernate
    <3>1. connCredit' <= connCredit
      BY <2>2 DEF Hibernate, SavedNotMore
    <3>2. UNCHANGED <<bodyWire, queued, connUngranted, connWire>>
      BY <2>2 DEF Hibernate, agentVars, wireVars
    <3>3. connCredit' \in Nat
      BY <1>1 DEF TypeOK
    <3> QED BY <3>1, <3>2, <3>3, ConnTyped DEF ConnBounded, ConnLoop!NoOverrun
  <2> QED BY <2>1, <2>2 DEF Next
<1>3. SavedNotMore'
  BY SavedNotMoreKept
<1> QED BY <1>1, <1>2, <1>3

\* The edge never has more than one connection window outstanding (ConnBounded),
\* although hibernation rebuilds its credit from an attachment that is written
\* only when the connection goes idle (tunnel-object.ts persistIdle, conn).
THEOREM ConnectionBounded == Spec => []ConnBounded
<1>1. ConnInv => ConnBounded
  BY DEF ConnInv
<1> QED BY InitConn, NextConn, <1>1, PTL DEF Spec

\* While the object stays awake the connection window implements the credit
\* loop that loses nothing: every step is one of its steps or a stutter.
THEOREM ConnRefinesLoop == AwakeSafe => ConnImplementsLoop
<1>1. ConnInv /\ [NextAwake]_vars => ConnInv' /\ [ConnLoop!NextExact]_(ConnLoop!vars)
  <2> SUFFICES ASSUME ConnInv, [NextAwake]_vars PROVE ConnInv' /\ ConnStep
    BY DEF ConnStep
  <2>1. [Next]_vars
    BY DEF Next
  <2>2. ConnInv'
    BY <2>1, NextConn
  <2> QED BY <2>2, AwakeIsConnStep DEF ConnInv
<1> QED BY InitConn, <1>1, PTL DEF AwakeSafe, ConnImplementsLoop, ConnLoop!SpecExact
-----------------------------------------------------------------------------
(* At rest.                                                                *)

\* Bytes are queued only for a feeder that runs, and coalesced only while a
\* stream is in the map.
NothingForgotten ==
    /\ \A s \in Streams : queued[s] # 0 => agent[s] # "none" /\ ~fed[s]
    /\ ~SomeInMap => connUngranted = 0

ConnWhole == ConnLoop!Conserved

LEMMA NothingForgottenKept ==
    ASSUME TypeOK, NothingForgotten, [Next]_vars PROVE NothingForgotten'
<1> DEFINE Q == \A t \in Streams : queued[t] # 0 => agent[t] # "none" /\ ~fed[t]
           U == ~SomeInMap => connUngranted = 0
<1>0. Q /\ U
  BY DEF NothingForgotten
<1> USE DEF TypeOK, AgentStates
<1>1. ASSUME NEW s \in Streams, StreamStep(s) PROVE Q' /\ U'
  <2>1. CASE UNCHANGED <<queued, fed, agent, connUngranted>>
    BY <1>0, <2>1 DEF SomeInMap, InMap
  <2>2. ASSUME NEW noBody \in BOOLEAN, RecvHead(s, noBody) PROVE Q' /\ U'
    BY <1>0, <2>2 DEF RecvHead, SomeInMap, InMap
  <2>3. ASSUME NEW k \in Chunk, RecvBody(s, k) PROVE Q' /\ U'
    <3>1. CASE InMap(s) /\ ~fed[s] /\ ~Rejected(s, k)
      BY <1>0, <2>3, <3>1 DEF RecvBody, SomeInMap, InMap
    <3>2. CASE ~(InMap(s) /\ ~fed[s] /\ ~Rejected(s, k))
      <4>1. UNCHANGED <<queued, fed, agent>> /\ GrantConn(k, SomeInMap)
        BY <2>3, <3>2 DEF RecvBody
      <4> QED BY <1>0, <4>1 DEF GrantConn, SomeInMap, InMap
    <3> QED BY <3>1, <3>2
  <2>4. ASSUME NEW k \in Chunk, Fed(s, k) PROVE Q' /\ U'
    <3>1. UNCHANGED <<fed, agent>> /\ GrantConn(k, SomeInMap)
      BY <2>4 DEF Fed
    <3>2. agent[s] # "none" /\ ~fed[s] /\ queued' = [queued EXCEPT ![s] = @ - k]
      BY <2>4 DEF Fed
    <3>3. Q'
      BY <1>0, <3>1, <3>2
    <3> QED BY <3>1, <3>3 DEF GrantConn, SomeInMap, InMap
  <2>5. CASE FeedExit(s)
    BY <1>0, <2>5 DEF FeedExit, GrantAndFlushConn
  <2>6. ASSUME NEW F \in SUBSET {"end", "reset"}, RunReturns(s, F) PROVE Q' /\ U'
    BY <1>0, <2>6 DEF RunReturns, SomeInMap, InMap
  <2>7. CASE Remove(s)
    <3>1. Q'
      BY <1>0, <2>7 DEF Remove
    <3>2. CASE \E t \in Streams \ {s} : InMap(t)
      BY <2>7, <3>1, <3>2 DEF Remove, SomeInMap, InMap
    <3>3. CASE connUngranted' = 0
      BY <3>1, <3>3
    <3> QED BY <2>7, <3>2, <3>3 DEF Remove, GrantAndFlushConn
  <2>8. CASE \/ \E n \in Bodies : Start(s, n)
             \/ \E want \in Chunk : Pump(s, want)
             \/ PumpEnd(s) \/ EdgeReset(s) \/ RecvWindow(s) \/ RecvResEnd(s) \/ EdgeFinish(s)
             \/ RecvReset(s) \/ RecvReqEnd(s) \/ RecvEdgeReset(s) \/ EarlyDiscard(s)
    BY <2>1, <2>8 DEF Start, Pump, PumpEnd, EdgeReset, RecvWindow, RecvResEnd, EdgeFinish,
       RecvReset, RecvReqEnd, RecvEdgeReset, EarlyDiscard, agentVars
  <2> QED BY <1>1, <2>2, <2>3, <2>4, <2>5, <2>6, <2>7, <2>8 DEF StreamStep, QuietStep
<1>2. CASE RecvConnWindow \/ Hibernate \/ UNCHANGED vars
  <2>1. UNCHANGED <<queued, fed, agent, connUngranted>>
    BY <1>2 DEF RecvConnWindow, Hibernate, vars, agentVars
  <2> QED BY <1>0, <2>1 DEF NothingForgotten, SomeInMap, InMap
<1> QED BY <1>1, <1>2, StepCases DEF NothingForgotten

LEMMA ConnStepConserves == ASSUME TypeOK, TypeOK', ConnWhole, ConnStep PROVE ConnWhole'
<1>0. /\ connCredit \in Nat /\ connUngranted \in Nat /\ connWire \in Nat
      /\ SumFunction(bodyWire) \in Nat /\ SumFunction(queued) \in Nat /\ CONN_WINDOW \in Nat
      /\ connCredit' \in Nat /\ connUngranted' \in Nat /\ connWire' \in Nat
      /\ SumFunction(bodyWire') \in Nat /\ SumFunction(queued') \in Nat
  BY ConstantsAssumption, SumIsNat DEF TypeOK
<1> USE <1>0 DEF ConnWhole, ConnLoop!Conserved
<1>1. ASSUME NEW n \in 1 .. CONN_WINDOW, ConnLoop!Send(n) PROVE ConnWhole'
  BY <1>1 DEF ConnLoop!Send
<1>2. ASSUME NEW n \in 0 .. CONN_WINDOW, NEW g \in 0 .. CONN_WINDOW, ConnLoop!Handle(n, g, 0)
      PROVE  ConnWhole'
  BY <1>2 DEF ConnLoop!Handle
<1>3. ASSUME NEW n \in 1 .. CONN_WINDOW, ConnLoop!Return(n, n) PROVE ConnWhole'
  BY <1>3 DEF ConnLoop!Return
<1>4. CASE UNCHANGED ConnLoop!vars
  BY <1>4 DEF ConnLoop!vars
<1> QED BY <1>1, <1>2, <1>3, <1>4 DEF ConnStep, ConnLoop!NextExact

RestInv == ConnInv /\ ConnWhole /\ NothingForgotten

LEMMA WholeAtRest == RestInv => ConnFullAtRest
<1> SUFFICES ASSUME RestInv, AtRest PROVE connCredit = CONN_WINDOW
  BY DEF ConnFullAtRest
<1>1. TypeOK
  BY DEF RestInv, ConnInv
<1>2. \A s \in Streams : bodyWire[s] = 0 /\ queued[s] = 0
  BY DEF AtRest, RestInv, NothingForgotten
<1>3. connUngranted = 0
  BY DEF AtRest, RestInv, NothingForgotten, SomeInMap, InMap
<1>4. SumFunction(bodyWire) = 0 /\ SumFunction(queued) = 0
  <2>1. IsFiniteSet(Streams) /\ bodyWire \in [Streams -> Nat] /\ queued \in [Streams -> Nat]
    BY <1>1, ConstantsAssumption DEF TypeOK
  <2> QED BY <1>2, <2>1, SumOfZeros
<1> QED BY <1>1, <1>3, <1>4, ConnTyped DEF AtRest, RestInv, ConnWhole, ConnLoop!Conserved

LEMMA InitRest == Init => RestInv
<1> SUFFICES ASSUME Init PROVE ConnWhole /\ NothingForgotten
  BY InitConn DEF RestInv
<1>1. ConnWhole
  BY InitConn, ConstantsAssumption DEF ConnLoop!Init, ConnWhole, ConnLoop!Conserved
<1> QED BY <1>1 DEF Init, NothingForgotten

LEMMA AwakeRest == RestInv /\ [NextAwake]_vars => RestInv'
<1> SUFFICES ASSUME RestInv, [NextAwake]_vars PROVE RestInv'
  OBVIOUS
<1>1. [Next]_vars
  BY DEF Next
<1>2. ConnInv'
  BY <1>1, NextConn DEF RestInv
<1>3. NothingForgotten'
  BY <1>1, NothingForgottenKept DEF RestInv, ConnInv
<1>4. ConnWhole'
  BY <1>2, AwakeIsConnStep, ConnStepConserves DEF RestInv, ConnInv
<1> QED BY <1>2, <1>3, <1>4 DEF RestInv

\* When nothing is left in flight the edge has its whole connection window
\* again (ConnFullAtRest), provided the object has not hibernated: hibernation is
\* the only thing that makes the connection window of PROTOCOL.md 4.3 leak.
THEOREM WholeUnlessHibernated == AwakeSafe => []ConnFullAtRest
  BY InitRest, AwakeRest, WholeAtRest, PTL DEF AwakeSafe
-----------------------------------------------------------------------------
(* Never stranded.  Both ends coalesce: the agent keeps consumed bytes to  *)
(* itself until they make a quarter window, and the edge sends nothing     *)
(* without credit.  What follows shows that the two never wait for each    *)
(* other: as long as the request goes on no byte of a window is lost, and  *)
(* less than a quarter of it sits at the agent.                            *)

\* What is known of one stream.  A stream that has not started has left no
\* trace; the agent learns of a stream from its head and from nothing else;
\* what ends the feeder of a stream that is open at the edge is on its way to
\* the edge.
StreamStory(s) ==
    /\ edge[s] = "idle" => /\ agent[s] = "none" /\ toAgent[s] = {} /\ toEdge[s] = {}
                           /\ bodyWire[s] = 0 /\ winWire[s] = 0 /\ ~reqEndSent[s]
    /\ edge[s] # "idle" => (agent[s] = "none" <=> "head" \in toAgent[s])
    /\ agent[s] = "none" => ~cancelled[s] /\ ~reqEnded[s] /\ ~fed[s]
    /\ "reset" \in toAgent[s] => edge[s] = "done"
    /\ reqEnded[s] \/ "end" \in toAgent[s] => reqEndSent[s]
    /\ edge[s] = "open" /\ reqEndSent[s] => bodyLeft[s] = 0
    /\ fed[s] => cancelled[s] \/ reqEnded[s]
    /\ agent[s] \in {"returned", "removed"} => cancelled[s]
    /\ edge[s] = "open" /\ cancelled[s] => toEdge[s] # {}

StreamVars(s) ==
    <<edge[s], bodyLeft[s], reqEndSent[s], credit[s], toAgent[s], bodyWire[s], toEdge[s],
      winWire[s], agent[s], cancelled[s], reqEnded[s], fed[s], queued[s], ungranted[s]>>

LEMMA OthersUntouched ==
    ASSUME TypeOK, NEW s \in Streams, NEW t \in Streams \ {s}, StreamStep(s)
    PROVE  UNCHANGED StreamVars(t)
<1> USE DEF StreamVars, TypeOK, edgeVars, agentVars, wireVars
<1>1. ASSUME NEW n \in Bodies, Start(s, n) PROVE UNCHANGED StreamVars(t)
  BY <1>1 DEF Start
<1>2. ASSUME NEW want \in Chunk, Pump(s, want) PROVE UNCHANGED StreamVars(t)
  BY <1>2 DEF Pump
<1>3. CASE PumpEnd(s) \/ EdgeReset(s)
  BY <1>3 DEF PumpEnd, EdgeReset, EdgeDone
<1>4. CASE RecvWindow(s) \/ RecvResEnd(s)
  BY <1>4 DEF RecvWindow, RecvResEnd
<1>5. CASE EdgeFinish(s) \/ RecvReset(s)
  BY <1>5 DEF EdgeFinish, RecvReset, EdgeDone
<1>6. ASSUME NEW noBody \in BOOLEAN, RecvHead(s, noBody) PROVE UNCHANGED StreamVars(t)
  BY <1>6 DEF RecvHead
<1>7. ASSUME NEW k \in Chunk, RecvBody(s, k) PROVE UNCHANGED StreamVars(t)
  BY <1>7 DEF RecvBody
<1>8. CASE RecvReqEnd(s) \/ RecvEdgeReset(s)
  BY <1>8 DEF RecvReqEnd, RecvEdgeReset
<1>9. ASSUME NEW k \in Chunk, Fed(s, k) PROVE UNCHANGED StreamVars(t)
  BY <1>9 DEF Fed, GrantStream
<1>10. CASE FeedExit(s) \/ EarlyDiscard(s) \/ Remove(s)
  BY <1>10 DEF FeedExit, EarlyDiscard, Remove
<1>11. ASSUME NEW F \in SUBSET {"end", "reset"}, RunReturns(s, F) PROVE UNCHANGED StreamVars(t)
  BY <1>11 DEF RunReturns
<1> QED
  BY <1>1, <1>2, <1>3, <1>4, <1>5, <1>6, <1>7, <1>8, <1>9, <1>10, <1>11
     DEF StreamStep, QuietStep

LEMMA StreamStepTold ==
    ASSUME TypeOK, NEW s \in Streams, StreamStory(s), StreamStep(s)
    PROVE  StreamStory(s)'
<1> USE DEF StreamStory, TypeOK, EdgeStates, AgentStates, edgeVars, agentVars, wireVars, EdgeActive, InMap
<1>1. ASSUME NEW n \in Bodies, Start(s, n) PROVE StreamStory(s)'
  BY <1>1 DEF Start
<1>2. ASSUME NEW want \in Chunk, Pump(s, want) PROVE StreamStory(s)'
  <2>1. want \in Nat /\ bodyLeft[s] # 0
    BY <1>2, ConstantsAssumption DEF Chunk, Pump, PumpBytes, Least
  <2> QED BY <1>2, <2>1 DEF Pump
<1>3. CASE PumpEnd(s)
  BY <1>3 DEF PumpEnd
<1>4. CASE EdgeReset(s)
  BY <1>4 DEF EdgeReset, EdgeDone
<1>5. CASE RecvWindow(s)
  BY <1>5 DEF RecvWindow
<1>6. CASE RecvResEnd(s)
  BY <1>6 DEF RecvResEnd
<1>7. CASE EdgeFinish(s)
  BY <1>7 DEF EdgeFinish, EdgeDone
<1>8. CASE RecvReset(s)
  BY <1>8 DEF RecvReset, EdgeDone
<1>9. ASSUME NEW noBody \in BOOLEAN, RecvHead(s, noBody) PROVE StreamStory(s)'
  BY <1>9 DEF RecvHead
<1>10. ASSUME NEW k \in Chunk, RecvBody(s, k) PROVE StreamStory(s)'
  <2>1. bodyWire[s] # 0
    BY <1>10, ConstantsAssumption DEF RecvBody, Least, Chunk
  <2> QED BY <1>10, <2>1 DEF RecvBody
<1>11. CASE RecvReqEnd(s)
  BY <1>11 DEF RecvReqEnd
<1>12. CASE RecvEdgeReset(s)
  BY <1>12 DEF RecvEdgeReset
<1>13. ASSUME NEW k \in Chunk, Fed(s, k) PROVE StreamStory(s)'
  BY <1>13 DEF Fed, GrantStream
<1>14. CASE FeedExit(s)
  BY <1>14 DEF FeedExit
<1>15. CASE EarlyDiscard(s)
  BY <1>15 DEF EarlyDiscard
<1>16. ASSUME NEW F \in SUBSET {"end", "reset"}, RunReturns(s, F), F = {} => cancelled[s]
       PROVE  StreamStory(s)'
  BY <1>16 DEF RunReturns
<1>17. CASE Remove(s)
  BY <1>17 DEF Remove
<1> QED
  BY <1>1, <1>2, <1>3, <1>4, <1>5, <1>6, <1>7, <1>8, <1>9, <1>10, <1>11, <1>12,
     <1>13, <1>14, <1>15, <1>16, <1>17 DEF StreamStep, QuietStep

\* A stream that has ended at either end does not come back.
Lasts(s) == edge[s] # "done" /\ ~fed[s] /\ agent[s] # "removed"

LEMMA EndedStaysEnded ==
    ASSUME TypeOK, NEW s \in Streams, StreamStory(s), StreamStep(s), Lasts(s)'
    PROVE  Lasts(s)
<1> USE DEF Lasts, TypeOK, EdgeStates, AgentStates, edgeVars, agentVars, wireVars, EdgeActive, InMap
<1>1. ASSUME NEW n \in Bodies, Start(s, n) PROVE Lasts(s)
  BY <1>1 DEF Start
<1>2. ASSUME NEW want \in Chunk, Pump(s, want) PROVE Lasts(s)
  BY <1>2 DEF Pump
<1>3. CASE PumpEnd(s) \/ EdgeReset(s) \/ RecvWindow(s)
  BY <1>3 DEF PumpEnd, EdgeReset, EdgeDone, RecvWindow
<1>4. CASE RecvResEnd(s) \/ EdgeFinish(s) \/ RecvReset(s)
  BY <1>4 DEF RecvResEnd, EdgeFinish, RecvReset, EdgeDone
<1>5. ASSUME NEW noBody \in BOOLEAN, RecvHead(s, noBody) PROVE Lasts(s)
  BY <1>5 DEF RecvHead, StreamStory
<1>6. ASSUME NEW k \in Chunk, RecvBody(s, k) PROVE Lasts(s)
  BY <1>6 DEF RecvBody
<1>7. CASE RecvReqEnd(s) \/ RecvEdgeReset(s)
  BY <1>7 DEF RecvReqEnd, RecvEdgeReset
<1>8. ASSUME NEW k \in Chunk, Fed(s, k) PROVE Lasts(s)
  BY <1>8 DEF Fed
<1>9. CASE FeedExit(s) \/ EarlyDiscard(s) \/ Remove(s)
  BY <1>9 DEF FeedExit, EarlyDiscard, Remove
<1>10. ASSUME NEW F \in SUBSET {"end", "reset"}, RunReturns(s, F) PROVE Lasts(s)
  BY <1>10 DEF RunReturns
<1> QED
  BY <1>1, <1>2, <1>3, <1>4, <1>5, <1>6, <1>7, <1>8, <1>9, <1>10 DEF StreamStep, QuietStep

\* As long as a stream goes on at both ends its window loses nothing, and what
\* the feeder keeps is less than a quarter of it.
StreamExact(s) ==
    /\ 4 * ungranted[s] < STREAM_WINDOW
    /\ Lasts(s) => StreamLoop(s)!Conserved

LEMMA StreamStepExact ==
    ASSUME IInv, TypeOK', NEW s \in Streams, StreamStory(s), StreamExact(s), StreamStep(s)
    PROVE  StreamExact(s)'
<1> DEFINE Total == credit[s] + bodyWire[s] + (queued[s] + ungranted[s]) + winWire[s]
<1>0. /\ credit[s] \in Nat /\ bodyWire[s] \in Nat /\ queued[s] \in Nat
      /\ ungranted[s] \in Nat /\ winWire[s] \in Nat /\ STREAM_WINDOW \in Nat \ {0}
      /\ Total <= STREAM_WINDOW
  BY ConstantsAssumption DEF IInv, TypeOK, StreamBounded, StreamLoop!NoOverrun
<1>T. /\ credit \in [Streams -> Nat] /\ bodyWire \in [Streams -> Nat]
      /\ queued \in [Streams -> Nat] /\ ungranted \in [Streams -> Nat]
      /\ winWire \in [Streams -> Nat]
  BY DEF IInv, TypeOK
<1>G. 4 * ungranted[s] < STREAM_WINDOW /\ (Lasts(s) => Total = STREAM_WINDOW)
  BY DEF StreamExact, StreamLoop!Conserved
<1>L. Lasts(s)' => Lasts(s)
  BY EndedStaysEnded DEF IInv
<1>P. ASSUME 4 * ungranted'[s] < STREAM_WINDOW, Lasts(s)' => Total' = STREAM_WINDOW
      PROVE  StreamExact(s)'
  BY <1>P DEF StreamExact, StreamLoop!Conserved
<1>1. CASE UNCHANGED <<credit, bodyWire, queued, ungranted, winWire>>
  BY <1>1, <1>G, <1>L, <1>P
<1>2. ASSUME NEW want \in Chunk, Pump(s, want) PROVE StreamExact(s)'
  <2> DEFINE n == PumpBytes(s, want)
  <2>1. n \in Nat /\ n <= credit[s]
    BY <1>2, <1>0, ConstantsAssumption DEF Pump, PumpBytes, Least, Chunk, IInv, TypeOK
  <2> HIDE DEF n
  <2>2. /\ credit' = [credit EXCEPT ![s] = @ - n]
        /\ bodyWire' = [bodyWire EXCEPT ![s] = @ + n]
        /\ UNCHANGED <<queued, ungranted, winWire>>
    BY <1>2 DEF Pump, n, agentVars
  <2>3. Total' = Total
    BY <1>0, <1>T, <2>1, <2>2
  <2>4. ungranted'[s] = ungranted[s]
    BY <2>2
  <2> QED BY <1>G, <1>L, <1>P, <2>3, <2>4
<1>3. CASE RecvWindow(s)
  <2>1. UNCHANGED <<bodyWire, queued, ungranted, edge, agent, fed>>
    BY <1>3 DEF RecvWindow, agentVars
  <2>2. ASSUME Lasts(s) PROVE Total' = Total
    <3>1. EdgeActive(s)
      BY <1>3, <2>2 DEF RecvWindow, Lasts, StreamStory, EdgeActive, IInv, TypeOK, EdgeStates
    <3>2. credit' = [credit EXCEPT ![s] = @ + winWire[s]] /\ winWire' = [winWire EXCEPT ![s] = 0]
      BY <1>3, <3>1 DEF RecvWindow
    <3> QED BY <1>0, <1>T, <2>1, <3>2
  <2>3. ungranted'[s] = ungranted[s]
    BY <2>1
  <2> QED BY <1>G, <1>L, <1>P, <2>2, <2>3
<1>4. ASSUME NEW k \in Chunk, RecvBody(s, k) PROVE StreamExact(s)'
  <2>1. k \in Nat \ {0} /\ k <= bodyWire[s]
    BY <1>4, <1>0, ConstantsAssumption DEF RecvBody, Least, Chunk
  <2>2. bodyWire' = [bodyWire EXCEPT ![s] = @ - k] /\ UNCHANGED <<credit, ungranted, winWire>>
    BY <1>4 DEF RecvBody, edgeVars
  <2>3. ASSUME Lasts(s) PROVE Total' = Total
    <3>1. InMap(s) /\ ~fed[s]
      BY <1>0, <1>4, <2>1, <2>3
         DEF RecvBody, Lasts, StreamStory, InMap, IInv, TypeOK, AgentStates
    <3>2. ~Rejected(s, k)
      BY <1>0, <2>1 DEF Rejected
    <3>3. queued' = [queued EXCEPT ![s] = @ + k]
      BY <1>4, <3>1, <3>2 DEF RecvBody
    <3> QED BY <1>0, <1>T, <2>1, <2>2, <3>3
  <2>4. ungranted'[s] = ungranted[s]
    BY <2>2
  <2> QED BY <1>G, <1>L, <1>P, <2>3, <2>4
<1>5. ASSUME NEW k \in Chunk, Fed(s, k) PROVE StreamExact(s)'
  <2> DEFINE u == ungranted[s] + k
             flush == u >= STREAM_WINDOW \div 4
  <2>1. k \in Nat /\ k <= queued[s] /\ u \in Nat
    BY <1>5, <1>0, ConstantsAssumption DEF Fed, Least, Chunk
  <2>2. /\ queued' = [queued EXCEPT ![s] = @ - k]
        /\ winWire' = [winWire EXCEPT ![s] = IF flush THEN @ + u ELSE @]
        /\ ungranted' = [ungranted EXCEPT ![s] = IF flush THEN 0 ELSE u]
        /\ UNCHANGED <<credit, bodyWire>>
    BY <1>5, Zenon DEF Fed, GrantStream, edgeVars
  <2>3. CASE flush
    <3>1. Total' = Total /\ 4 * ungranted'[s] < STREAM_WINDOW
      BY <1>0, <1>T, <2>1, <2>2, <2>3
    <3> QED BY <1>G, <1>L, <1>P, <3>1
  <2>4. CASE ~flush
    <3>1. 4 * u < STREAM_WINDOW
      BY <1>0, <2>1, <2>4
    <3>2. Total' = Total /\ ungranted'[s] = u
      BY <1>0, <1>T, <2>1, <2>2, <2>4
    <3> QED BY <1>G, <1>L, <1>P, <3>1, <3>2
  <2> QED BY <2>3, <2>4
<1>6. CASE FeedExit(s)
  <2>1. fed'[s] /\ ungranted'[s] = 0
    BY <1>6, <1>T DEF FeedExit, IInv, TypeOK
  <2> QED BY <1>0, <1>P, <2>1 DEF Lasts
<1> QED BY <1>1, <1>2, <1>3, <1>4, <1>5, <1>6, QuietStepsStand DEF StreamStep

StrandInv ==
    /\ IInv
    /\ \A s \in Streams : StreamStory(s) /\ StreamExact(s)

LEMMA InitStrand == Init => StrandInv
<1> SUFFICES ASSUME Init PROVE \A s \in Streams : StreamStory(s) /\ StreamExact(s)
  BY InitIInv DEF StrandInv
<1>1. \A s \in Streams : StreamStory(s)
  BY DEF Init, StreamStory
<1>2. \A s \in Streams : StreamExact(s)
  BY ConstantsAssumption DEF Init, StreamExact, StreamLoop!Conserved
<1> QED BY <1>1, <1>2

LEMMA NextStrand == StrandInv /\ [Next]_vars => StrandInv'
<1> SUFFICES ASSUME StrandInv, [Next]_vars PROVE StrandInv'
  OBVIOUS
<1>1. IInv'
  BY NextIInv DEF StrandInv
<1>2. ASSUME NEW t \in Streams, UNCHANGED StreamVars(t) PROVE (StreamStory(t) /\ StreamExact(t))'
  <2>1. StreamStory(t) /\ StreamExact(t)
    BY DEF StrandInv
  <2> QED BY <1>2, <2>1 DEF StreamVars, StreamStory, StreamExact, Lasts, StreamLoop!Conserved
<1>3. ASSUME NEW s \in Streams, NEW t \in Streams, StreamStep(s)
      PROVE  (StreamStory(t) /\ StreamExact(t))'
  <2>1. CASE s = t
    BY <1>1, <1>3, <2>1, StreamStepTold, StreamStepExact DEF StrandInv, IInv
  <2>2. CASE s # t
    BY <1>2, <1>3, <2>2, OthersUntouched DEF StrandInv, IInv
  <2> QED BY <2>1, <2>2
<1>4. CASE RecvConnWindow \/ Hibernate \/ UNCHANGED vars
  <2>1. \A t \in Streams : UNCHANGED StreamVars(t)
    BY <1>4 DEF RecvConnWindow, Hibernate, vars, edgeVars, agentVars, wireVars, StreamVars
  <2> QED BY <1>1, <1>2, <2>1 DEF StrandInv
<1> QED BY <1>1, <1>3, <1>4, StepCases DEF StrandInv

\* Nothing that could give a stream credit or end it is under way.
StreamQuiet(s) ==
    bodyWire[s] = 0 /\ queued[s] = 0 /\ winWire[s] = 0 /\ toEdge[s] = {}

\* A visitor with body left to send, whose stream is open, has at least three
\* quarters of its stream window as soon as nothing of the stream is in flight or
\* queued: the quarter that feed coalesces (http_stream.go) and the pump that
\* waits for credit (http-stream.ts acquireCredit) never wait for each other,
\* however small the window and however the other streams end.
PumpNeverStranded ==
    \A s \in Streams :
        edge[s] = "open" /\ bodyLeft[s] > 0 /\ StreamQuiet(s)
            => 4 * credit[s] > 3 * STREAM_WINDOW

\* No upload is stranded by its stream window (PumpNeverStranded), for any windows
\* and with hibernation.
THEOREM PumpNotStranded == Spec => []PumpNeverStranded
<1>1. StrandInv => PumpNeverStranded
  <2> SUFFICES ASSUME StrandInv, NEW s \in Streams, edge[s] = "open", bodyLeft[s] > 0,
                      StreamQuiet(s)
               PROVE  4 * credit[s] > 3 * STREAM_WINDOW
    BY DEF PumpNeverStranded
  <2>1. StreamStory(s) /\ StreamExact(s) /\ TypeOK
    BY DEF StrandInv, IInv
  <2>2. ~cancelled[s] /\ ~reqEndSent[s]
    BY <2>1 DEF StreamStory, StreamQuiet, TypeOK
  <2>3. Lasts(s)
    BY <2>1, <2>2 DEF StreamStory, Lasts
  <2>4. credit[s] + ungranted[s] = STREAM_WINDOW /\ 4 * ungranted[s] < STREAM_WINDOW
    BY <2>1, <2>3, ConstantsAssumption
       DEF StreamExact, StreamLoop!Conserved, StreamQuiet, TypeOK
  <2>5. credit[s] \in Nat /\ ungranted[s] \in Nat /\ STREAM_WINDOW \in Nat
    BY <2>1, ConstantsAssumption DEF TypeOK
  <2> QED BY <2>4, <2>5
<1> QED BY InitStrand, NextStrand, <1>1, PTL DEF Spec

\* The agent keeps less than a quarter of the connection window to itself.
ConnCoalesced == 4 * connUngranted < CONN_WINDOW

\* While the object stays awake and no byte of the connection is in flight or
\* queued, the edge has at least three quarters of the connection window; and
\* bytes are queued only for a feeder that runs.  So no pump waits for connection
\* credit that nobody is about to return (session.go grantConn, tunnel-object.ts).
ConnNeverStranded ==
    /\ connWire = 0 /\ (\A s \in Streams : bodyWire[s] = 0 /\ queued[s] = 0)
         => 4 * connCredit > 3 * CONN_WINDOW
    /\ \A s \in Streams : queued[s] # 0 => agent[s] # "none" /\ ~fed[s]

LEMMA ConnCoalescedKept ==
    ASSUME TypeOK, ConnCoalesced, [Next]_vars PROVE ConnCoalesced'
<1>0. connUngranted \in Nat /\ CONN_WINDOW \in Nat \ {0}
  BY ConstantsAssumption DEF TypeOK
<1>1. ASSUME connUngranted' = 0 \/ UNCHANGED connUngranted PROVE ConnCoalesced'
  <2>1. CASE connUngranted' = 0
    BY <1>0, <2>1 DEF ConnCoalesced
  <2>2. CASE UNCHANGED connUngranted
    BY <2>2 DEF ConnCoalesced
  <2> QED BY <1>1, <2>1, <2>2
<1>2. ASSUME NEW n \in Nat, NEW active \in BOOLEAN, GrantConn(n, active) PROVE ConnCoalesced'
  <2> DEFINE u == connUngranted + n
  <2>1. connUngranted' = 0 \/ (connUngranted' = u /\ ~(u >= CONN_WINDOW \div 4))
    BY <1>2 DEF GrantConn
  <2>2. u \in Nat
    BY <1>0
  <2> HIDE DEF u
  <2> QED BY <1>0, <2>1, <2>2 DEF ConnCoalesced
<1>3. ASSUME NEW s \in Streams, StreamStep(s) PROVE ConnCoalesced'
  <2>1. ASSUME NEW k \in Chunk, RecvBody(s, k) \/ Fed(s, k) PROVE ConnCoalesced'
    <3>1. k \in Nat /\ SomeInMap \in BOOLEAN
      BY DEF Chunk, SomeInMap, InMap
    <3>2. GrantConn(k, SomeInMap) \/ UNCHANGED connUngranted
      BY <2>1 DEF RecvBody, Fed
    <3> QED BY <1>1, <1>2, <3>1, <3>2
  <2>2. CASE FeedExit(s) \/ Remove(s)
    BY <1>1, <2>2 DEF FeedExit, Remove, GrantAndFlushConn
  <2>3. CASE RecvWindow(s) \/ (QuietStep(s) /\ ~Remove(s))
    BY <1>1, <2>3
       DEF QuietStep, Start, PumpEnd, EdgeReset, RecvResEnd, EdgeFinish, RecvReset, RecvWindow,
       RecvReqEnd, RecvEdgeReset, EarlyDiscard, RecvHead, RunReturns, agentVars
  <2>4. ASSUME NEW want \in Chunk, Pump(s, want) PROVE ConnCoalesced'
    BY <1>1, <2>4 DEF Pump, agentVars
  <2> QED BY <1>3, <2>1, <2>2, <2>3, <2>4 DEF StreamStep
<1>4. CASE RecvConnWindow \/ Hibernate \/ UNCHANGED vars
  BY <1>1, <1>4 DEF RecvConnWindow, Hibernate, vars, agentVars
<1> QED BY <1>3, <1>4, StepCases

\* No upload is stranded by the connection window (ConnNeverStranded), until the
\* object hibernates and rebuilds its credit from the attachment.
THEOREM ConnNotStranded == AwakeSafe => []ConnNeverStranded
<1>1. Init => RestInv /\ ConnCoalesced
  BY InitRest, ConstantsAssumption DEF Init, ConnCoalesced
<1>2. RestInv /\ ConnCoalesced /\ [NextAwake]_vars => (RestInv /\ ConnCoalesced)'
  BY AwakeRest, ConnCoalescedKept DEF RestInv, ConnInv, Next
<1>3. RestInv /\ ConnCoalesced => ConnNeverStranded
  <2> SUFFICES ASSUME RestInv, ConnCoalesced, connWire = 0,
                      \A s \in Streams : bodyWire[s] = 0 /\ queued[s] = 0
               PROVE  4 * connCredit > 3 * CONN_WINDOW
    BY DEF ConnNeverStranded, RestInv, NothingForgotten
  <2>1. TypeOK
    BY DEF RestInv, ConnInv
  <2>2. SumFunction(bodyWire) = 0 /\ SumFunction(queued) = 0
    <3>1. IsFiniteSet(Streams) /\ bodyWire \in [Streams -> Nat] /\ queued \in [Streams -> Nat]
      BY <2>1, ConstantsAssumption DEF TypeOK
    <3> QED BY <3>1, SumOfZeros
  <2>3. connCredit + connUngranted = CONN_WINDOW
    BY <2>1, <2>2, ConnTyped DEF RestInv, ConnWhole, ConnLoop!Conserved
  <2> QED BY <2>1, <2>3, ConnTyped DEF ConnCoalesced
<1> QED BY <1>1, <1>2, <1>3, PTL DEF AwakeSafe
=============================================================================
