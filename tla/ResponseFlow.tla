---------------------------- MODULE ResponseFlow ----------------------------
(***************************************************************************)
(* Response bodies: the local application's answer, sent by the agent      *)
(* under stream and connection credit, relayed by the edge to the visitor, *)
(* and the credit that travels back.                                       *)
(*                                                                         *)
(*   agent  src/internal/tunnel/http_stream.go (run), session.go (sendBody,*)
(*          sendData, sendCtrl, writeLoop, dispatch) and flow.go (acquire) *)
(*   edge   src/edge/src/protocol/http-stream.ts, protocol/flow.ts         *)
(*          (ReceiveWindow), AgentConn and dispatch of tunnel-object.ts    *)
(*                                                                         *)
(* The agent has two output queues.  RES_HEAD, RES_BODY and RES_END go     *)
(* through `data` in order; RESET and WINDOW go through `ctrl`, which the  *)
(* writer prefers, so a RESET overtakes what its stream has queued.  Both  *)
(* queues are part of the wire here: bodyWire counts RES_BODY bytes from   *)
(* sendData to the edge (a delivery takes any part of them, since frames   *)
(* of one stream stay in order and their boundaries do not matter), toEdge *)
(* holds the other frames.  A null body (HEAD, 204, 304) is consumed on    *)
(* arrival, which is a Deliver followed by a Consume.  The content-length  *)
(* check of onResBody is left out: the agent's HTTP client enforces it.    *)
(***************************************************************************)
EXTENDS Naturals, FiniteSets, Functions

CONSTANTS
    Streams,            \* stream ids allocated during one connection
    STREAM_WINDOW,      \* initial credit of a stream
    CONN_WINDOW,        \* initial credit of the connection
    MAX_BODY_CHUNK,     \* longest body frame
    Bodies              \* bound: the lengths of response body of the model

ASSUME ConstantsAssumption ==
    /\ IsFiniteSet(Streams)
    /\ STREAM_WINDOW \in Nat \ {0}
    /\ CONN_WINDOW \in Nat \ {0}
    /\ MAX_BODY_CHUNK \in Nat \ {0}
    /\ Bodies \subseteq Nat

VARIABLES
    \* The agent
    agent,          \* "none", "open" (run is running) or "removed"
    headSent,       \* RES_HEAD is queued
    bodyLeft,       \* bytes of the application's body not yet read by sendBody
    inHand,         \* bytes acquire has paid for and sendData has not queued
    credit,         \* httpStream.sendCredit
    connCredit,     \* session.connCredit
    cancelled,      \* httpStream.ctx is cancelled
    \* The wire
    toEdge,         \* subset of {"head", "end", "reset"} in flight
    bodyWire,       \* RES_BODY bytes queued or in flight
    toAgent,        \* subset of {"head", "reset"}: REQ_HEAD, RESET in flight
    winWire,        \* bytes in stream WINDOW frames in flight
    connWire,       \* bytes in WINDOW(0) frames in flight
    \* The edge
    edge,           \* HttpStream: "idle", "open", "head" (RES_HEAD seen), "ended"
                    \* (RES_END seen), "closed" (visitor has it all) or "reset"
    outstanding,    \* HttpStream.recvOutstanding, the bytes of writeChain
    ungranted,      \* HttpStream.streamUngranted
    connUngranted,  \* AgentConn.connUngranted
    windowHeld,     \* AgentConn.recvWindow.held
    fault,          \* the edge reset the stream with flow_control or protocol_error
    dropped         \* the edge closed the agent's socket: peer exceeded the window

agentVars == <<agent, headSent, bodyLeft, inHand, credit, connCredit, cancelled>>
wireVars == <<toEdge, bodyWire, toAgent, winWire, connWire>>
edgeVars == <<edge, outstanding, ungranted, connUngranted, windowHeld, fault, dropped>>
vars == <<agentVars, wireVars, edgeVars>>

TypeOK ==
    /\ agent \in [Streams -> {"none", "open", "removed"}]
    /\ headSent \in [Streams -> BOOLEAN]
    /\ bodyLeft \in [Streams -> Nat]
    /\ inHand \in [Streams -> Nat]
    /\ credit \in [Streams -> Nat]
    /\ connCredit \in Nat
    /\ cancelled \in [Streams -> BOOLEAN]
    /\ toEdge \in [Streams -> SUBSET {"head", "end", "reset"}]
    /\ bodyWire \in [Streams -> Nat]
    /\ toAgent \in [Streams -> SUBSET {"head", "reset"}]
    /\ winWire \in [Streams -> Nat]
    /\ connWire \in Nat
    /\ edge \in [Streams -> {"idle", "open", "head", "ended", "closed", "reset"}]
    /\ outstanding \in [Streams -> Nat]
    /\ ungranted \in [Streams -> Nat]
    /\ connUngranted \in Nat
    /\ windowHeld \in Nat
    /\ fault \in [Streams -> BOOLEAN]
    /\ dropped \in BOOLEAN

Init ==
    /\ agent = [s \in Streams |-> "none"]
    /\ headSent = [s \in Streams |-> FALSE]
    /\ bodyLeft = [s \in Streams |-> 0]
    /\ inHand = [s \in Streams |-> 0]
    /\ credit = [s \in Streams |-> STREAM_WINDOW]
    /\ connCredit = CONN_WINDOW
    /\ cancelled = [s \in Streams |-> FALSE]
    /\ toEdge = [s \in Streams |-> {}]
    /\ bodyWire = [s \in Streams |-> 0]
    /\ toAgent = [s \in Streams |-> {}]
    /\ winWire = [s \in Streams |-> 0]
    /\ connWire = 0
    /\ edge = [s \in Streams |-> "idle"]
    /\ outstanding = [s \in Streams |-> 0]
    /\ ungranted = [s \in Streams |-> 0]
    /\ connUngranted = 0
    /\ windowHeld = 0
    /\ fault = [s \in Streams |-> FALSE]
    /\ dropped = FALSE

Least(a, b) == IF a <= b THEN a ELSE b
-----------------------------------------------------------------------------
(* The agent.                                                              *)

\* REQ_HEAD: openStream starts run.
RecvReqHead(s) ==
    /\ "head" \in toAgent[s]
    /\ toAgent' = [toAgent EXCEPT ![s] = @ \ {"head"}]
    /\ agent' = [agent EXCEPT ![s] = "open"]
    /\ UNCHANGED <<headSent, bodyLeft, inHand, credit, connCredit, cancelled,
                   toEdge, bodyWire, winWire, connWire, edgeVars>>

\* The application has answered with a body of n bytes (or could not be
\* reached, and the agent answers for it): RES_HEAD is queued.
SendHead(s, n) ==
    /\ agent[s] = "open"
    /\ ~headSent[s]
    /\ headSent' = [headSent EXCEPT ![s] = TRUE]
    /\ bodyLeft' = [bodyLeft EXCEPT ![s] = n]
    /\ toEdge' = [toEdge EXCEPT ![s] = @ \cup {"head"}]
    /\ UNCHANGED <<agent, inHand, credit, connCredit, cancelled, bodyWire,
                   toAgent, winWire, connWire, edgeVars>>

Sending(s) == agent[s] = "open" /\ headSent[s] /\ inHand[s] = 0

\* Mutant: acquire looks at the connection credit only.
AcquireBytesOfConn(s, want) == Least(want, connCredit)

\* acquire takes the least of what sendBody has read and both credits.
AcquireBytes(s, want) == Least(want, Least(credit[s], connCredit))

Acquire(s, want) ==
    /\ Sending(s)
    /\ want <= Least(bodyLeft[s], MAX_BODY_CHUNK)
    /\ LET n == AcquireBytes(s, want) IN
       /\ n > 0
       /\ credit' = [credit EXCEPT ![s] = @ - n]
       /\ connCredit' = connCredit - n
       /\ bodyLeft' = [bodyLeft EXCEPT ![s] = @ - n]
       /\ inHand' = [inHand EXCEPT ![s] = n]
    /\ UNCHANGED <<agent, headSent, cancelled, wireVars, edgeVars>>

\* sendData finds room in the data queue.
SendBody(s) ==
    /\ inHand[s] > 0
    /\ bodyWire' = [bodyWire EXCEPT ![s] = @ + inHand[s]]
    /\ inHand' = [inHand EXCEPT ![s] = 0]
    /\ UNCHANGED <<agent, headSent, bodyLeft, credit, connCredit, cancelled,
                   toEdge, toAgent, winWire, connWire, edgeVars>>

\* run returns, having queued `frames`: its deferred calls cancel the stream
\* and removeStream takes it out of the session.
RunReturns(s, frames) ==
    /\ agent[s] = "open"
    /\ agent' = [agent EXCEPT ![s] = "removed"]
    /\ cancelled' = [cancelled EXCEPT ![s] = TRUE]
    /\ toEdge' = [toEdge EXCEPT ![s] = @ \cup frames]
    /\ UNCHANGED <<headSent, bodyLeft, credit, connCredit, bodyWire, toAgent,
                   winWire, connWire, edgeVars>>

SendEnd(s) ==
    /\ Sending(s)
    /\ bodyLeft[s] = 0
    /\ RunReturns(s, {"end"})
    /\ UNCHANGED inHand

\* Mutant: the RESET is forgotten.
LocalErrorSilent(s) ==
    /\ Sending(s)
    /\ RunReturns(s, {})
    /\ UNCHANGED inHand

\* The application's response breaks off: RESET local_error.
LocalError(s) ==
    /\ Sending(s)
    /\ RunReturns(s, {"reset"})
    /\ UNCHANGED inHand

\* acquire has waited creditTimeout: RESET credit_timeout.
CreditTimeout(s) ==
    /\ Sending(s)
    /\ bodyLeft[s] > 0
    /\ Least(credit[s], connCredit) = 0
    /\ RunReturns(s, {"reset"})
    /\ UNCHANGED inHand

\* The stream was cancelled while run waited for the application, for credit or
\* for room for a frame without a body.  A response of the agent's own is ended
\* with a RESET (sendSmallResponse), any other silently.
Abandon(s, frames) ==
    /\ cancelled[s]
    /\ inHand[s] = 0
    /\ RunReturns(s, frames)
    /\ UNCHANGED inHand

\* The stream was cancelled while sendData waited for room: the bytes are
\* dropped after acquire has taken their credit.
Cut(s, frames) ==
    /\ cancelled[s]
    /\ inHand[s] > 0
    /\ RunReturns(s, frames)
    /\ inHand' = [inHand EXCEPT ![s] = 0]

\* WINDOW of a stream: dropped when the stream has been removed.
RecvWindow(s) ==
    /\ winWire[s] > 0
    /\ winWire' = [winWire EXCEPT ![s] = 0]
    /\ credit' = [credit EXCEPT ![s] = IF agent[s] = "open" THEN @ + winWire[s] ELSE @]
    /\ UNCHANGED <<agent, headSent, bodyLeft, inHand, connCredit, cancelled,
                   toEdge, bodyWire, toAgent, connWire, edgeVars>>

RecvConnWindow ==
    /\ connWire > 0
    /\ connWire' = 0
    /\ connCredit' = connCredit + connWire
    /\ UNCHANGED <<agent, headSent, bodyLeft, inHand, credit, cancelled, toEdge,
                   bodyWire, toAgent, winWire, edgeVars>>

\* RESET from the edge.
RecvEdgeReset(s) ==
    /\ toAgent[s] = {"reset"}
    /\ toAgent' = [toAgent EXCEPT ![s] = {}]
    /\ cancelled' = [cancelled EXCEPT ![s] = TRUE]
    /\ UNCHANGED <<agent, headSent, bodyLeft, inHand, credit, connCredit, toEdge,
                   bodyWire, winWire, connWire, edgeVars>>
-----------------------------------------------------------------------------
(* The edge.                                                               *)

Active(s) == edge[s] \in {"open", "head", "ended"}
SomeActive(S) == \E t \in S : Active(t)

\* Mutant: flushConn forgets to tell the receive window.
GrantConnUncounted(n, got, active) ==
    LET u == connUngranted + n
        flush == u >= CONN_WINDOW \div 4 \/ ~active
    IN  /\ connWire' = IF flush THEN connWire + u ELSE connWire
        /\ connUngranted' = IF flush THEN 0 ELSE u
        /\ windowHeld' = windowHeld + got

\* grantConn: n bytes consumed or discarded, coalesced at a quarter window while
\* streams are active.  `got` bytes have just been counted by received.
GrantConn(n, got, active) ==
    LET u == connUngranted + n
        flush == u >= CONN_WINDOW \div 4 \/ ~active
        held == windowHeld + got
    IN  /\ connWire' = IF flush THEN connWire + u ELSE connWire
        /\ connUngranted' = IF flush THEN 0 ELSE u
        /\ windowHeld' = IF flush THEN (IF u <= held THEN held - u ELSE 0) ELSE held

\* Mutant: the last stream to finish leaves what was coalesced in memory.
FinishUnflushed(s, how) ==
    /\ edge' = [edge EXCEPT ![s] = how]
    /\ UNCHANGED <<connWire, connUngranted, windowHeld>>

\* Mutant: it throws away what was coalesced.
FinishForgetting(s, how) ==
    /\ edge' = [edge EXCEPT ![s] = how]
    /\ connUngranted' = IF SomeActive(Streams \ {s}) THEN connUngranted ELSE 0
    /\ UNCHANGED <<connWire, windowHeld>>

\* finish and onDone: the stream leaves the connection; the last one flushes.
Finish(s, how) ==
    /\ edge' = [edge EXCEPT ![s] = how]
    /\ IF SomeActive(Streams \ {s})
       THEN UNCHANGED <<connWire, connUngranted, windowHeld>>
       ELSE GrantConn(0, 0, FALSE)

\* protocolError, or flow_control: the stream is reset on the agent's account.
Violation(s) ==
    /\ fault' = [fault EXCEPT ![s] = TRUE]
    /\ toAgent' = [toAgent EXCEPT ![s] = @ \cup {"reset"}]

\* start: REQ_HEAD goes out.
Start(s) ==
    /\ edge[s] = "idle"
    /\ edge' = [edge EXCEPT ![s] = "open"]
    /\ toAgent' = [toAgent EXCEPT ![s] = {"head"}]
    /\ UNCHANGED <<agentVars, toEdge, bodyWire, winWire, connWire, outstanding,
                   ungranted, connUngranted, windowHeld, fault, dropped>>

\* RES_HEAD and RES_END move the stream on; dispatch ignores them when the
\* stream is over, and out of turn they are a violation.
Advance(s, from, to) ==
    /\ IF Active(s) /\ edge[s] # from
       THEN Violation(s) /\ Finish(s, "reset")
       ELSE /\ edge' = [edge EXCEPT ![s] = IF @ = from THEN to ELSE @]
            /\ UNCHANGED <<fault, toAgent, connWire, connUngranted, windowHeld>>
    /\ UNCHANGED <<agentVars, bodyWire, winWire, outstanding, ungranted, dropped>>

\* onResHead.
RecvHead(s) ==
    /\ "head" \in toEdge[s]
    /\ toEdge' = [toEdge EXCEPT ![s] = @ \ {"head"}]
    /\ Advance(s, "open", "head")

\* Mutant: RES_END goes through the control queue and overtakes the body.
RecvEndEarly(s) ==
    /\ "end" \in toEdge[s]
    /\ "head" \notin toEdge[s]
    /\ toEdge' = [toEdge EXCEPT ![s] = @ \ {"end"}]
    /\ Advance(s, "head", "ended")

\* onResEnd.
RecvEnd(s) ==
    /\ "end" \in toEdge[s]
    /\ "head" \notin toEdge[s]
    /\ bodyWire[s] = 0
    /\ toEdge' = [toEdge EXCEPT ![s] = @ \ {"end"}]
    /\ Advance(s, "head", "ended")

\* k more bytes exceed the stream's receive window.
Exceeds(s, k) == outstanding[s] + k + ungranted[s] > STREAM_WINDOW

\* RES_BODY of k bytes.  A stream that is unknown, finished or ended returns the
\* credit at once; a body before its head or beyond the stream window is a
\* violation; beyond the connection window the agent's socket is closed (what
\* becomes of the connection then is not followed).
Deliver(s, k) ==
    /\ "head" \notin toEdge[s]
    /\ k <= Least(bodyWire[s], MAX_BODY_CHUNK)
    /\ bodyWire' = [bodyWire EXCEPT ![s] = @ - k]
    /\ dropped' = (dropped \/ windowHeld + k > CONN_WINDOW)
    /\ IF edge[s] = "open" \/ (edge[s] = "head" /\ Exceeds(s, k))
       THEN /\ Violation(s)
            /\ edge' = [edge EXCEPT ![s] = "reset"]
            /\ GrantConn(k, k, SomeActive(Streams \ {s}))
            /\ UNCHANGED outstanding
       ELSE /\ IF edge[s] = "head"
               THEN /\ outstanding' = [outstanding EXCEPT ![s] = @ + k]
                    /\ windowHeld' = windowHeld + k
                    /\ UNCHANGED <<connWire, connUngranted>>
               ELSE /\ GrantConn(k, k, SomeActive(Streams))
                    /\ UNCHANGED outstanding
            /\ UNCHANGED <<edge, fault, toAgent>>
    /\ UNCHANGED <<agentVars, toEdge, winWire, ungranted>>

\* Mutants: the granted bytes are counted on, and granted again; a grant waits
\* for more than a whole window.
GrantStreamTwice(s, k) ==
    LET u == ungranted[s] + k
        flush == u >= STREAM_WINDOW \div 4
    IN  /\ winWire' = [winWire EXCEPT ![s] = IF flush THEN @ + u ELSE @]
        /\ ungranted' = [ungranted EXCEPT ![s] = u]
GrantStreamLate(s, k) ==
    LET u == ungranted[s] + k
        flush == u > STREAM_WINDOW
    IN  /\ winWire' = [winWire EXCEPT ![s] = IF flush THEN @ + u ELSE @]
        /\ ungranted' = [ungranted EXCEPT ![s] = IF flush THEN 0 ELSE u]

\* A quarter window of stream credit goes back in one WINDOW.
GrantStream(s, k) ==
    LET u == ungranted[s] + k
        flush == u >= STREAM_WINDOW \div 4
    IN  /\ winWire' = [winWire EXCEPT ![s] = IF flush THEN @ + u ELSE @]
        /\ ungranted' = [ungranted EXCEPT ![s] = IF flush THEN 0 ELSE u]

\* consumed: the visitor has taken k bytes of the write chain, or the stream is
\* over and they are skipped.  Stream credit is returned while the response goes on.
Consume(s, k) ==
    /\ k <= Least(outstanding[s], MAX_BODY_CHUNK)
    /\ outstanding' = [outstanding EXCEPT ![s] = @ - k]
    /\ GrantConn(k, 0, SomeActive(Streams))
    /\ IF edge[s] = "head" THEN GrantStream(s, k) ELSE UNCHANGED <<winWire, ungranted>>
    /\ UNCHANGED <<agentVars, toEdge, bodyWire, toAgent, edge, fault, dropped>>

VisitorReads(s, k) == Active(s) /\ Consume(s, k)
Skip(s, k) == ~Active(s) /\ Consume(s, k)

\* The write chain is empty and writer.close resolves.
Close(s) ==
    /\ edge[s] = "ended"
    /\ outstanding[s] = 0
    /\ Finish(s, "closed")
    /\ UNCHANGED <<agentVars, toEdge, bodyWire, toAgent, winWire, outstanding,
                   ungranted, fault, dropped>>

\* reset by the edge: the visitor went away or a timer fired.
EdgeReset(s) ==
    /\ Active(s)
    /\ Finish(s, "reset")
    /\ toAgent' = [toAgent EXCEPT ![s] = @ \cup {"reset"}]
    /\ UNCHANGED <<agentVars, toEdge, bodyWire, winWire, outstanding, ungranted,
                   fault, dropped>>

\* RESET from the agent.
RecvReset(s) ==
    /\ "reset" \in toEdge[s]
    /\ toEdge' = [toEdge EXCEPT ![s] = @ \ {"reset"}]
    /\ IF Active(s) THEN Finish(s, "reset")
       ELSE UNCHANGED <<edge, connWire, connUngranted, windowHeld>>
    /\ UNCHANGED <<agentVars, bodyWire, toAgent, winWire, outstanding, ungranted,
                   fault, dropped>>

\* The idle object is evicted: connUngranted and the receive window start anew.
Hibernate ==
    /\ \A s \in Streams : ~Active(s) /\ outstanding[s] = 0
    /\ connUngranted' = 0
    /\ windowHeld' = 0
    /\ UNCHANGED <<agentVars, wireVars, edge, outstanding, ungranted, fault, dropped>>
-----------------------------------------------------------------------------
Chunk == 1 .. MAX_BODY_CHUNK

\* What happens when nothing fails and nobody gives up.
Traffic ==
    \E s \in Streams :
        \/ Start(s)
        \/ RecvReqHead(s)
        \/ \E n \in Bodies : SendHead(s, n)
        \/ \E want \in Chunk : Acquire(s, want)
        \/ SendBody(s)
        \/ SendEnd(s)
        \/ RecvWindow(s)
        \/ RecvHead(s)
        \/ \E k \in Chunk : Deliver(s, k)
        \/ \E k \in Chunk : VisitorReads(s, k)
        \/ \E k \in Chunk : Skip(s, k)
        \/ RecvEnd(s)
        \/ Close(s)

\* Timeouts, cancellations and errors of either side.
Failure ==
    \E s \in Streams :
        \/ LocalError(s)
        \/ CreditTimeout(s)
        \/ \E F \in {{}, {"reset"}} : Abandon(s, F)
        \/ RecvEdgeReset(s)
        \/ EdgeReset(s)
        \/ RecvReset(s)

Cuts == \E s \in Streams, F \in {{}, {"reset"}} : Cut(s, F)

NextUncut == Traffic \/ RecvConnWindow \/ Failure \/ Hibernate

Next == NextUncut \/ Cuts

\* The agent's goroutines, the edge's event handlers and the network run.
\* Nothing makes the application answer or the visitor read.
Progress ==
    /\ WF_vars(RecvConnWindow)
    /\ \A s \in Streams :
        /\ WF_vars(RecvReqHead(s)) /\ WF_vars(RecvWindow(s)) /\ WF_vars(RecvEdgeReset(s))
        /\ WF_vars(SendBody(s)) /\ WF_vars(\E F \in {{}, {"reset"}} : Abandon(s, F))
        /\ WF_vars(RecvHead(s)) /\ WF_vars(RecvEnd(s)) /\ WF_vars(RecvReset(s))
        /\ WF_vars(\E k \in Chunk : Deliver(s, k)) /\ WF_vars(\E k \in Chunk : Skip(s, k))
        /\ WF_vars(Close(s))

Spec == Init /\ [][Next]_vars
UncutSafe == Init /\ [][NextUncut]_vars
FairSpec == Spec /\ Progress
-----------------------------------------------------------------------------
(* Properties.                                                             *)

StreamLoop(s) == INSTANCE CreditLoop WITH
    Window <- STREAM_WINDOW,
    credit <- credit[s],
    sent <- inHand[s] + bodyWire[s],
    held <- outstanding[s] + ungranted[s],
    back <- winWire[s]

ConnLoop == INSTANCE CreditLoop WITH
    Window <- CONN_WINDOW,
    credit <- connCredit,
    sent <- SumFunction(inHand) + SumFunction(bodyWire),
    held <- SumFunction(outstanding) + connUngranted,
    back <- connWire

\* A stream's credit, bytes on their way, bytes waiting for the visitor and
\* WINDOWs in flight never add up to more than one window.
StreamBounded == \A s \in Streams : StreamLoop(s)!NoOverrun

\* The edge never finds the agent at fault: it has no reason to reset a stream,
\* although RESETs overtake the heads and bodies queued before them (http-stream.ts
\* protocolError and flow_control), nor to close the agent's socket because of the
\* connection window, which hibernation may have reset (flow.ts ReceiveWindow).
NeverFaulty == ~dropped /\ \A s \in Streams : ~fault[s]

\* A response that ends cleanly at the visitor is the whole response: no byte of
\* it is unread at the agent, unsent, in flight or waiting.
CleanEnd ==
    \A s \in Streams :
        edge[s] = "closed" =>
            bodyLeft[s] = 0 /\ inHand[s] = 0 /\ bodyWire[s] = 0 /\ outstanding[s] = 0

\* Apart from bytes cut off between acquire and sendData, the connection window
\* behaves like a credit loop that loses nothing.
ConnImplementsLoop == ConnLoop!SpecExact

\* Each stream window implements the credit loop that ends with its stream:
\* StreamLoop(s)!SpecEnding for every stream s.
StreamsImplementLoop ==
    /\ \A s \in Streams : StreamLoop(s)!Init
    /\ [][\A s \in Streams : [StreamLoop(s)!NextEnding]_(StreamLoop(s)!vars)]_vars

\* Once every stream is over and nothing is in flight, the agent has the whole
\* connection window back.
AtRest ==
    /\ connWire = 0
    /\ \A s \in Streams :
        /\ agent[s] \in {"none", "removed"} /\ ~Active(s)
        /\ toEdge[s] = {} /\ toAgent[s] = {}
        /\ bodyWire[s] = 0 /\ outstanding[s] = 0
ConnFullAtRest == AtRest => connCredit = CONN_WINDOW

\* A visitor that reads and an application that produces its body.
Cooperation ==
    \A s \in Streams :
        /\ WF_vars(\E want \in Chunk : Acquire(s, want))
        /\ WF_vars(\E k \in Chunk : VisitorReads(s, k))

\* Coalescing both windows at a quarter never strands the agent: as long as the
\* visitor reads, the whole response is sent unless its stream ends before.
DownloadCompletes ==
    Cooperation => \A s \in Streams :
        headSent[s] ~> (bodyLeft[s] = 0 \/ agent[s] = "removed")

\* No visitor is left hanging: once run has returned, whatever it queued last,
\* the visitor's response ends.  run returns without a word only when the edge
\* itself has ended the stream.
VisitorEnds ==
    Cooperation => \A s \in Streams : agent[s] = "removed" ~> ~Active(s)
=============================================================================
